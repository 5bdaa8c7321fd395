------------------------ MODULE AutonomyLoop_proofs ------------------------
(***************************************************************************)
(* For any number of processes and goals: with timely leases and starts that *)
(* do not overlap, one loop runs, and a goal has one task at a time and stays *)
(* closed once its task has closed it, unless users set it back or its cycle  *)
(* has failed with its message out; without either, a goal in progress is in  *)
(* a hand of a loop or has a task, or an accident has stranded it.  At the    *)
(* end, that AutonomyLoop implements GoalPursuit.                           *)
(***************************************************************************)
EXTENDS AutonomyLoop, TLAPS

LEMMA Bounds == MaxCycles \in Nat /\ MaxTasks \in Nat /\ MaxFaults \in Nat /\ Nobody \notin Processes
BY AutonomyAssumption DEF AutonomyAssumption

Working == {"claim", "plan", "ledger", "publish", "mark", "fail", "abandon"}

(* A cycle beyond its choice of a goal has one in hand.                      *)
HandsFull == \A p \in Processes : loop[p] \in Working => hand[p] \in Goals

Steps == {"none", "metrics", "claim", "plan", "ledger", "publish", "mark", "fail",
          "abandon", "renew", "extend", "sleep"}

Statuses == {"none", "pending", "in_progress", "completed", "failed", "deleted"}

TypeInv == TypeOK /\ HandsFull

-----------------------------------------------------------------------------
(* The helpers keep the types of what they write.                           *)

LEMMA TransitionType ==
    ASSUME TypeOK, NEW g, NEW status \in Statuses, Transition(g, status)
    PROVE  goal' \in [Goals -> Statuses]
BY DEF TypeOK, Transition, Statuses

LEMMA GoType ==
    ASSUME TypeInv, NEW p \in Processes, NEW there \in Steps,
           there \in Working => loop[p] \in Working, Go(p, there)
    PROVE  /\ loop' \in [Processes -> Steps]
           /\ hand' \in [Processes -> Goals \cup {NoGoal}]
           /\ cycles' \in [Processes -> 0 .. MaxCycles]
           /\ HandsFull'
<1>1. loop' = [loop EXCEPT ![p] = there] /\ hand' = hand /\ cycles' = cycles
  BY DEF Go
<1>2. loop' \in [Processes -> Steps]
  BY <1>1 DEF TypeInv, TypeOK, Steps
<1>3. HandsFull'
  <2>1. SUFFICES ASSUME NEW q \in Processes, loop'[q] \in Working
                 PROVE  hand'[q] \in Goals
    BY DEF HandsFull
  <2>2. CASE q = p
    BY <1>1, <2>1, <2>2 DEF TypeInv, TypeOK, HandsFull
  <2>3. CASE q # p
    BY <1>1, <2>1, <2>3 DEF TypeInv, TypeOK, HandsFull
  <2>4. QED
    BY <2>2, <2>3
<1>4. QED
  BY <1>1, <1>2, <1>3 DEF TypeInv, TypeOK

(* The same, of a loop that is sent elsewhere without a goal to hold.        *)
LEMMA IdleType ==
    ASSUME TypeInv, NEW p \in Processes, NEW there \in Steps \ Working,
           loop' = [loop EXCEPT ![p] = there],
           hand' = hand \/ hand' = [hand EXCEPT ![p] = NoGoal]
    PROVE  /\ loop' \in [Processes -> Steps]
           /\ hand' \in [Processes -> Goals \cup {NoGoal}]
           /\ HandsFull'
<1>1. loop' \in [Processes -> Steps]
  BY DEF TypeInv, TypeOK, Steps
<1>2. hand' \in [Processes -> Goals \cup {NoGoal}]
  BY DEF TypeInv, TypeOK
<1>3. HandsFull'
  <2>1. SUFFICES ASSUME NEW q \in Processes, loop'[q] \in Working
                 PROVE  hand'[q] \in Goals
    BY DEF HandsFull
  <2>2. q # p
    BY <2>1 DEF TypeInv, TypeOK
  <2>3. loop[q] \in Working /\ hand'[q] = hand[q]
    BY <2>1, <2>2 DEF TypeInv, TypeOK
  <2>4. QED
    BY <2>3 DEF TypeInv, HandsFull
<1>4. QED
  BY <1>1, <1>2, <1>3

LEMMA EndCycleType ==
    ASSUME TypeInv, NEW p \in Processes, EndCycle(p)
    PROVE  /\ loop' \in [Processes -> Steps]
           /\ hand' \in [Processes -> Goals \cup {NoGoal}]
           /\ cycles' \in [Processes -> 0 .. MaxCycles]
           /\ HandsFull'
<1>1. cycles' \in [Processes -> 0 .. MaxCycles]
  BY Bounds DEF EndCycle, TypeInv, TypeOK
<1>2. "renew" \in Steps \ Working
  BY DEF Steps, Working
<1>3. QED
  BY <1>1, <1>2, IdleType DEF EndCycle

LEMMA EnterType ==
    ASSUME TypeInv, NEW p \in Processes, NEW status \in {"none", "pending", "published", "failed"},
           loop[p] \in Working, Enter(p, status)
    PROVE  ledger' \in [Goals -> [Cycles -> {"none", "pending", "published", "failed"}]]
<1>1. hand[p] \in Goals /\ cycles[p] + 1 \in Cycles
  BY Bounds DEF TypeInv, TypeOK, HandsFull, Cycles
<1>2. QED
  BY <1>1 DEF Enter, TypeInv, TypeOK

LEMMA SentType ==
    ASSUME TypeInv, NEW p \in Processes, loop[p] \in Working, Sent(p)
    PROVE  tasks' \in [Goals -> 0 .. MaxTasks]
<1>1. hand[p] \in Goals
  BY DEF TypeInv, HandsFull
<1>2. tasks[hand[p]] + 1 \in 0 .. MaxTasks
  <2>1. tasks[hand[p]] \in 0 .. MaxTasks /\ tasks[hand[p]] < MaxTasks
    BY <1>1 DEF Sent, TypeInv, TypeOK
  <2>2. QED
    BY <2>1, Bounds
<1>3. QED
  BY <1>2 DEF Sent, TypeInv, TypeOK

LEMMA StrandType ==
    ASSUME TypeInv, NEW p \in Processes, loop[p] \in Working,
           stranded' = stranded \cup {hand[p]}
    PROVE  stranded' \subseteq Goals
BY DEF TypeInv, TypeOK, HandsFull

LEMMA FaultType ==
    ASSUME TypeInv, NEW kind, Fault(kind)
    PROVE  faults' \in 0 .. MaxFaults
BY Bounds DEF Fault, TypeInv, TypeOK

LEMMA CutOffType ==
    ASSUME TypeInv, NEW p \in Processes, CutOff(p)
    PROVE  /\ loop' \in [Processes -> Steps]
           /\ hand' \in [Processes -> Goals \cup {NoGoal}]
           /\ tasks' \in [Goals -> 0 .. MaxTasks]
           /\ stranded' \subseteq Goals
           /\ HandsFull'
<1>1. "none" \in Steps \ Working
  BY DEF Steps, Working
<1>2. tasks' \in [Goals -> 0 .. MaxTasks]
  BY SentType DEF CutOff, TypeInv, TypeOK, Working
<1>3. stranded' \subseteq Goals
  BY DEF CutOff, TypeInv, TypeOK, HandsFull, Working
<1>4. QED
  BY <1>1, <1>2, <1>3, IdleType DEF CutOff
-----------------------------------------------------------------------------
LEMMA TypeInit == Init => TypeInv
BY Bounds DEF Init, TypeInv, TypeOK, HandsFull, NoLease, Cycles, Working

LEMMA GoalsType ==
    ASSUME TypeInv, NEW g \in Goals,
           CreateGoal(g) \/ PatchGoal(g) \/ DeleteGoal(g) \/ TaskEnds(g) \/ TaskLost(g)
    PROVE  TypeInv'
<1>1. CASE CreateGoal(g)
  BY <1>1 DEF CreateGoal, TypeInv, TypeOK, HandsFull, loopVars, startVars, ghostVars
<1>2. CASE PatchGoal(g)
  <2>1. goal' \in [Goals -> Statuses]
    BY <1>2, TransitionType DEF PatchGoal, TypeInv, Statuses
  <2>2. faults' \in 0 .. MaxFaults
    BY <1>2, Bounds DEF PatchGoal, TypeInv, TypeOK
  <2>3. QED
    BY <1>2, <2>1, <2>2 DEF PatchGoal, TypeInv, TypeOK, HandsFull, loopVars, startVars, Statuses
<1>3. CASE DeleteGoal(g)
  BY <1>3, FaultType DEF DeleteGoal, TypeInv, TypeOK, HandsFull, loopVars, startVars
<1>4. CASE TaskEnds(g)
  <2>1. goal' \in [Goals -> Statuses]
    BY <1>4, TransitionType DEF TaskEnds, TypeInv, Statuses
  <2>2. tasks' \in [Goals -> 0 .. MaxTasks]
    BY <1>4, Bounds DEF TaskEnds, TypeInv, TypeOK
  <2>3. QED
    BY <1>4, <2>1, <2>2 DEF TaskEnds, TypeInv, TypeOK, HandsFull, loopVars, startVars, ghostVars, Statuses
<1>5. CASE TaskLost(g)
  <2>1. tasks' \in [Goals -> 0 .. MaxTasks]
    BY <1>5, Bounds DEF TaskLost, TypeInv, TypeOK
  <2>2. QED
    BY <1>5, <2>1, FaultType DEF TaskLost, TypeInv, TypeOK, HandsFull, loopVars, startVars
<1>6. QED
  BY <1>1, <1>2, <1>3, <1>4, <1>5

(* Requests leave the loops and what they hold alone, but for Check.         *)
LEMMA RequestsType ==
    ASSUME TypeInv, NEW p \in Processes, Start(p) \/ Serve(p)
    PROVE  TypeInv'
<1>1. CASE Start(p)
  <2>1. lease' \in [row : {"none", "live", "expired"}, holder : Processes \cup {Nobody}]
    BY <1>1 DEF Start, LosesId, TypeInv, TypeOK
  <2>2. request' \in [Processes -> {"none", "insert", "takeover", "check", "release"}]
    BY <1>1 DEF Start, Request, TypeInv, TypeOK
  <2>3. QED
    BY <1>1, <2>1, <2>2 DEF Start, TypeInv, TypeOK, HandsFull, loopVars, ghostVars
<1>2. CASE Insert(p) \/ TakeOver(p)
  <2>1. lease' \in [row : {"none", "live", "expired"}, holder : Processes \cup {Nobody}]
    BY <1>2 DEF Insert, TakeOver, Acquire, TypeInv, TypeOK
  <2>2. request' \in [Processes -> {"none", "insert", "takeover", "check", "release"}]
    BY <1>2 DEF Insert, TakeOver, Acquire, Request, TypeInv, TypeOK
  <2>3. QED
    BY <1>2, <2>1, <2>2 DEF Insert, TakeOver, TypeInv, TypeOK, HandsFull, loopVars, ghostVars
<1>3. CASE Check(p)
  <2>1. request' \in [Processes -> {"none", "insert", "takeover", "check", "release"}]
    BY <1>3 DEF Check, Request, TypeInv, TypeOK
  <2>2. loop' \in [Processes -> Steps] /\ HandsFull'
    <3>1. CASE loop' = loop
      BY <1>3, <3>1 DEF Check, TypeInv, TypeOK, HandsFull, Steps
    <3>2. CASE loop' = [loop EXCEPT ![p] = "metrics"]
      BY <1>3, <3>2, IdleType DEF Check, Steps, Working
    <3>3. QED
      BY <1>3, <3>1, <3>2 DEF Check
  <2>3. QED
    BY <1>3, <2>1, <2>2 DEF Check, TypeInv, TypeOK, Steps, rowVars, ghostVars
<1>4. CASE Release(p)
  <2>1. request' \in [Processes -> {"none", "insert", "takeover", "check", "release"}]
    BY <1>4 DEF Release, Request, TypeInv, TypeOK
  <2>2. owners' \subseteq Processes /\ stopping' \subseteq Processes
    BY <1>4 DEF Release, TypeInv, TypeOK
  <2>3. QED
    BY <1>4, <2>1, <2>2 DEF Release, TypeInv, TypeOK, HandsFull, rowVars, loopVars, ghostVars
<1>5. CASE Delete(p)
  <2>1. request' \in [Processes -> {"none", "insert", "takeover", "check", "release"}]
    BY <1>5 DEF Delete, Request, TypeInv, TypeOK
  <2>2. QED
    BY <1>5, <2>1 DEF Delete, NoLease, TypeInv, TypeOK, HandsFull, loopVars, ghostVars
<1>6. QED
  BY <1>1, <1>2, <1>3, <1>4, <1>5 DEF Serve

LEMMA LoopType ==
    ASSUME TypeInv, NEW p \in Processes, Loop(p)
    PROVE  TypeInv'
<1>1. CASE SkipCycle(p)
  BY <1>1, EndCycleType DEF SkipCycle, TypeInv, TypeOK, Steps, rowVars, startVars, ghostVars
<1>2. CASE List(p)
  <2>1. PICK g \in Goals : hand' = [hand EXCEPT ![p] = g]
    BY <1>2 DEF List, Pending
  <2>2. loop' = [loop EXCEPT ![p] = "claim"]
    BY <1>2 DEF List
  <2>3. hand' \in [Processes -> Goals \cup {NoGoal}] /\ loop' \in [Processes -> Steps]
    BY <2>1, <2>2 DEF TypeInv, TypeOK, Steps
  <2>4. HandsFull'
    BY <2>1, <2>2 DEF TypeInv, TypeOK, HandsFull
  <2>5. QED
    BY <1>2, <2>3, <2>4 DEF List, TypeInv, TypeOK, Steps, rowVars, startVars, ghostVars
<1>3. CASE Claim(p)
  <2>1. goal' \in [Goals -> Statuses]
    BY <1>3, TransitionType DEF Claim, TypeInv, Statuses
  <2>2. loop[p] \in Working
    BY <1>3 DEF Claim, Working
  <2>3. QED
    BY <1>3, <2>1, <2>2, GoType DEF Claim, TypeInv, TypeOK, Steps, Statuses, startVars, ghostVars
<1>4. CASE Plan(p)
  <2>1. loop[p] \in Working
    BY <1>4 DEF Plan, Working
  <2>2. QED
    BY <1>4, <2>1, GoType DEF Plan, TypeInv, TypeOK, Steps, rowVars, startVars, ghostVars
<1>5. CASE GetEntry(p)
  <2>1. loop[p] \in Working
    BY <1>5 DEF GetEntry, Working
  <2>2. ledger' \in [Goals -> [Cycles -> {"none", "pending", "published", "failed"}]]
    BY <1>5, <2>1, EnterType DEF GetEntry, TypeInv, TypeOK
  <2>3. QED
    BY <1>5, <2>1, <2>2, GoType DEF GetEntry, TypeInv, TypeOK, Steps, startVars, ghostVars
<1>6. CASE SkipPublished(p)
  <2>1. loop[p] \in Working
    BY <1>6 DEF SkipPublished, Working
  <2>2. stranded' \subseteq Goals
    BY <1>6, <2>1, StrandType DEF SkipPublished
  <2>3. QED
    BY <1>6, <2>2, EndCycleType DEF SkipPublished, TypeInv, TypeOK, Steps, rowVars, startVars
<1>7. CASE Publish(p)
  <2>1. loop[p] \in Working
    BY <1>7 DEF Publish, Working
  <2>2. tasks' \in [Goals -> 0 .. MaxTasks]
    BY <1>7, <2>1, SentType DEF Publish
  <2>3. QED
    BY <1>7, <2>1, <2>2, GoType DEF Publish, TypeInv, TypeOK, Steps, startVars, ghostVars
<1>8. CASE MarkPublished(p)
  <2>1. loop[p] \in Working
    BY <1>8 DEF MarkPublished, Working
  <2>2. ledger' \in [Goals -> [Cycles -> {"none", "pending", "published", "failed"}]]
    BY <1>8, <2>1, EnterType DEF MarkPublished
  <2>3. QED
    BY <1>8, <2>2, EndCycleType DEF MarkPublished, TypeInv, TypeOK, Steps, startVars, ghostVars
<1>9. CASE GiveBack(p)
  <2>1. loop[p] \in Working
    BY <1>9 DEF GiveBack, Failing, Working
  <2>2. ledger' \in [Goals -> [Cycles -> {"none", "pending", "published", "failed"}]]
    BY <1>9, <2>1, EnterType DEF GiveBack, Records, TypeInv, TypeOK
  <2>3. goal' \in [Goals -> Statuses]
    BY <1>9, TransitionType DEF GiveBack, Returns, TypeInv, TypeOK, Statuses
  <2>4. stranded' \subseteq Goals
    BY <1>9, <2>1, StrandType DEF GiveBack, Returns, TypeInv, TypeOK
  <2>5. faults' \in 0 .. MaxFaults
    BY <1>9, FaultType DEF GiveBack, TypeInv, TypeOK
  <2>6. QED
    BY <1>9, <2>2, <2>3, <2>4, <2>5, EndCycleType
       DEF GiveBack, TypeInv, TypeOK, Steps, Statuses, startVars
<1>10. CASE Renew(p)
  <2>1. \E there \in Steps \ Working : loop' = [loop EXCEPT ![p] = there]
    BY <1>10 DEF Renew, Steps, Working
  <2>2. QED
    BY <1>10, <2>1, IdleType DEF Renew, TypeInv, TypeOK, Steps, rowVars, startVars, ghostVars
<1>11. CASE Extend(p)
  <2>1. \E there \in Steps \ Working : loop' = [loop EXCEPT ![p] = there]
    BY <1>11 DEF Extend, Steps, Working
  <2>2. lease' \in [row : {"none", "live", "expired"}, holder : Processes \cup {Nobody}]
    BY <1>11 DEF Extend, TypeInv, TypeOK
  <2>3. loop' \in [Processes -> Steps] /\ HandsFull'
    BY <1>11, <2>1, IdleType DEF Extend
  <2>4. QED
    BY <1>11, <2>2, <2>3 DEF Extend, TypeInv, TypeOK, Steps, startVars, ghostVars
<1>12. CASE Wake(p)
  <2>1. "metrics" \in Steps \ Working
    BY DEF Steps, Working
  <2>2. QED
    BY <1>12, <2>1, IdleType DEF Wake, TypeInv, TypeOK, Steps, rowVars, startVars, ghostVars
<1>13. QED
  BY <1>1, <1>2, <1>3, <1>4, <1>5, <1>6, <1>7, <1>8, <1>9, <1>10, <1>11, <1>12 DEF Loop

LEMMA AccidentType ==
    ASSUME TypeInv, NEW p \in Processes, Accident(p)
    PROVE  TypeInv'
<1>1. CASE ClaimRaises(p)
  <2>1. loop[p] \in Working
    BY <1>1 DEF ClaimRaises, Working
  <2>2. goal' \in [Goals -> Statuses] /\ stranded' \subseteq Goals
    BY <1>1, <2>1, TransitionType, StrandType DEF ClaimRaises, TypeInv, TypeOK, Statuses
  <2>3. QED
    BY <1>1, <2>2, EndCycleType, FaultType DEF ClaimRaises, TypeInv, TypeOK, Steps, Statuses, startVars
<1>2. CASE EmptyPlan(p)
  <2>1. loop[p] \in Working
    BY <1>2 DEF EmptyPlan, Working
  <2>2. stranded' \subseteq Goals
    BY <1>2, <2>1, StrandType DEF EmptyPlan
  <2>3. QED
    BY <1>2, <2>2, EndCycleType, FaultType DEF EmptyPlan, TypeInv, TypeOK, Steps, rowVars, startVars
<1>3. CASE PublishOffline(p)
  <2>1. loop[p] \in Working
    BY <1>3 DEF PublishOffline, Working
  <2>2. stranded' \subseteq Goals
    BY <1>3, <2>1, StrandType DEF PublishOffline
  <2>3. QED
    BY <1>3, <2>1, <2>2, GoType, FaultType DEF PublishOffline, TypeInv, TypeOK, Steps, rowVars, startVars
<1>4. CASE PublishRaises(p)
  <2>1. loop[p] \in Working
    BY <1>4 DEF PublishRaises, Working
  <2>2. /\ tasks' \in [Goals -> 0 .. MaxTasks] /\ faults' \in 0 .. MaxFaults
        /\ disowned' \subseteq Goals
    BY <1>4, <2>1, SentType, FaultType DEF PublishRaises, Disowns, TypeInv, TypeOK, HandsFull
  <2>3. QED
    BY <1>4, <2>1, <2>2, GoType DEF PublishRaises, TypeInv, TypeOK, Steps, startVars
<1>5. CASE EntryRaises(p) \/ MarkRaises(p)
  <2>1. loop[p] \in Working
    BY <1>5 DEF EntryRaises, MarkRaises, Working
  <2>2. ledger' \in [Goals -> [Cycles -> {"none", "pending", "published", "failed"}]]
    BY <1>5, <2>1, EnterType DEF EntryRaises, MarkRaises, TypeInv, TypeOK
  <2>3. faults' \in 0 .. MaxFaults /\ disowned' \subseteq Goals
    BY <1>5, <2>1, FaultType DEF EntryRaises, MarkRaises, Disowns, TypeInv, TypeOK, HandsFull
  <2>4. /\ loop' \in [Processes -> Steps]
        /\ hand' \in [Processes -> Goals \cup {NoGoal}]
        /\ cycles' \in [Processes -> 0 .. MaxCycles]
        /\ HandsFull'
    BY <1>5, <2>1, GoType DEF EntryRaises, MarkRaises, Steps
  <2>5. QED
    BY <1>5, <2>2, <2>3, <2>4 DEF EntryRaises, MarkRaises, TypeInv, TypeOK, Steps, startVars
<1>6. CASE RenewRaises(p)
  <2>1. "none" \in Steps \ Working
    BY DEF Steps, Working
  <2>2. QED
    BY <1>6, <2>1, IdleType, FaultType DEF RenewRaises, TypeInv, TypeOK, Steps, rowVars, startVars
<1>7. CASE Stop(p)
  <2>1. cycles' \in [Processes -> 0 .. MaxCycles]
    BY <1>7, Bounds DEF Stop, TypeInv, TypeOK
  <2>2. QED
    BY <1>7, <2>1, CutOffType, FaultType DEF Stop, TypeInv, TypeOK, Steps
<1>8. CASE Crash(p)
  <2>1. cycles' \in [Processes -> 0 .. MaxCycles]
    BY <1>8, Bounds DEF Crash, TypeInv, TypeOK
  <2>2. request' \in [Processes -> {"none", "insert", "takeover", "check", "release"}]
    BY <1>8 DEF Crash, Request, TypeInv, TypeOK
  <2>3. lease' \in [row : {"none", "live", "expired"}, holder : Processes \cup {Nobody}]
    BY <1>8 DEF Crash, LosesId, TypeInv, TypeOK
  <2>4. QED
    BY <1>8, <2>1, <2>2, <2>3, CutOffType, FaultType DEF Crash, TypeInv, TypeOK, Steps
<1>9. QED
  BY <1>1, <1>2, <1>3, <1>4, <1>5, <1>6, <1>7, <1>8 DEF Accident

LEMMA ExpireType ==
    ASSUME TypeInv, Expire
    PROVE  TypeInv'
BY DEF Expire, TypeInv, TypeOK, HandsFull, loopVars, startVars, ghostVars

LEMMA StutterType ==
    ASSUME TypeInv, UNCHANGED vars
    PROVE  TypeInv'
BY DEF TypeInv, TypeOK, HandsFull, vars, rowVars, loopVars, startVars, ghostVars

LEMMA TypeStep == TypeInv /\ [Next]_vars => TypeInv'
BY GoalsType, RequestsType, LoopType, AccidentType, ExpireType, StutterType DEF Next

LEMMA TypeInvariant == Spec => []TypeInv
BY TypeInit, TypeStep, PTL DEF Spec

(* Every variable of the loop keeps its type, whatever goes wrong.           *)
THEOREM TypeCorrect == Spec => []TypeOK
BY TypeInvariant, PTL DEF TypeInv
-----------------------------------------------------------------------------
(* What keeps the loop single: of all processes one at most holds the lease, *)
(* be it for a loop, for one that starts, or for one that is being stopped.  *)

Holds(p) == loop[p] # "none" \/ p \in stopping \/ request[p] \in {"check", "release"}

HolderAlone ==
    /\ \A p, q \in Processes : Holds(p) /\ Holds(q) => p = q
    /\ \A p \in Processes : Holds(p) => lease.row = "live"
    /\ \A p \in Processes : Holds(p) /\ p \notin stopping => lease.holder = p

(* A request has read the row as it still is, and no other start is under way.*)
ReadsHold ==
    /\ \A p \in Processes : request[p] = "insert" => lease.row = "none"
    /\ \A p \in Processes : request[p] = "takeover" => lease.row # "live"
    /\ \A p, q \in Processes : Starting(p) /\ Starting(q) => p = q

(* A process has a loop, or is starting or stopping one.                     *)
OneAtATime ==
    \A p \in Processes :
        /\ loop[p] # "none" => p \notin stopping /\ ~Starting(p) /\ request[p] # "release"
        /\ p \in stopping => request[p] = "none"

LoopInv == TypeInv /\ HolderAlone /\ ReadsHold /\ OneAtATime

-----------------------------------------------------------------------------
LEMMA LoopInit == Init => LoopInv
BY TypeInit DEF Init, LoopInv, HolderAlone, Holds, ReadsHold, Starting, OneAtATime

LEMMA StartKeeps ==
    ASSUME Timely, SerialStarts, LoopInv, NEW p \in Processes, Start(p)
    PROVE  HolderAlone' /\ ReadsHold' /\ OneAtATime'
<1>1. /\ request[p] = "none" /\ loop[p] = "none"
      /\ \A q \in Processes : ~Starting(q)
      /\ loop' = loop /\ stopping' = stopping
      /\ lease'.row = lease.row
      /\ \A q \in Processes : q # p /\ lease.holder = q => lease'.holder = q
      /\ request \in [Processes -> {"none", "insert", "takeover", "check", "release"}]
  BY DEF Start, Free, LosesId, loopVars, LoopInv, TypeInv, TypeOK
<1>2. CASE lease.row = "live"
  <2>1. request' = request
    BY <1>2 DEF Start
  <2>2. QED
    BY <1>1, <1>2, <2>1 DEF LoopInv, HolderAlone, Holds, ReadsHold, Starting, OneAtATime
<1>3. CASE lease.row # "live"
  <2>1. \A q \in Processes : ~Holds(q)
    BY <1>3 DEF LoopInv, HolderAlone
  <2>2. \E step \in {"insert", "takeover"} :
            /\ request' = [request EXCEPT ![p] = step]
            /\ step = "insert" => lease.row = "none"
    BY <1>3 DEF Start, Request
  <2>3. \A q \in Processes : ~Holds(q)'
    BY <1>1, <2>1, <2>2 DEF Holds
  <2>4. ReadsHold'
    BY <1>1, <1>3, <2>2 DEF ReadsHold, Starting
  <2>5. OneAtATime'
    BY <2>3 DEF OneAtATime, Holds
  <2>6. QED
    BY <2>3, <2>4, <2>5 DEF HolderAlone
<1>4. QED
  BY <1>2, <1>3

LEMMA ServeKeeps ==
    ASSUME Timely, SerialStarts, LoopInv, NEW p \in Processes, Serve(p)
    PROVE  HolderAlone' /\ ReadsHold' /\ OneAtATime'
<1>0. /\ request \in [Processes -> {"none", "insert", "takeover", "check", "release"}]
      /\ loop \in [Processes -> Steps]
  BY DEF LoopInv, TypeInv, TypeOK, Steps
<1>1. CASE Insert(p) \/ TakeOver(p)
  <2>1. /\ request[p] \in {"insert", "takeover"}
        /\ loop' = loop /\ stopping' = stopping
    BY <1>1 DEF Insert, TakeOver, loopVars
  <2>2. lease.row # "live"
    BY <2>1 DEF LoopInv, ReadsHold
  <2>3. \A q \in Processes : ~Holds(q)
    BY <2>2 DEF LoopInv, HolderAlone
  <2>4. \A q \in Processes : Starting(q) => q = p
    BY <2>1 DEF LoopInv, ReadsHold, Starting
  <2>5. CASE Acquire(p)
    <3>1. lease' = [row |-> "live", holder |-> p] /\ request' = [request EXCEPT ![p] = "check"]
      BY <2>5 DEF Acquire, Request
    <3>2. \A q \in Processes : Holds(q)' => q = p
      BY <1>0, <2>1, <2>3, <3>1 DEF Holds
    <3>3. HolderAlone'
      BY <3>1, <3>2 DEF HolderAlone
    <3>4. ReadsHold'
      BY <1>0, <2>4, <3>1 DEF ReadsHold, Starting
    <3>5. OneAtATime'
      BY <1>0, <2>1, <2>3, <3>1 DEF OneAtATime, Holds
    <3>6. QED
      BY <3>3, <3>4, <3>5
  <2>6. CASE ~Acquire(p)
    <3>1. /\ lease' = lease
          /\ \E step \in {"none", "takeover"} : request' = [request EXCEPT ![p] = step]
      BY <1>1, <2>2, <2>6 DEF Insert, TakeOver, Request
    <3>2. \A q \in Processes : ~Holds(q)'
      BY <1>0, <2>1, <2>3, <3>1 DEF Holds
    <3>3. ReadsHold'
      BY <1>0, <2>2, <2>4, <3>1 DEF LoopInv, ReadsHold, Starting
    <3>4. QED
      BY <3>2, <3>3 DEF HolderAlone, OneAtATime, Holds
  <2>7. QED
    BY <2>5, <2>6
<1>2. CASE Check(p)
  <2>1. /\ request[p] = "check" /\ request' = [request EXCEPT ![p] = "none"]
        /\ lease' = lease /\ stopping' = stopping
        /\ \A q \in Processes : q # p => loop'[q] = loop[q]
    BY <1>0, <1>2 DEF Check, Request, rowVars
  <2>2. Holds(p) /\ Starting(p)
    BY <2>1 DEF Holds, Starting
  <2>3. p \notin stopping
    BY <2>1 DEF LoopInv, OneAtATime
  <2>4. \A q \in Processes : Holds(q)' => Holds(q)
    BY <1>0, <2>1, <2>2 DEF Holds
  <2>5. HolderAlone'
    BY <2>1, <2>4 DEF LoopInv, HolderAlone
  <2>6. ReadsHold'
    BY <1>0, <2>1 DEF LoopInv, ReadsHold, Starting
  <2>7. OneAtATime'
    BY <1>0, <2>1, <2>3 DEF LoopInv, OneAtATime, Starting
  <2>8. QED
    BY <2>5, <2>6, <2>7
<1>3. CASE Release(p)
  <2>1. /\ request[p] = "none" /\ p \in stopping /\ stopping' = stopping \ {p}
        /\ lease' = lease /\ loop' = loop
        /\ request' = request \/ (request' = [request EXCEPT ![p] = "release"] /\ lease.holder = p)
    BY <1>3 DEF Release, Free, Request, rowVars, loopVars
  <2>2. loop[p] = "none"
    BY <2>1 DEF LoopInv, OneAtATime
  <2>3. \A q \in Processes : Holds(q)' => Holds(q)
    BY <1>0, <2>1 DEF Holds
  <2>4. HolderAlone'
    <3>1. \A q \in Processes : Holds(q)' /\ q \notin stopping' => lease.holder = q
      BY <1>0, <2>1, <2>2 DEF LoopInv, HolderAlone, Holds
    <3>2. QED
      BY <2>1, <2>3, <3>1 DEF LoopInv, HolderAlone
  <2>5. ReadsHold'
    BY <1>0, <2>1 DEF LoopInv, ReadsHold, Starting
  <2>6. OneAtATime'
    BY <1>0, <2>1, <2>2 DEF LoopInv, OneAtATime, Starting
  <2>7. QED
    BY <2>4, <2>5, <2>6
<1>4. CASE Delete(p)
  <2>1. /\ request[p] = "release" /\ request' = [request EXCEPT ![p] = "none"]
        /\ lease'.row = "none" /\ loop' = loop /\ stopping' = stopping
    BY <1>4 DEF Delete, Request, NoLease, loopVars
  <2>2. Holds(p) /\ loop[p] = "none" /\ p \notin stopping
    BY <2>1 DEF LoopInv, OneAtATime, Holds
  <2>3. \A q \in Processes : ~Holds(q)'
    BY <1>0, <2>1, <2>2 DEF LoopInv, HolderAlone, Holds
  <2>4. ReadsHold'
    BY <1>0, <2>1 DEF LoopInv, ReadsHold, Starting
  <2>5. QED
    BY <2>3, <2>4 DEF HolderAlone, OneAtATime, Holds
<1>5. QED
  BY <1>1, <1>2, <1>3, <1>4 DEF Serve

(* Steps of a loop that has the lease, and its end.                          *)
LEMMA RunningKeeps ==
    ASSUME LoopInv, NEW p \in Processes,
           loop[p] # "none", request' = request, stopping' = stopping,
           lease' = lease \/ (lease' = [lease EXCEPT !.row = "live"]),
           \A q \in Processes : q # p => loop'[q] = loop[q]
    PROVE  HolderAlone' /\ ReadsHold' /\ OneAtATime'
<1>1. Holds(p) /\ lease.row = "live" /\ lease' = lease
  BY DEF LoopInv, HolderAlone, Holds, TypeInv, TypeOK
<1>2. \A q \in Processes : Holds(q)' => Holds(q)
  BY <1>1 DEF Holds
<1>3. HolderAlone'
  BY <1>1, <1>2 DEF LoopInv, HolderAlone
<1>4. ReadsHold'
  BY <1>1 DEF LoopInv, ReadsHold, Starting
<1>5. OneAtATime'
  BY DEF LoopInv, OneAtATime, Starting
<1>6. QED
  BY <1>3, <1>4, <1>5

LEMMA LoopKeeps ==
    ASSUME LoopInv, NEW p \in Processes, Loop(p)
    PROVE  HolderAlone' /\ ReadsHold' /\ OneAtATime'
<1>0. loop \in [Processes -> Steps]
  BY DEF LoopInv, TypeInv, TypeOK, Steps
<1>1. loop[p] # "none"
  BY DEF Loop, SkipCycle, List, Claim, Plan, GetEntry, SkipPublished, Publish, MarkPublished,
         GiveBack, Failing, Renew, Extend, Wake
<1>2. request' = request /\ stopping' = stopping
  BY DEF Loop, SkipCycle, List, Claim, Plan, GetEntry, SkipPublished, Publish, MarkPublished,
         GiveBack, Renew, Extend, Wake, startVars
<1>3. lease' = lease \/ (lease' = [lease EXCEPT !.row = "live"])
  BY DEF Loop, SkipCycle, List, Claim, Plan, GetEntry, SkipPublished, Publish, MarkPublished,
         GiveBack, Renew, Extend, Wake, rowVars
<1>4. \A q \in Processes : q # p => loop'[q] = loop[q]
  BY <1>0 DEF Loop, SkipCycle, List, Claim, Plan, GetEntry, SkipPublished, Publish, MarkPublished,
         GiveBack, Renew, Extend, Wake, EndCycle, Go
<1>5. QED
  BY <1>1, <1>2, <1>3, <1>4, RunningKeeps

LEMMA AccidentKeeps ==
    ASSUME LoopInv, NEW p \in Processes, Accident(p)
    PROVE  HolderAlone' /\ ReadsHold' /\ OneAtATime'
<1>0. /\ loop \in [Processes -> Steps]
      /\ request \in [Processes -> {"none", "insert", "takeover", "check", "release"}]
  BY DEF LoopInv, TypeInv, TypeOK, Steps
<1>1. CASE ClaimRaises(p) \/ EmptyPlan(p) \/ PublishOffline(p) \/ PublishRaises(p)
           \/ EntryRaises(p) \/ MarkRaises(p) \/ RenewRaises(p)
  <2>1. loop[p] # "none" /\ request' = request /\ stopping' = stopping /\ lease' = lease
    BY <1>1 DEF ClaimRaises, EmptyPlan, PublishOffline, PublishRaises, EntryRaises, MarkRaises,
                RenewRaises, startVars, rowVars
  <2>2. \A q \in Processes : q # p => loop'[q] = loop[q]
    BY <1>0, <1>1 DEF ClaimRaises, EmptyPlan, PublishOffline, PublishRaises, EntryRaises,
                MarkRaises, RenewRaises, EndCycle, Go
  <2>3. QED
    BY <2>1, <2>2, RunningKeeps
<1>2. CASE Stop(p)
  <2>1. /\ loop[p] # "none" /\ p \notin stopping /\ stopping' = stopping \cup {p}
        /\ request[p] = "none" /\ request' = request /\ lease' = lease
        /\ loop' = [loop EXCEPT ![p] = "none"]
    BY <1>2 DEF Stop, Free, CutOff
  <2>2. \A q \in Processes : Holds(q)' => Holds(q)
    BY <1>0, <2>1 DEF Holds
  <2>3. HolderAlone'
    BY <2>1, <2>2 DEF LoopInv, HolderAlone
  <2>4. ReadsHold'
    BY <2>1 DEF LoopInv, ReadsHold, Starting
  <2>5. OneAtATime'
    BY <1>0, <2>1 DEF LoopInv, OneAtATime, Starting
  <2>6. QED
    BY <2>3, <2>4, <2>5
<1>3. CASE Crash(p)
  <2>1. /\ stopping' = stopping \ {p}
        /\ request' = [request EXCEPT ![p] = "none"]
        /\ loop' = [loop EXCEPT ![p] = "none"]
        /\ lease'.row = lease.row
        /\ \A q \in Processes : q # p /\ lease.holder = q => lease'.holder = q
    BY <1>3 DEF Crash, CutOff, Request, LosesId, LoopInv, TypeInv, TypeOK
  <2>2. ~Holds(p)' /\ \A q \in Processes : Holds(q)' => Holds(q)
    BY <1>0, <2>1 DEF Holds
  <2>3. HolderAlone'
    BY <2>1, <2>2 DEF LoopInv, HolderAlone
  <2>4. ReadsHold'
    BY <1>0, <2>1 DEF LoopInv, ReadsHold, Starting
  <2>5. OneAtATime'
    BY <1>0, <2>1 DEF LoopInv, OneAtATime, Starting
  <2>6. QED
    BY <2>3, <2>4, <2>5
<1>4. QED
  BY <1>1, <1>2, <1>3 DEF Accident

LEMMA ExpireKeeps ==
    ASSUME Timely, LoopInv, Expire
    PROVE  HolderAlone' /\ ReadsHold' /\ OneAtATime'
<1>1. /\ loop' = loop /\ request' = request /\ stopping' = stopping /\ stopping = {}
      /\ lease.row = "live" /\ lease'.row = "expired" /\ lease'.holder = lease.holder
      /\ lease.holder \in Processes => ~Busy(lease.holder)
  BY DEF Expire, loopVars, startVars, LoopInv, TypeInv, TypeOK
<1>2. \A q \in Processes : ~Holds(q)
  BY <1>1 DEF LoopInv, HolderAlone, Holds, Busy
<1>3. QED
  BY <1>1, <1>2 DEF LoopInv, HolderAlone, Holds, ReadsHold, Starting, OneAtATime

LEMMA RestKeeps ==
    ASSUME LoopInv,
           (\E g \in Goals : CreateGoal(g) \/ PatchGoal(g) \/ DeleteGoal(g) \/ TaskEnds(g) \/ TaskLost(g))
               \/ UNCHANGED vars
    PROVE  HolderAlone' /\ ReadsHold' /\ OneAtATime'
<1>1. lease' = lease /\ loop' = loop /\ request' = request /\ stopping' = stopping
  BY DEF CreateGoal, PatchGoal, DeleteGoal, TaskEnds, TaskLost, vars, rowVars, loopVars, startVars
<1>2. QED
  BY <1>1 DEF LoopInv, HolderAlone, Holds, ReadsHold, Starting, OneAtATime

(* Where leases outlast the cycles and starts do not overlap, two processes   *)
(* never run the loop at once: stops, starts, crashes and failed renewals     *)
(* in any order leave one holder of the lease at most.                       *)
THEOREM LoopIsSingle == Timely /\ SerialStarts => (Spec => []OneLoop)
<1>1. SUFFICES ASSUME Timely, SerialStarts PROVE Spec => []OneLoop
  OBVIOUS
<1>2. LoopInv /\ [Next]_vars => LoopInv'
  <2>1. SUFFICES ASSUME LoopInv, [Next]_vars PROVE LoopInv'
    OBVIOUS
  <2>2. TypeInv'
    BY <2>1, TypeStep DEF LoopInv
  <2>3. HolderAlone' /\ ReadsHold' /\ OneAtATime'
    BY <1>1, <2>1, StartKeeps, ServeKeeps, LoopKeeps, AccidentKeeps, ExpireKeeps, RestKeeps DEF Next
  <2>4. QED
    BY <2>2, <2>3 DEF LoopInv
<1>3. LoopInv => OneLoop
  BY DEF LoopInv, HolderAlone, Holds, OneLoop
<1>4. QED
  BY <1>2, <1>3, LoopInit, PTL DEF Spec
-----------------------------------------------------------------------------
(* What each step does to one goal and to the loops that hold it.            *)

(* WorkedOn does not say where the loop is that has the goal in hand.        *)
Pursued ==
    \A g \in Goals \ (Troubled \cup stranded) :
        goal[g] = "in_progress" =>
            tasks[g] > 0 \/ \E p \in Processes : hand[p] = g /\ loop[p] \in Pursuing

(* A process that is starting has no loop yet.                               *)
NotYet == \A p \in Processes : Starting(p) => loop[p] = "none"

WorkInv == TypeInv /\ NotYet /\ Pursued

(* A step of p that leaves the goals and tasks as they are need only see to   *)
(* the goal in the hand of p.                                               *)
LEMMA SameGoals ==
    ASSUME WorkInv, NEW p \in Processes,
           goal' = goal, tasks' = tasks, stranded \subseteq stranded',
           \A q \in Processes : q # p => hand'[q] = hand[q] /\ loop'[q] = loop[q],
           \/ loop[p] \notin Pursuing
           \/ hand'[p] = hand[p] /\ loop'[p] \in Pursuing
           \/ hand[p] \in stranded'
           \/ tasks'[hand[p]] > 0
    PROVE  Pursued'
BY DEF WorkInv, Pursued

LEMMA GoalsWorked ==
    ASSUME WorkInv, NEW g \in Goals,
           CreateGoal(g) \/ PatchGoal(g) \/ DeleteGoal(g) \/ TaskEnds(g) \/ TaskLost(g)
    PROVE  Pursued'
<1>0. /\ goal \in [Goals -> Statuses] /\ tasks \in [Goals -> 0 .. MaxTasks]
      /\ hand' = hand /\ loop' = loop
  BY DEF CreateGoal, PatchGoal, DeleteGoal, TaskEnds, TaskLost, loopVars, WorkInv, TypeInv, TypeOK, Statuses
<1>1. ASSUME NEW h \in Goals, h # g, goal'[h] = "in_progress", h \notin stranded'
      PROVE  goal[h] = "in_progress" /\ tasks'[h] = tasks[h] /\ h \notin stranded
  BY <1>0, <1>1 DEF CreateGoal, PatchGoal, DeleteGoal, TaskEnds, TaskLost, Transition, ghostVars
<1>2. ASSUME g \notin Troubled, g \notin stranded', goal'[g] = "in_progress"
      PROVE  tasks'[g] = tasks[g] /\ goal[g] = "in_progress" /\ g \notin stranded
  BY <1>0, <1>2 DEF CreateGoal, PatchGoal, DeleteGoal, TaskEnds, TaskLost, Transition, ghostVars
<1>3. QED
  BY <1>0, <1>1, <1>2 DEF WorkInv, Pursued

LEMMA LoopWorked ==
    ASSUME WorkInv, NEW p \in Processes, Loop(p)
    PROVE  Pursued'
<1>0. /\ goal \in [Goals -> Statuses] /\ tasks \in [Goals -> 0 .. MaxTasks]
      /\ hand \in [Processes -> Goals \cup {NoGoal}] /\ loop \in [Processes -> Steps]
      /\ loop[p] \in Working => hand[p] \in Goals
  BY DEF WorkInv, TypeInv, TypeOK, HandsFull, Statuses, Steps
<1>1. CASE SkipCycle(p) \/ List(p) \/ MarkPublished(p) \/ Renew(p) \/ Extend(p) \/ Wake(p)
  <2>1. /\ goal' = goal /\ tasks' = tasks /\ stranded' = stranded /\ loop[p] \notin Pursuing
        /\ \A q \in Processes : q # p => hand'[q] = hand[q] /\ loop'[q] = loop[q]
    BY <1>0, <1>1 DEF SkipCycle, List, MarkPublished, Renew, Extend, Wake, EndCycle, rowVars, ghostVars, Pursuing
  <2>2. QED
    BY <2>1, SameGoals
<1>2. CASE Plan(p) \/ GetEntry(p)
  <2>1. /\ goal' = goal /\ tasks' = tasks /\ stranded' = stranded
        /\ hand'[p] = hand[p] /\ loop'[p] \in Pursuing
        /\ \A q \in Processes : q # p => hand'[q] = hand[q] /\ loop'[q] = loop[q]
    BY <1>0, <1>2 DEF Plan, GetEntry, Go, rowVars, ghostVars, Pursuing
  <2>2. QED
    BY <2>1, SameGoals
<1>3. CASE SkipPublished(p)
  <2>1. /\ goal' = goal /\ tasks' = tasks /\ stranded' = stranded \cup {hand[p]}
        /\ \A q \in Processes : q # p => hand'[q] = hand[q] /\ loop'[q] = loop[q]
    BY <1>0, <1>3 DEF SkipPublished, EndCycle, rowVars
  <2>2. QED
    BY <2>1, SameGoals
<1>4. CASE Claim(p)
  <2>1. /\ tasks' = tasks /\ stranded' = stranded /\ hand' = hand
        /\ loop[p] = "claim" /\ loop' = [loop EXCEPT ![p] = "plan"]
    BY <1>4 DEF Claim, Go, ghostVars
  <2>2. \A h \in Goals : h # hand[p] => goal'[h] = goal[h]
    BY <1>0, <1>4 DEF Claim, Transition
  <2>3. \A q \in Processes : loop[q] \in Pursuing => loop'[q] \in Pursuing
    BY <1>0, <2>1 DEF Pursuing
  <2>4. loop'[p] \in Pursuing
    BY <1>0, <2>1 DEF Pursuing
  <2>5. QED
    BY <2>1, <2>2, <2>3, <2>4 DEF WorkInv, Pursued
<1>5. CASE Publish(p)
  <2>1. /\ goal' = goal /\ stranded' = stranded /\ hand' = hand
        /\ loop[p] = "publish" /\ loop' = [loop EXCEPT ![p] = "mark"]
        /\ tasks' = [tasks EXCEPT ![hand[p]] = @ + 1]
    BY <1>5 DEF Publish, Go, Sent, ghostVars
  <2>2. hand[p] \in Goals
    BY <1>0, <2>1 DEF Working
  <2>3. /\ tasks'[hand[p]] > 0
        /\ \A h \in Goals : tasks[h] > 0 => tasks'[h] > 0
    BY <1>0, <2>1, <2>2, Bounds
  <2>4. QED
    BY <1>0, <2>1, <2>3 DEF WorkInv, Pursued
<1>6. CASE GiveBack(p)
  <2>1. /\ tasks' = tasks
        /\ \A q \in Processes : q # p => hand'[q] = hand[q] /\ loop'[q] = loop[q]
    BY <1>0, <1>6 DEF GiveBack, EndCycle
  <2>2. CASE Returns(p)
    <3>1. stranded' = stranded
      BY <2>2 DEF Returns
    <3>2. \A h \in Goals : goal'[h] = "in_progress" => h # hand[p] /\ goal[h] = "in_progress"
      BY <1>0, <2>2 DEF Returns, Transition
    <3>3. QED
      BY <2>1, <3>1, <3>2 DEF WorkInv, Pursued
  <2>3. CASE UNCHANGED goal /\ stranded' = stranded \cup {hand[p]}
    BY <2>1, <2>3, SameGoals
  <2>4. QED
    BY <1>6, <2>2, <2>3 DEF GiveBack
<1>7. QED
  BY <1>1, <1>2, <1>3, <1>4, <1>5, <1>6 DEF Loop

LEMMA AccidentWorked ==
    ASSUME WorkInv, NEW p \in Processes, Accident(p)
    PROVE  Pursued'
<1>0. /\ goal \in [Goals -> Statuses] /\ tasks \in [Goals -> 0 .. MaxTasks]
      /\ hand \in [Processes -> Goals \cup {NoGoal}] /\ loop \in [Processes -> Steps]
      /\ loop[p] \in Working => hand[p] \in Goals
  BY DEF WorkInv, TypeInv, TypeOK, HandsFull, Statuses, Steps
<1>1. CASE ClaimRaises(p)
  <2>1. /\ tasks' = tasks /\ stranded \subseteq stranded' /\ loop[p] = "claim"
        /\ \A q \in Processes : q # p => hand'[q] = hand[q] /\ loop'[q] = loop[q]
    BY <1>0, <1>1 DEF ClaimRaises, EndCycle
  <2>2. \A h \in Goals : h \notin stranded' => goal'[h] = goal[h]
    BY <1>0, <1>1 DEF ClaimRaises, Transition
  <2>3. \A q \in Processes : loop[q] \in Pursuing => q # p
    BY <2>1 DEF Pursuing
  <2>4. QED
    BY <2>1, <2>2, <2>3 DEF WorkInv, Pursued
<1>2. CASE EmptyPlan(p) \/ PublishOffline(p)
  <2>1. /\ goal' = goal /\ tasks' = tasks /\ stranded' = stranded \cup {hand[p]}
        /\ \A q \in Processes : q # p => hand'[q] = hand[q] /\ loop'[q] = loop[q]
    BY <1>0, <1>2 DEF EmptyPlan, PublishOffline, EndCycle, Go, rowVars
  <2>2. QED
    BY <2>1, SameGoals
<1>3. CASE PublishRaises(p)
  <2>1. /\ goal' = goal /\ stranded' = stranded /\ hand' = hand
        /\ loop' = [loop EXCEPT ![p] = "fail"] /\ loop[p] = "publish"
    BY <1>3 DEF PublishRaises, Go
  <2>2. \A h \in Goals : tasks[h] > 0 => tasks'[h] > 0
    BY <1>0, <1>3, Bounds DEF PublishRaises, Sent
  <2>3. \A q \in Processes : loop[q] \in Pursuing => loop'[q] \in Pursuing
    BY <1>0, <2>1 DEF Pursuing
  <2>4. QED
    BY <2>1, <2>2, <2>3 DEF WorkInv, Pursued
<1>4. CASE EntryRaises(p) \/ MarkRaises(p)
  <2>1. /\ goal' = goal /\ tasks' = tasks /\ stranded' = stranded
        /\ hand'[p] = hand[p] /\ loop'[p] \in Pursuing
        /\ \A q \in Processes : q # p => hand'[q] = hand[q] /\ loop'[q] = loop[q]
    BY <1>0, <1>4 DEF EntryRaises, MarkRaises, Go, Pursuing
  <2>2. QED
    BY <2>1, SameGoals
<1>5. CASE RenewRaises(p)
  <2>1. /\ goal' = goal /\ tasks' = tasks /\ stranded' = stranded /\ loop[p] \notin Pursuing
        /\ \A q \in Processes : q # p => hand'[q] = hand[q] /\ loop'[q] = loop[q]
    BY <1>0, <1>5 DEF RenewRaises, rowVars, Pursuing
  <2>2. QED
    BY <2>1, SameGoals
<1>6. CASE Stop(p) \/ Crash(p)
  <2>1. CutOff(p) /\ goal' = goal
    BY <1>6 DEF Stop, Crash
  <2>2. /\ stranded \subseteq stranded'
        /\ loop[p] \in Pursuing => hand[p] \in stranded'
        /\ \A q \in Processes : q # p => hand'[q] = hand[q] /\ loop'[q] = loop[q]
    BY <1>0, <2>1 DEF CutOff, Pursuing
  <2>3. \A h \in Goals : tasks[h] > 0 => tasks'[h] > 0
    BY <1>0, <2>1, Bounds DEF CutOff, Sent
  <2>4. QED
    BY <2>1, <2>2, <2>3 DEF WorkInv, Pursued
<1>7. QED
  BY <1>1, <1>2, <1>3, <1>4, <1>5, <1>6 DEF Accident

LEMMA RestWorked ==
    ASSUME WorkInv,
           Expire \/ UNCHANGED vars \/ \E p \in Processes : Start(p) \/ Serve(p)
    PROVE  Pursued'
<1>1. CASE Expire \/ UNCHANGED vars
  BY <1>1 DEF Expire, vars, rowVars, loopVars, ghostVars, WorkInv, Pursued
<1>2. ASSUME NEW p \in Processes, Start(p) \/ Serve(p)
      PROVE  Pursued'
  <2>1. CASE ~Check(p)
    BY <1>2, <2>1 DEF Start, Serve, Insert, TakeOver, Release, Delete, rowVars, loopVars, ghostVars,
                      WorkInv, Pursued
  <2>2. CASE Check(p)
    <3>1. loop[p] = "none"
      BY <2>2 DEF Check, Starting, WorkInv, NotYet
    <3>2. /\ goal' = goal /\ tasks' = tasks /\ stranded' = stranded /\ loop[p] \notin Pursuing
          /\ \A q \in Processes : q # p => hand'[q] = hand[q] /\ loop'[q] = loop[q]
      BY <2>2, <3>1 DEF Check, rowVars, ghostVars, Pursuing, WorkInv, TypeInv, TypeOK
    <3>3. QED
      BY <3>2, SameGoals
  <2>3. QED
    BY <2>1, <2>2
<1>3. QED
  BY <1>1, <1>2

LEMMA NotYetKept ==
    ASSUME TypeInv, NotYet, [Next]_vars
    PROVE  NotYet'
<1>0. /\ loop \in [Processes -> Steps]
      /\ request \in [Processes -> {"none", "insert", "takeover", "check", "release"}]
  BY DEF TypeInv, TypeOK, Steps
<1>1. ASSUME NEW p \in Processes, Start(p) \/ Serve(p)
      PROVE  NotYet'
  <2>1. CASE Start(p)
    <3>1. loop' = loop /\ loop[p] = "none" /\ \A q \in Processes : q # p => request'[q] = request[q]
      BY <1>0, <2>1 DEF Start, Request, loopVars
    <3>2. QED
      BY <3>1 DEF NotYet, Starting
  <2>2. CASE Check(p)
    <3>1. /\ request' = [request EXCEPT ![p] = "none"]
          /\ \A q \in Processes : q # p => loop'[q] = loop[q]
      BY <1>0, <2>2 DEF Check, Request
    <3>2. QED
      BY <1>0, <3>1 DEF NotYet, Starting
  <2>3. CASE Insert(p) \/ TakeOver(p)
    <3>1. loop' = loop /\ Starting(p) /\ \A q \in Processes : q # p => request'[q] = request[q]
      BY <1>0, <2>3 DEF Insert, TakeOver, Acquire, Request, loopVars, Starting
    <3>2. QED
      BY <3>1 DEF NotYet, Starting
  <2>4. CASE Release(p) \/ Delete(p)
    <3>1. /\ loop' = loop /\ \A q \in Processes : q # p => request'[q] = request[q]
          /\ request'[p] \in {"none", "release"} \/ request'[p] = request[p]
      BY <1>0, <2>4 DEF Release, Delete, Request, loopVars
    <3>2. QED
      BY <3>1 DEF NotYet, Starting
  <2>5. QED
    BY <1>1, <2>1, <2>2, <2>3, <2>4 DEF Serve
<1>2. ASSUME NEW p \in Processes, Loop(p)
      PROVE  NotYet'
  <2>1. request' = request /\ loop[p] # "none"
    BY <1>2 DEF Loop, SkipCycle, List, Claim, Plan, GetEntry, SkipPublished, Publish, MarkPublished,
         GiveBack, Failing, Renew, Extend, Wake, startVars
  <2>2. \A q \in Processes : q # p => loop'[q] = loop[q]
    BY <1>0, <1>2 DEF Loop, SkipCycle, List, Claim, Plan, GetEntry, SkipPublished, Publish, MarkPublished,
         GiveBack, Renew, Extend, Wake, EndCycle, Go
  <2>3. QED
    BY <2>1, <2>2 DEF NotYet, Starting
<1>3. ASSUME NEW p \in Processes, Accident(p)
      PROVE  NotYet'
  <2>1. /\ \A q \in Processes : q # p => loop'[q] = loop[q] /\ request'[q] = request[q]
        /\ (loop[p] # "none" /\ request' = request) \/ loop'[p] = "none"
    BY <1>0, <1>3 DEF Accident, ClaimRaises, EmptyPlan, PublishOffline, PublishRaises, EntryRaises,
         MarkRaises, RenewRaises, Stop, Crash, CutOff, Request, EndCycle, Go, startVars
  <2>2. QED
    BY <2>1 DEF NotYet, Starting
<1>4. ASSUME (\E g \in Goals : CreateGoal(g) \/ PatchGoal(g) \/ DeleteGoal(g) \/ TaskEnds(g) \/ TaskLost(g))
             \/ Expire \/ UNCHANGED vars
      PROVE  NotYet'
  <2>1. loop' = loop /\ request' = request
    BY <1>4 DEF CreateGoal, PatchGoal, DeleteGoal, TaskEnds, TaskLost, Expire, vars, loopVars, startVars
  <2>2. QED
    BY <2>1 DEF NotYet, Starting
<1>5. QED
  BY <1>1, <1>2, <1>3, <1>4 DEF Next

(* Whatever raises, stops or crashes, and however many loops run: a goal in   *)
(* progress that none of the named accidents has stranded is in the hand of   *)
(* a loop or has a task.                                                   *)
THEOREM GoalsAreWorkedOn == Spec => []WorkedOn
<1>1. Init => WorkInv
  BY TypeInit DEF Init, WorkInv, NotYet, Starting, Pursued
<1>2. WorkInv /\ [Next]_vars => WorkInv'
  <2>1. SUFFICES ASSUME WorkInv, [Next]_vars PROVE WorkInv'
    OBVIOUS
  <2>2. TypeInv' /\ NotYet'
    BY <2>1, TypeStep, NotYetKept DEF WorkInv
  <2>3. Pursued'
    BY <2>1, GoalsWorked, LoopWorked, AccidentWorked, RestWorked DEF Next
  <2>4. QED
    BY <2>2, <2>3 DEF WorkInv
<1>3. WorkInv => WorkedOn
  BY DEF WorkInv, Pursued, WorkedOn
<1>4. QED
  BY <1>1, <1>2, <1>3, PTL DEF Spec
-----------------------------------------------------------------------------
(* A goal that is neither set back by users nor disowned: where it stands when  *)
(* it has a task, when a loop holds it that has not published one, and when the *)
(* loop has.                                                                *)

Settled(g) ==
    /\ tasks[g] <= 1
    /\ tasks[g] = 1 => goal[g] \in {"in_progress", "deleted"}
    /\ \A p \in Processes : hand[p] = g =>
          /\ loop[p] = "claim" => goal[g] \in {"pending", "deleted"}
          /\ loop[p] \in Pursuing => goal[g] \in {"in_progress", "deleted"}
          /\ loop[p] \in Pursuing \cup {"claim"} => tasks[g] = 0
          /\ loop[p] = "mark" => goal[g] \notin {"none", "pending"}

GoalInv == LoopInv /\ \A g \in Owned : Settled(g)

Closed == {"completed", "failed"}

StaysClosed(g) == goal[g] \in Closed => goal'[g] \in Closed \cup {"deleted"}

LEMMA GoalsSettled ==
    ASSUME GoalInv, NEW g \in Goals, NEW h \in Owned,
           CreateGoal(g) \/ PatchGoal(g) \/ DeleteGoal(g) \/ TaskEnds(g) \/ TaskLost(g)
    PROVE  Settled(h)' /\ StaysClosed(h)
<1>0. /\ goal \in [Goals -> Statuses] /\ tasks \in [Goals -> 0 .. MaxTasks]
      /\ hand' = hand /\ loop' = loop /\ Settled(h) /\ h \in Goals \ Troubled
  BY DEF CreateGoal, PatchGoal, DeleteGoal, TaskEnds, TaskLost, loopVars, GoalInv, LoopInv,
     TypeInv, TypeOK, Statuses, Owned
<1>1. CASE g # h
  <2>1. goal'[h] = goal[h] /\ tasks'[h] = tasks[h]
    BY <1>0, <1>1 DEF CreateGoal, PatchGoal, DeleteGoal, TaskEnds, TaskLost, Transition
  <2>2. QED
    BY <1>0, <2>1 DEF Settled, StaysClosed
<1>2. CASE g = h /\ CreateGoal(h)
  BY <1>0, <1>2 DEF CreateGoal, Settled, StaysClosed, Closed
<1>3. CASE g = h /\ DeleteGoal(h)
  BY <1>0, <1>3 DEF DeleteGoal, Settled, StaysClosed, Closed
<1>4. CASE g = h /\ TaskEnds(h)
  <2>1. tasks[h] = 1 /\ tasks'[h] = 0
    BY <1>0, <1>4, Bounds DEF TaskEnds, Settled
  <2>2. goal[h] \in {"in_progress", "deleted"} /\ \A p \in Processes : hand[p] = h => loop[p] \notin Pursuing \cup {"claim"}
    BY <1>0, <2>1 DEF Settled
  <2>3. goal'[h] \in {"completed", "failed", "deleted"}
    BY <1>0, <1>4, <2>2 DEF TaskEnds, Transition
  <2>4. QED
    BY <1>0, <2>1, <2>2, <2>3 DEF Settled, StaysClosed, Closed
<1>5. CASE g = h /\ TaskLost(h)
  <2>1. tasks'[h] = 0 /\ goal' = goal
    BY <1>0, <1>5, Bounds DEF TaskLost, Settled
  <2>2. QED
    BY <1>0, <2>1 DEF Settled, StaysClosed, Closed
<1>6. CASE g = h /\ PatchGoal(h)
  BY <1>0, <1>6 DEF PatchGoal
<1>7. QED
  BY <1>1, <1>2, <1>3, <1>4, <1>5, <1>6

(* The steps of a loop: no other process has one.                            *)
LEMMA LoopSettled ==
    ASSUME GoalInv, NEW p \in Processes, Loop(p), NEW h \in Owned
    PROVE  Settled(h)' /\ StaysClosed(h)
<1>0. /\ goal \in [Goals -> Statuses] /\ tasks \in [Goals -> 0 .. MaxTasks]
      /\ hand \in [Processes -> Goals \cup {NoGoal}] /\ loop \in [Processes -> Steps]
      /\ loop[p] \in Working => hand[p] \in Goals
      /\ Settled(h) /\ h \in Goals
      /\ loop[p] # "none" => \A q \in Processes : q # p => loop[q] = "none"
  BY DEF GoalInv, LoopInv, HolderAlone, Holds, TypeInv, TypeOK, HandsFull, Statuses, Steps, Owned
<1>1. CASE SkipCycle(p) \/ MarkPublished(p) \/ SkipPublished(p) \/ Renew(p) \/ Extend(p) \/ Wake(p)
  <2>1. /\ goal' = goal /\ tasks' = tasks /\ loop[p] # "none"
        /\ loop'[p] \notin Pursuing \cup {"claim", "mark"}
        /\ \A q \in Processes : q # p => hand'[q] = hand[q] /\ loop'[q] = loop[q]
    BY <1>0, <1>1 DEF SkipCycle, MarkPublished, SkipPublished, Renew, Extend, Wake, EndCycle, rowVars, Pursuing
  <2>2. QED
    BY <1>0, <2>1 DEF Settled, StaysClosed, Closed, Pursuing
<1>2. CASE List(p)
  <2>1. PICK g \in Goals : goal[g] = "pending" /\ hand' = [hand EXCEPT ![p] = g]
    BY <1>2 DEF List, Pending
  <2>2. /\ goal' = goal /\ tasks' = tasks /\ loop[p] = "metrics"
        /\ loop' = [loop EXCEPT ![p] = "claim"]
    BY <1>2 DEF List, rowVars
  <2>3. g = h => tasks[h] = 0
    BY <1>0, <2>1, Bounds DEF Settled
  <2>4. QED
    BY <1>0, <2>1, <2>2, <2>3 DEF Settled, StaysClosed, Closed, Pursuing
<1>3. CASE Plan(p) \/ GetEntry(p)
  <2>1. /\ goal' = goal /\ tasks' = tasks /\ hand' = hand
        /\ loop[p] \in Pursuing /\ loop'[p] \in Pursuing /\ loop[p] # "claim" /\ loop'[p] # "claim"
        /\ \A q \in Processes : q # p => loop'[q] = loop[q]
    BY <1>0, <1>3 DEF Plan, GetEntry, Go, rowVars, Pursuing
  <2>2. QED
    BY <1>0, <2>1 DEF Settled, StaysClosed, Closed
<1>4. CASE Claim(p)
  <2>1. /\ tasks' = tasks /\ hand' = hand /\ loop[p] = "claim"
        /\ loop' = [loop EXCEPT ![p] = "plan"] /\ Transition(hand[p], "in_progress")
    BY <1>4 DEF Claim, Go
  <2>2. CASE hand[p] = h
    <3>1. goal[h] \in {"pending", "deleted"} /\ tasks[h] = 0
      BY <1>0, <2>1, <2>2 DEF Settled
    <3>2. goal'[h] \in {"in_progress", "deleted"}
      BY <1>0, <2>1, <2>2, <3>1 DEF Transition
    <3>3. QED
      BY <1>0, <2>1, <2>2, <3>1, <3>2 DEF Settled, StaysClosed, Closed, Pursuing
  <2>3. CASE hand[p] # h
    <3>1. goal'[h] = goal[h]
      BY <1>0, <2>1, <2>3 DEF Transition
    <3>2. QED
      BY <1>0, <2>1, <2>3, <3>1 DEF Settled, StaysClosed, Closed, Pursuing
  <2>4. QED
    BY <2>2, <2>3
<1>5. CASE Publish(p)
  <2>1. /\ goal' = goal /\ hand' = hand
        /\ loop[p] = "publish" /\ loop' = [loop EXCEPT ![p] = "mark"]
        /\ tasks' = [tasks EXCEPT ![hand[p]] = @ + 1]
    BY <1>5 DEF Publish, Go, Sent
  <2>2. CASE hand[p] = h
    <3>1. tasks[h] = 0 /\ goal[h] \in {"in_progress", "deleted"} /\ tasks'[h] = 1
      BY <1>0, <2>1, <2>2 DEF Settled, Pursuing
    <3>2. QED
      BY <1>0, <2>1, <2>2, <3>1 DEF Settled, StaysClosed, Closed, Pursuing
  <2>3. CASE hand[p] # h
    <3>1. tasks'[h] = tasks[h]
      BY <1>0, <2>1, <2>3
    <3>2. QED
      BY <1>0, <2>1, <2>3, <3>1 DEF Settled, StaysClosed, Closed, Pursuing
  <2>4. QED
    BY <2>2, <2>3
<1>6. CASE GiveBack(p)
  <2>1. /\ tasks' = tasks /\ loop[p] \in Pursuing /\ loop'[p] = "renew"
        /\ \A q \in Processes : q # p => hand'[q] = hand[q] /\ loop'[q] = loop[q]
        /\ goal' = goal \/ Transition(hand[p], "pending")
    BY <1>0, <1>6 DEF GiveBack, Failing, Returns, EndCycle, Pursuing
  <2>2. CASE hand[p] = h
    <3>1. tasks[h] = 0 /\ goal[h] \in {"in_progress", "deleted"}
      BY <1>0, <2>1, <2>2 DEF Settled, Pursuing
    <3>2. QED
      BY <1>0, <2>1, <3>1 DEF Settled, StaysClosed, Closed, Pursuing
  <2>3. CASE hand[p] # h
    <3>1. goal'[h] = goal[h]
      BY <1>0, <2>1, <2>3 DEF Transition
    <3>2. QED
      BY <1>0, <2>1, <3>1 DEF Settled, StaysClosed, Closed, Pursuing
  <2>4. QED
    BY <2>2, <2>3
<1>7. QED
  BY <1>1, <1>2, <1>3, <1>4, <1>5, <1>6 DEF Loop

LEMMA AccidentSettled ==
    ASSUME GoalInv, NEW p \in Processes, Accident(p), NEW h \in Owned
    PROVE  StaysClosed(h) /\ (h \in Owned' => Settled(h)')
<1>0. /\ goal \in [Goals -> Statuses] /\ tasks \in [Goals -> 0 .. MaxTasks]
      /\ hand \in [Processes -> Goals \cup {NoGoal}] /\ loop \in [Processes -> Steps]
      /\ loop[p] \in Working => hand[p] \in Goals
      /\ Settled(h) /\ h \in Goals
      /\ loop[p] # "none" => \A q \in Processes : q # p => loop[q] = "none"
  BY DEF GoalInv, LoopInv, HolderAlone, Holds, TypeInv, TypeOK, HandsFull, Statuses, Steps, Owned
<1>1. CASE ClaimRaises(p)
  <2>1. /\ tasks' = tasks /\ loop[p] = "claim" /\ loop'[p] = "renew"
        /\ \A q \in Processes : q # p => hand'[q] = hand[q] /\ loop'[q] = loop[q]
        /\ goal' = goal \/ Transition(hand[p], "in_progress")
    BY <1>0, <1>1 DEF ClaimRaises, EndCycle
  <2>2. CASE hand[p] = h
    <3>1. tasks[h] = 0 /\ goal[h] \in {"pending", "deleted"}
      BY <1>0, <2>1, <2>2 DEF Settled
    <3>2. QED
      BY <1>0, <2>1, <3>1 DEF Settled, StaysClosed, Closed, Pursuing
  <2>3. CASE hand[p] # h
    <3>1. goal'[h] = goal[h]
      BY <1>0, <2>1, <2>3 DEF Transition
    <3>2. QED
      BY <1>0, <2>1, <3>1 DEF Settled, StaysClosed, Closed, Pursuing
  <2>4. QED
    BY <2>2, <2>3
<1>2. CASE EmptyPlan(p) \/ PublishOffline(p) \/ RenewRaises(p)
  <2>1. /\ goal' = goal /\ tasks' = tasks /\ loop'[p] \notin Pursuing \cup {"claim"} /\ loop[p] # "none"
        /\ loop'[p] = "mark" => loop[p] \in Pursuing /\ hand'[p] = hand[p]
        /\ \A q \in Processes : q # p => hand'[q] = hand[q] /\ loop'[q] = loop[q]
    BY <1>0, <1>2 DEF EmptyPlan, PublishOffline, RenewRaises, EndCycle, Go, rowVars, Pursuing
  <2>2. QED
    BY <1>0, <2>1 DEF Settled, StaysClosed, Closed, Pursuing
<1>3. CASE PublishRaises(p) \/ EntryRaises(p)
  <2>1. /\ goal' = goal /\ hand' = hand /\ loop[p] \in Pursuing /\ loop'[p] \in Pursuing
        /\ \A q \in Processes : q # p => loop'[q] = loop[q]
    BY <1>0, <1>3 DEF PublishRaises, EntryRaises, Go, Pursuing
  <2>2. tasks'[h] = tasks[h] \/ hand[p] \in disowned'
    BY <1>0, <1>3 DEF PublishRaises, EntryRaises, Disowns, Sent
  <2>3. CASE hand[p] = h /\ hand[p] \in disowned'
    BY <2>1, <2>3 DEF StaysClosed, Owned
  <2>4. CASE tasks'[h] = tasks[h]
    BY <1>0, <2>1, <2>4 DEF Settled, StaysClosed, Closed, Pursuing
  <2>5. CASE hand[p] # h
    <3>1. tasks'[h] = tasks[h]
      BY <1>0, <1>3, <2>5 DEF PublishRaises, EntryRaises, Sent
    <3>2. QED
      BY <2>4, <3>1
  <2>6. QED
    BY <2>2, <2>3, <2>4, <2>5
<1>4. CASE MarkRaises(p)
  <2>1. /\ goal' = goal /\ tasks' = tasks /\ hand' = hand /\ hand[p] \in disowned'
        /\ \A q \in Processes : q # p => loop'[q] = loop[q]
    BY <1>0, <1>4 DEF MarkRaises, Disowns, Go
  <2>2. CASE hand[p] = h
    BY <2>1, <2>2 DEF StaysClosed, Owned
  <2>3. CASE hand[p] # h
    BY <1>0, <2>1, <2>3 DEF Settled, StaysClosed, Closed
  <2>4. QED
    BY <2>2, <2>3
<1>5. CASE Stop(p) \/ Crash(p)
  <2>1. CutOff(p) /\ goal' = goal
    BY <1>5 DEF Stop, Crash
  <2>2. /\ loop'[p] = "none"
        /\ \A q \in Processes : q # p => hand'[q] = hand[q] /\ loop'[q] = loop[q]
    BY <1>0, <2>1 DEF CutOff
  <2>3. CASE tasks'[h] = tasks[h]
    BY <1>0, <2>1, <2>2, <2>3 DEF Settled, StaysClosed, Closed, Pursuing
  <2>4. CASE tasks'[h] # tasks[h]
    <3>1. loop[p] = "publish" /\ Sent(p)
      BY <2>1, <2>4 DEF CutOff
    <3>2. hand[p] = h
      BY <1>0, <2>4, <3>1 DEF Sent
    <3>3. tasks[h] = 0 /\ goal[h] \in {"in_progress", "deleted"}
      BY <1>0, <3>1, <3>2 DEF Settled, Pursuing
    <3>4. tasks'[h] = 1 /\ \A q \in Processes : loop'[q] = "none"
      BY <1>0, <2>2, <3>1, <3>2, <3>3 DEF Sent
    <3>5. QED
      BY <2>1, <3>3, <3>4 DEF Settled, StaysClosed, Closed, Pursuing
  <2>5. QED
    BY <2>3, <2>4
<1>6. QED
  BY <1>1, <1>2, <1>3, <1>4, <1>5 DEF Accident

LEMMA RestSettled ==
    ASSUME GoalInv, NEW h \in Owned,
           Expire \/ UNCHANGED vars \/ \E p \in Processes : Start(p) \/ Serve(p)
    PROVE  Settled(h)' /\ StaysClosed(h)
<1>0. Settled(h) /\ loop \in [Processes -> Steps]
  BY DEF GoalInv, LoopInv, TypeInv, TypeOK, Steps
<1>1. /\ goal' = goal /\ tasks' = tasks /\ hand' = hand
      /\ \A q \in Processes : loop'[q] = loop[q] \/ loop'[q] = "metrics"
  BY <1>0 DEF Expire, vars, Start, Serve, Insert, TakeOver, Check, Release, Delete, rowVars, loopVars
<1>2. QED
  BY <1>0, <1>1 DEF Settled, StaysClosed, Closed, Pursuing

LEMMA GoalInvInit == Init => GoalInv
BY LoopInit DEF Init, GoalInv, Owned, Settled, Pursuing

(* Nothing but an error disowns a goal, and it stays disowned.               *)
LEMMA LoopOwns ==
    ASSUME NEW p \in Processes, Loop(p)
    PROVE  disowned' = disowned
BY DEF Loop, SkipCycle, List, Claim, Plan, GetEntry, SkipPublished, Publish, MarkPublished,
       GiveBack, Renew, Extend, Wake, ghostVars

LEMMA DisownedGrow ==
    ASSUME [Next]_vars
    PROVE  disowned \subseteq disowned'
<1>1. ASSUME NEW g \in Goals,
             CreateGoal(g) \/ PatchGoal(g) \/ DeleteGoal(g) \/ TaskEnds(g) \/ TaskLost(g)
      PROVE  disowned' = disowned
  BY <1>1 DEF CreateGoal, PatchGoal, DeleteGoal, TaskEnds, TaskLost, ghostVars
<1>2. ASSUME NEW p \in Processes, Start(p) \/ Serve(p)
      PROVE  disowned' = disowned
  BY <1>2 DEF Start, Serve, Insert, TakeOver, Check, Release, Delete, ghostVars
<1>3. ASSUME NEW p \in Processes, Accident(p)
      PROVE  disowned \subseteq disowned'
  BY <1>3 DEF Accident, ClaimRaises, EmptyPlan, PublishOffline, PublishRaises, EntryRaises,
         MarkRaises, RenewRaises, Stop, Crash, Disowns
<1>4. CASE Expire \/ UNCHANGED vars
  BY <1>4 DEF Expire, vars, ghostVars
<1>5. QED
  BY <1>1, <1>2, <1>3, <1>4, LoopOwns DEF Next

LEMMA GoalInvStep ==
    ASSUME Timely, SerialStarts, GoalInv, [Next]_vars
    PROVE  GoalInv' /\ \A h \in Owned : StaysClosed(h)
<1>1. \A h \in Owned : StaysClosed(h) /\ (h \in Owned' => Settled(h)')
  BY GoalsSettled, LoopSettled, AccidentSettled, RestSettled DEF Next
<1>2. TypeInv'
  BY TypeStep DEF GoalInv, LoopInv
<1>3. HolderAlone' /\ ReadsHold' /\ OneAtATime'
  BY StartKeeps, ServeKeeps, LoopKeeps, AccidentKeeps, ExpireKeeps, RestKeeps DEF Next, GoalInv
<1>4. Owned' \subseteq Owned
  BY DisownedGrow DEF Owned
<1>5. QED
  BY <1>1, <1>2, <1>3, <1>4 DEF GoalInv, LoopInv

(* With one loop at a time, a goal has one task at a time, though publishing   *)
(* and claiming may fail or be cut off, unless users set it back or its cycle  *)
(* has failed with its message out.                                         *)
THEOREM TasksAreSingle == Timely /\ SerialStarts => (Spec => []OneTaskPerGoal)
<1>1. SUFFICES ASSUME Timely, SerialStarts PROVE Spec => []OneTaskPerGoal
  OBVIOUS
<1>2. GoalInv /\ [Next]_vars => GoalInv'
  BY <1>1, GoalInvStep
<1>3. GoalInv => OneTaskPerGoal
  BY DEF GoalInv, Settled, OneTaskPerGoal
<1>4. QED
  BY <1>2, <1>3, GoalInvInit, PTL DEF Spec

(* ... and unless one of these two has happened to it, no step takes it up     *)
(* again once its task has closed it.                                       *)
THEOREM ClosedGoalsStay == Timely /\ SerialStarts => (Spec => ClosedStaysClosed)
<1>1. SUFFICES ASSUME Timely, SerialStarts PROVE Spec => ClosedStaysClosed
  OBVIOUS
<1>2. GoalInv /\ [Next]_vars => GoalInv'
  BY <1>1, GoalInvStep
<1>3. GoalInv /\ [Next]_vars =>
        [\A g \in Owned :
            goal[g] \in {"completed", "failed"} => goal'[g] \in {"completed", "failed", "deleted"}]_vars
  BY <1>1, GoalInvStep DEF StaysClosed, Closed
<1>4. QED
  BY <1>2, <1>3, GoalInvInit, PTL DEF Spec, ClosedStaysClosed
-----------------------------------------------------------------------------
(* The refinement of GoalPursuit.                                           *)

Untroubled == Goals \ Troubled

Stages == [g \in Untroubled |-> Stage(g)]

Pursuers == [g \in Untroubled |-> Pursuer(g)]

(* What the loops and rows of one goal may do: nothing to be seen, or a step  *)
(* of its pursuit by the process in whose hand it is.                        *)
Keeps(h) == Stage(h)' = Stage(h) /\ Pursuer(h)' = Pursuer(h)

Turns(h, there, ps) == Stage(h)' = there /\ Pursuer(h)' = ps

Pursues(p, h) ==
    \/ Stage(h) = "waiting" /\ (\A g \in Untroubled : Pursuer(g) = {}) /\ Turns(h, "taken", {p})
    \/ Pursuer(h) = {p} /\ Turns(h, "waiting", {})
    \/ Pursuer(h) = {p} /\ Turns(h, "handed", {})
    \/ Stage(h) \in {"waiting", "taken", "handed"} /\ Turns(h, "left", {})
    \/ Stage(h) \in {"taken", "handed", "closed", "left", "deleted"} /\ Turns(h, "void", {})

Fares(h) ==
    \/ Stage(h) = "none" /\ Turns(h, "waiting", {})
    \/ Stage(h) = "handed" /\ Turns(h, "closed", {})
    \/ Stage(h) \in {"waiting", "taken", "handed"} /\ Turns(h, "left", {})
    \/ Stage(h) \notin {"none", "void"} /\ Turns(h, "deleted", {})

LEMMA Abstracted ==
  ASSUME NEW h \in Untroubled, \A g \in Untroubled : g # h => Keeps(g),
         Keeps(h) \/ Fares(h) \/ \E p \in Processes : Pursues(p, h)
  PROVE  [Pursuit!ANext]_Pursuit!avars
<1>1. ASSUME NEW there, NEW ps, Turns(h, there, ps)
      PROVE  /\ Stages' = [Stages EXCEPT ![h] = there]
             /\ Pursuers' = [Pursuers EXCEPT ![h] = ps]
  BY <1>1 DEF Turns, Keeps, Stages, Pursuers
<1>2. Stages[h] = Stage(h) /\ \A g \in Untroubled : Pursuers[g] = Pursuer(g)
  BY DEF Stages, Pursuers
<1>3. CASE Keeps(h)
  BY <1>3 DEF Keeps, Pursuit!avars, Untroubled
<1>4. CASE Fares(h)
  <2>1. Pursuit!Set(h) \/ Pursuit!Close(h) \/ Pursuit!Leave(h) \/ Pursuit!Delete(h)
    BY <1>1, <1>2, <1>4
       DEF Fares, Pursuit!Set, Pursuit!Close, Pursuit!Leave, Pursuit!Delete, Pursuit!Becomes,
           Stages, Pursuers, Untroubled
  <2> QED
    BY <2>1 DEF Pursuit!ANext, Untroubled
<1>5. ASSUME NEW p \in Processes, Pursues(p, h)
      PROVE  Pursuit!ANext
  <2>1. \/ Pursuit!Take(p, h) \/ Pursuit!GiveBack(p, h) \/ Pursuit!HandOut(p, h)
        \/ Pursuit!Leave(h) \/ Pursuit!Lapse(h)
    BY <1>1, <1>2, <1>5
       DEF Pursues, Pursuit!Take, Pursuit!GiveBack, Pursuit!HandOut, Pursuit!Leave,
           Pursuit!Lapse, Pursuit!Becomes, Stages, Pursuers, Untroubled
  <2> QED
    BY <2>1 DEF Pursuit!ANext, Untroubled
<1> QED
  BY <1>3, <1>4, <1>5

(* What a goal's stage hangs on.                                           *)
LEMMA SameStage ==
  ASSUME NEW h \in Untroubled, goal'[h] = goal[h], tasks'[h] = tasks[h],
         h \in disowned' <=> h \in disowned,
         \A p \in Processes :
            (hand'[p] = h /\ loop'[p] \in Pursuing) <=> (hand[p] = h /\ loop[p] \in Pursuing)
  PROVE  Keeps(h)
<1>1. Pursuer(h)' = Pursuer(h)
  BY DEF Pursuer
<1> QED
  BY <1>1 DEF Keeps, Stage

(* A goal that was disowned is void.                                        *)
LEMMA VoidKeeps ==
  ASSUME NEW h \in Untroubled, h \in disowned, h \in disowned'
  PROVE  Keeps(h)
BY DEF Keeps, Stage, Pursuer

(* Users, the end of a task and its loss.                                   *)
LEMMA GoalsFare ==
  ASSUME GoalInv, NEW g \in Goals, NEW h \in Untroubled, h \notin disowned, h \notin disowned',
         CreateGoal(g) \/ PatchGoal(g) \/ DeleteGoal(g) \/ TaskEnds(g) \/ TaskLost(g)
  PROVE  Keeps(h) \/ (g = h /\ Fares(h))
<1>1. /\ goal \in [Goals -> Statuses] /\ tasks \in [Goals -> 0 .. MaxTasks]
      /\ hand' = hand /\ loop' = loop /\ Settled(h) /\ h \in Goals /\ h \notin Troubled
  BY DEF CreateGoal, PatchGoal, DeleteGoal, TaskEnds, TaskLost, loopVars, GoalInv, LoopInv,
     TypeInv, TypeOK, Statuses, Untroubled, Owned
<1>2. CASE g # h
  <2>1. goal'[h] = goal[h] /\ tasks'[h] = tasks[h]
    BY <1>1, <1>2 DEF CreateGoal, PatchGoal, DeleteGoal, TaskEnds, TaskLost, Transition
  <2> QED
    BY <1>1, <2>1, SameStage
<1>3. CASE g = h /\ CreateGoal(h)
  BY <1>1, <1>3 DEF CreateGoal, Fares, Turns, Stage, Pursuer
<1>4. CASE g = h /\ DeleteGoal(h)
  <2>1. goal'[h] = "deleted" /\ goal[h] # "none"
    BY <1>1, <1>4 DEF DeleteGoal
  <2>2. Stage(h) \notin {"none", "void"}
    BY <1>1, <2>1 DEF Stage, Statuses
  <2> QED
    BY <1>4, <2>1, <2>2 DEF Fares, Turns, Stage, Pursuer
<1>5. CASE g = h /\ TaskEnds(h)
  <2>1. tasks[h] = 1 /\ tasks'[h] = 0 /\ goal[h] \in {"in_progress", "deleted"}
    BY <1>1, <1>5, Bounds DEF TaskEnds, Settled
  <2>2. PICK status \in {"completed", "failed"} : Transition(h, status)
    BY <1>5 DEF TaskEnds
  <2>3. CASE goal[h] = "deleted"
    <3>1. goal'[h] = "deleted"
      BY <1>1, <2>2, <2>3 DEF Transition
    <3> QED
      BY <1>1, <2>3, <3>1 DEF Keeps, Stage, Pursuer
  <2>4. CASE goal[h] = "in_progress"
    <3>1. goal'[h] \in {"completed", "failed"}
      BY <1>1, <2>2, <2>4 DEF Transition
    <3>2. Stage(h) = "handed"
      BY <2>1, <2>4 DEF Stage
    <3>3. Stage(h)' = "closed" /\ Pursuer(h)' = {}
      BY <3>1 DEF Stage, Pursuer
    <3> QED
      BY <1>5, <3>2, <3>3 DEF Fares, Turns
  <2> QED
    BY <2>1, <2>3, <2>4
<1>6. CASE g = h /\ TaskLost(h)
  <2>1. tasks[h] = 1 /\ tasks'[h] = 0 /\ goal' = goal /\ goal[h] \in {"in_progress", "deleted"}
    BY <1>1, <1>6, Bounds DEF TaskLost, Settled
  <2>2. Pursuer(h) = {} /\ Pursuer(h)' = {}
    BY <1>1, <2>1 DEF Settled, Pursuer
  <2>3. CASE goal[h] = "deleted"
    BY <2>1, <2>2, <2>3 DEF Keeps, Stage
  <2>4. CASE goal[h] = "in_progress"
    <3>1. Stage(h) = "handed" /\ Stage(h)' = "left"
      BY <2>1, <2>2, <2>4 DEF Stage
    <3> QED
      BY <1>6, <2>2, <3>1 DEF Fares, Turns
  <2> QED
    BY <2>1, <2>3, <2>4
<1>7. CASE g = h /\ PatchGoal(h)
  BY <1>1, <1>7 DEF PatchGoal
<1> QED
  BY <1>2, <1>3, <1>4, <1>5, <1>6, <1>7

(* A process with a loop is the only one, and pursues one goal at most.      *)
LEMMA OnlyPursuer ==
  ASSUME GoalInv, NEW p \in Processes, loop[p] # "none"
  PROVE  /\ \A q \in Processes : q # p => loop[q] = "none"
         /\ \A g \in Untroubled :
               /\ g \notin disowned => Settled(g)
               /\ Pursuer(g) \subseteq {p}
               /\ p \in Pursuer(g) <=>
                     g \notin disowned /\ goal[g] = "in_progress" /\ hand[p] = g /\ loop[p] \in Pursuing
<1>1. \A q \in Processes : q # p => loop[q] = "none"
  BY DEF GoalInv, LoopInv, HolderAlone, Holds
<1> QED
  BY <1>1 DEF Untroubled, Owned, GoalInv, Pursuer, Pursuing

(* p ends its pursuit of h, if it is at that, or of none.                     *)
LEMMA Ends ==
  ASSUME GoalInv, NEW p \in Processes, loop[p] # "none",
         NEW h \in Untroubled, h \notin disowned, h \notin disowned',
         goal'[h] = goal[h], tasks'[h] = tasks[h], loop'[p] \notin Pursuing,
         \A q \in Processes : q # p => loop'[q] = loop[q]
  PROVE  Keeps(h) \/ (hand[p] = h /\ Pursues(p, h))
<1>1. Pursuer(h)' = {}
  BY OnlyPursuer DEF Pursuer, Pursuing
<1>2. CASE Pursuer(h) = {}
  BY <1>1, <1>2 DEF Keeps, Stage
<1>3. CASE Pursuer(h) # {}
  <2>1. /\ goal[h] = "in_progress" /\ hand[p] = h /\ loop[p] \in Pursuing
    BY <1>3, OnlyPursuer
  <2>2. tasks[h] = 0
    BY <2>1, OnlyPursuer DEF Settled
  <2>3. Stage(h) = "taken" /\ Stage(h)' = "left"
    BY <1>1, <1>3, <2>1, <2>2 DEF Stage
  <2> QED
    BY <1>1, <2>1, <2>3 DEF Pursues, Turns
<1> QED
  BY <1>2, <1>3

(* Its task is published.                                                   *)
LEMMA HandsOut ==
  ASSUME GoalInv, NEW p \in Processes, loop[p] = "publish",
         NEW h \in Untroubled, h \notin disowned, h \notin disowned',
         goal'[h] = goal[h], Sent(p), loop'[p] \notin Pursuing,
         \A q \in Processes : q # p => loop'[q] = loop[q]
  PROVE  Keeps(h) \/ (hand[p] = h /\ Pursues(p, h))
<1>1. tasks \in [Goals -> 0 .. MaxTasks] /\ h \in Goals
  BY DEF GoalInv, LoopInv, TypeInv, TypeOK, Untroubled
<1>2. CASE hand[p] # h
  <2>1. tasks'[h] = tasks[h]
    BY <1>1, <1>2 DEF Sent
  <2> QED
    BY <1>2, <2>1, Ends
<1>3. CASE hand[p] = h
  <2>1. tasks[h] = 0 /\ tasks'[h] = 1 /\ goal[h] \in {"in_progress", "deleted"}
    BY <1>1, <1>3, OnlyPursuer DEF Sent, Settled, Pursuing
  <2>2. Pursuer(h)' = {}
    BY OnlyPursuer DEF Pursuer, Pursuing
  <2>3. CASE goal[h] = "deleted"
    BY <2>2, <2>3 DEF Keeps, Stage, Pursuer
  <2>4. CASE goal[h] = "in_progress"
    <3>1. Pursuer(h) = {p}
      BY <1>3, <2>4, OnlyPursuer DEF Pursuing
    <3>2. Stage(h)' = "handed"
      BY <2>1, <2>4 DEF Stage
    <3> QED
      BY <1>3, <2>2, <3>1, <3>2 DEF Pursues, Turns
  <2> QED
    BY <2>1, <2>3, <2>4
<1> QED
  BY <1>2, <1>3

LEMMA LoopPursues ==
  ASSUME GoalInv, NEW p \in Processes, Loop(p),
         NEW h \in Untroubled, h \notin disowned, h \notin disowned'
  PROVE  Keeps(h) \/ (hand[p] = h /\ Pursues(p, h))
<1>0. /\ goal \in [Goals -> Statuses] /\ tasks \in [Goals -> 0 .. MaxTasks]
      /\ hand \in [Processes -> Goals \cup {NoGoal}] /\ loop \in [Processes -> Steps]
      /\ h \in Goals
  BY DEF GoalInv, LoopInv, TypeInv, TypeOK, Statuses, Steps, Untroubled
<1>1. CASE SkipCycle(p) \/ MarkPublished(p) \/ SkipPublished(p) \/ Renew(p) \/ Extend(p) \/ Wake(p)
  <2>1. /\ goal' = goal /\ tasks' = tasks /\ loop'[p] \notin Pursuing /\ loop[p] # "none"
        /\ \A q \in Processes : q # p => loop'[q] = loop[q]
    BY <1>0, <1>1 DEF SkipCycle, MarkPublished, SkipPublished, Renew, Extend, Wake, EndCycle, rowVars, Pursuing
  <2> QED
    BY <2>1, Ends
<1>2. CASE List(p)
  <2>1. /\ goal' = goal /\ tasks' = tasks /\ loop[p] = "metrics" /\ loop'[p] = "claim"
        /\ \A q \in Processes : q # p => loop'[q] = loop[q]
    BY <1>0, <1>2 DEF List, rowVars
  <2> QED
    BY <2>1, Ends DEF Pursuing
<1>3. CASE Plan(p) \/ GetEntry(p)
  <2>1. /\ goal' = goal /\ tasks' = tasks /\ hand' = hand
        /\ loop[p] \in Pursuing /\ loop'[p] \in Pursuing
        /\ \A q \in Processes : q # p => loop'[q] = loop[q]
    BY <1>0, <1>3 DEF Plan, GetEntry, Go, rowVars, Pursuing
  <2> QED
    BY <2>1, SameStage
<1>4. CASE Claim(p)
  <2>1. /\ tasks' = tasks /\ hand' = hand /\ loop[p] = "claim"
        /\ loop' = [loop EXCEPT ![p] = "plan"] /\ Transition(hand[p], "in_progress")
    BY <1>4 DEF Claim, Go
  <2>2. CASE hand[p] # h
    <3>1. goal'[h] = goal[h]
      BY <1>0, <2>1, <2>2 DEF Transition
    <3> QED
      BY <1>0, <2>1, <2>2, <3>1, SameStage
  <2>3. CASE hand[p] = h
    <3>1. goal[h] \in {"pending", "deleted"} /\ tasks[h] = 0
      BY <2>1, <2>3, OnlyPursuer DEF Settled
    <3>2. \A g \in Untroubled : Pursuer(g) = {}
      BY <2>1, OnlyPursuer DEF Pursuing
    <3>3. CASE goal[h] = "deleted"
      <4>1. goal'[h] = "deleted"
        BY <1>0, <2>1, <2>3, <3>3 DEF Transition
      <4> QED
        BY <3>3, <4>1 DEF Keeps, Stage, Pursuer
    <3>4. CASE goal[h] = "pending"
      <4>1. goal'[h] = "in_progress"
        BY <1>0, <2>1, <2>3, <3>4 DEF Transition
      <4>2. \A q \in Processes : q # p => loop'[q] = "none"
        BY <1>0, <2>1, OnlyPursuer
      <4>3. Pursuer(h)' = {p}
        BY <1>0, <2>1, <2>3, <4>1, <4>2 DEF Pursuer, Pursuing
      <4>4. Stage(h) = "waiting" /\ Stage(h)' = "taken"
        BY <2>1, <3>1, <3>4, <4>1, <4>3 DEF Stage
      <4> QED
        BY <2>3, <3>2, <4>3, <4>4 DEF Pursues, Turns
    <3> QED
      BY <3>1, <3>3, <3>4
  <2> QED
    BY <2>2, <2>3
<1>5. CASE Publish(p)
  <2>1. /\ goal' = goal /\ loop[p] = "publish" /\ Sent(p) /\ loop'[p] = "mark"
        /\ \A q \in Processes : q # p => loop'[q] = loop[q]
    BY <1>0, <1>5 DEF Publish, Go
  <2> QED
    BY <2>1, HandsOut DEF Pursuing
<1>6. CASE GiveBack(p)
  <2>1. /\ tasks' = tasks /\ loop[p] \in {"fail", "abandon"} /\ loop'[p] = "renew"
        /\ \A q \in Processes : q # p => loop'[q] = loop[q]
        /\ goal' = goal \/ Transition(hand[p], "pending")
    BY <1>0, <1>6 DEF GiveBack, Failing, Returns, EndCycle
  <2>2. CASE goal'[h] = goal[h]
    BY <2>1, <2>2, Ends DEF Pursuing
  <2>3. CASE goal'[h] # goal[h]
    <3>1. hand[p] = h /\ goal[h] # "deleted" /\ goal'[h] = "pending"
      BY <1>0, <2>1, <2>3 DEF Transition
    <3>2. goal[h] = "in_progress"
      BY <2>1, <3>1, OnlyPursuer DEF Settled, Pursuing
    <3>3. Pursuer(h) = {p}
      BY <2>1, <3>1, <3>2, OnlyPursuer DEF Pursuing
    <3>4. Stage(h)' = "waiting" /\ Pursuer(h)' = {}
      BY <3>1 DEF Stage, Pursuer
    <3> QED
      BY <3>1, <3>3, <3>4 DEF Pursues, Turns
  <2> QED
    BY <2>2, <2>3
<1> QED
  BY <1>1, <1>2, <1>3, <1>4, <1>5, <1>6 DEF Loop

LEMMA AccidentPursues ==
  ASSUME GoalInv, NEW p \in Processes, Accident(p),
         NEW h \in Untroubled, h \notin disowned, h \notin disowned'
  PROVE  Keeps(h) \/ (hand[p] = h /\ Pursues(p, h))
<1>0. /\ goal \in [Goals -> Statuses] /\ tasks \in [Goals -> 0 .. MaxTasks]
      /\ hand \in [Processes -> Goals \cup {NoGoal}] /\ loop \in [Processes -> Steps]
      /\ h \in Goals /\ h \notin Troubled
  BY DEF GoalInv, LoopInv, TypeInv, TypeOK, Statuses, Steps, Untroubled
<1>1. CASE ClaimRaises(p)
  <2>1. /\ tasks' = tasks /\ loop[p] = "claim" /\ loop'[p] = "renew"
        /\ \A q \in Processes : q # p => loop'[q] = loop[q]
        /\ goal' = goal \/ Transition(hand[p], "in_progress")
    BY <1>0, <1>1 DEF ClaimRaises, EndCycle
  <2>2. CASE goal'[h] = goal[h]
    BY <2>1, <2>2, Ends DEF Pursuing
  <2>3. CASE goal'[h] # goal[h]
    <3>1. hand[p] = h /\ goal[h] # "deleted" /\ goal'[h] = "in_progress"
      BY <1>0, <2>1, <2>3 DEF Transition
    <3>2. goal[h] = "pending" /\ tasks[h] = 0
      BY <2>1, <3>1, OnlyPursuer DEF Settled
    <3>3. Pursuer(h)' = {}
      BY <2>1, OnlyPursuer DEF Pursuer, Pursuing
    <3>4. Stage(h) = "waiting" /\ Stage(h)' = "left"
      BY <2>1, <3>1, <3>2, <3>3 DEF Stage
    <3> QED
      BY <3>1, <3>3, <3>4 DEF Pursues, Turns
  <2> QED
    BY <2>2, <2>3
<1>2. CASE EmptyPlan(p) \/ PublishOffline(p) \/ RenewRaises(p)
  <2>1. /\ goal' = goal /\ tasks' = tasks /\ loop'[p] \notin Pursuing /\ loop[p] # "none"
        /\ \A q \in Processes : q # p => loop'[q] = loop[q]
    BY <1>0, <1>2 DEF EmptyPlan, PublishOffline, RenewRaises, EndCycle, Go, rowVars, Pursuing
  <2> QED
    BY <2>1, Ends
<1>3. CASE PublishRaises(p) \/ EntryRaises(p) \/ MarkRaises(p)
  <2>1. /\ goal' = goal /\ hand' = hand
        /\ \A q \in Processes : q # p => loop'[q] = loop[q]
        /\ hand[p] = h => loop[p] \in Pursuing /\ loop'[p] \in Pursuing
    BY <1>0, <1>3 DEF PublishRaises, EntryRaises, MarkRaises, Disowns, Go, Pursuing
  <2>2. tasks'[h] = tasks[h]
    BY <1>0, <1>3 DEF PublishRaises, EntryRaises, MarkRaises, Disowns, Sent
  <2> QED
    BY <1>0, <2>1, <2>2, SameStage
<1>4. CASE Stop(p) \/ Crash(p)
  <2>1. /\ goal' = goal /\ loop'[p] = "none"
        /\ (loop[p] = "publish" /\ Sent(p)) \/ UNCHANGED tasks
        /\ \A q \in Processes : q # p => loop'[q] = loop[q]
    BY <1>0, <1>4 DEF Stop, Crash, CutOff
  <2>2. CASE loop[p] = "none"
    <3>1. goal' = goal /\ tasks' = tasks
      BY <2>1, <2>2
    <3>2. \A q \in Processes : loop[q] \in Pursuing \/ loop'[q] \in Pursuing => loop'[q] = loop[q] /\ hand'[q] = hand[q]
      BY <1>0, <1>4, <2>1, <2>2 DEF Stop, Crash, CutOff, Pursuing
    <3> QED
      BY <3>1, <3>2, SameStage
  <2>3. CASE loop[p] # "none" /\ UNCHANGED tasks
    BY <2>1, <2>3, Ends DEF Pursuing
  <2>4. CASE loop[p] = "publish" /\ Sent(p)
    BY <2>1, <2>4, HandsOut DEF Pursuing
  <2> QED
    BY <2>1, <2>2, <2>3, <2>4
<1> QED
  BY <1>1, <1>2, <1>3, <1>4 DEF Accident

(* A cycle that fails with its message out disowns the goal in its hand, which *)
(* is void from then on.                                                    *)
LEMMA AccidentLapses ==
  ASSUME GoalInv, NEW p \in Processes, Accident(p),
         NEW h \in Untroubled, h \notin disowned, h \in disowned'
  PROVE  hand[p] = h /\ Pursues(p, h)
<1>1. PublishRaises(p) \/ MarkRaises(p)
  BY DEF Accident, ClaimRaises, EmptyPlan, PublishOffline, EntryRaises, RenewRaises, Stop, Crash
<1>2. hand[p] = h /\ loop[p] \in {"publish", "mark"}
  BY <1>1 DEF PublishRaises, MarkRaises, Disowns
<1>3. goal[h] \notin {"none", "pending"} /\ goal[h] \in Statuses
  BY <1>2, OnlyPursuer DEF Settled, Pursuing, GoalInv, LoopInv, TypeInv, TypeOK, Statuses, Untroubled
<1>4. tasks[h] \in 0 .. MaxTasks
  BY DEF GoalInv, LoopInv, TypeInv, TypeOK, Untroubled
<1>5. Stage(h) \in {"taken", "handed", "closed", "left", "deleted"}
  <2>1. CASE goal[h] = "in_progress"
    BY <1>4, <2>1, Bounds DEF Stage
  <2>2. CASE goal[h] # "in_progress"
    BY <1>3, <2>2 DEF Stage, Statuses
  <2> QED
    BY <2>1, <2>2
<1>6. Stage(h)' = "void" /\ Pursuer(h)' = {}
  BY DEF Stage, Pursuer
<1> QED
  BY <1>2, <1>5, <1>6 DEF Pursues, Turns

(* Requests and the clock.                                                  *)
LEMMA RestKeepsStages ==
  ASSUME GoalInv, NEW h \in Untroubled, h \notin disowned, h \notin disowned',
         Expire \/ UNCHANGED vars \/ \E p \in Processes : Start(p) \/ Serve(p)
  PROVE  Keeps(h)
<1>1. loop \in [Processes -> Steps]
  BY DEF GoalInv, LoopInv, TypeInv, TypeOK, Steps
<1>2. /\ goal' = goal /\ tasks' = tasks /\ hand' = hand
      /\ \A q \in Processes : loop'[q] = loop[q] \/ (loop[q] \notin Pursuing /\ loop'[q] = "metrics")
  <2>1. ASSUME NEW p \in Processes, Check(p)
        PROVE  loop[p] = "none"
    BY <2>1 DEF GoalInv, LoopInv, OneAtATime, Starting, Check
  <2> QED
    BY <1>1, <2>1 DEF Expire, vars, Start, Serve, Insert, TakeOver, Check, Release, Delete, rowVars,
       loopVars, Pursuing
<1> QED
  BY <1>2, SameStage DEF Pursuing

LEMMA PursuitStep ==
  ASSUME GoalInv, [Next]_vars
  PROVE  [Pursuit!ANext]_Pursuit!avars
<1>1. CASE \A h \in Untroubled : Keeps(h)
  <2>1. Stages' = Stages /\ Pursuers' = Pursuers
    BY <1>1 DEF Keeps, Stages, Pursuers
  <2> QED
    BY <2>1 DEF Pursuit!avars, Stages, Pursuers, Untroubled
<1>2. ASSUME NEW g, \A h \in Untroubled : Keeps(h) \/ (g = h /\ (Fares(h) \/ \E p \in Processes : Pursues(p, h)))
      PROVE  [Pursuit!ANext]_Pursuit!avars
  BY <1>1, <1>2, Abstracted
<1>3. ASSUME NEW g \in Goals,
             CreateGoal(g) \/ PatchGoal(g) \/ DeleteGoal(g) \/ TaskEnds(g) \/ TaskLost(g)
      PROVE  [Pursuit!ANext]_Pursuit!avars
  <2>1. disowned' = disowned
    BY <1>3 DEF CreateGoal, PatchGoal, DeleteGoal, TaskEnds, TaskLost, ghostVars
  <2>2. \A h \in Untroubled : Keeps(h) \/ (g = h /\ Fares(h))
    BY <1>3, <2>1, GoalsFare, VoidKeeps
  <2> QED
    BY <1>2, <2>2
<1>4. ASSUME NEW p \in Processes, Loop(p) \/ Accident(p)
      PROVE  [Pursuit!ANext]_Pursuit!avars
  <2>1. disowned \subseteq disowned' /\ (Loop(p) => disowned' = disowned)
    BY DisownedGrow, LoopOwns
  <2>2. \A h \in Untroubled : Keeps(h) \/ (hand[p] = h /\ Pursues(p, h))
    BY <1>4, <2>1, LoopPursues, AccidentPursues, AccidentLapses, VoidKeeps
  <2> QED
    BY <1>2, <2>2
<1>5. CASE Expire \/ UNCHANGED vars \/ \E p \in Processes : Start(p) \/ Serve(p)
  <2>1. disowned' = disowned
    BY <1>5 DEF Expire, vars, Start, Serve, Insert, TakeOver, Check, Release, Delete, ghostVars
  <2> QED
    BY <1>1, <1>5, <2>1, RestKeepsStages, VoidKeeps
<1> QED
  BY <1>3, <1>4, <1>5 DEF Next

LEMMA PursuitInit == Init => Pursuit!AInit
<1> SUFFICES ASSUME Init PROVE Pursuit!AInit
  OBVIOUS
<1>1. Stages = [g \in Untroubled |-> "none"] /\ Pursuers = [g \in Untroubled |-> {}]
  BY DEF Init, Stages, Pursuers, Stage, Pursuer, Untroubled
<1> QED
  BY <1>1 DEF Pursuit!AInit, Stages, Pursuers, Untroubled

\* For any number of processes and goals, a goal that no user sets back is pursued
\* by one process at a time and handed out once, until an accident strands it or
\* its cycle fails with its message out, after which nothing is promised of it.
THEOREM GoalsArePursued == Timely /\ SerialStarts => (Spec => ImplementsGoalPursuit)
<1>1. SUFFICES ASSUME Timely, SerialStarts PROVE Spec => ImplementsGoalPursuit
  OBVIOUS
<1>2. GoalInv /\ [Next]_vars => GoalInv'
  BY <1>1, GoalInvStep
<1>3. GoalInv /\ [Next]_vars => [Pursuit!ANext]_Pursuit!avars
  BY PursuitStep
<1> QED
  BY <1>2, <1>3, GoalInvInit, PursuitInit, PTL DEF Spec, ImplementsGoalPursuit, Pursuit!ASpec
=============================================================================
