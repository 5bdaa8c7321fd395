---------------------------- MODULE AutonomyLoop ----------------------------
(***************************************************************************)
(* The autonomy loop of one scope: services/autonomy_service.py with        *)
(* repositories/autonomy_lock_repository.py (the lease that is to keep the   *)
(* loop single), core/autonomy/goal_manager.py and                          *)
(* repositories/autonomy_goal_repository.py (the goals), and the enqueue     *)
(* ledger of repositories/autonomy_repository.py.                           *)
(*                                                                         *)
(* Each process serves requests to start and to stop, and runs at most one   *)
(* loop.  Requests and loop are coroutines of one event loop: what lies      *)
(* between two awaits is not interrupted by the process itself, but every    *)
(* access to the database is a step between which other processes take       *)
(* theirs.  The lease is read, and later written by its key; so is a goal,   *)
(* whose read and write are one step here, since what a stale read does to   *)
(* it is done already by the list it was chosen from.                       *)
(*                                                                         *)
(* A task is one token from its publication until its terminal status is     *)
(* seen by the hook of services/collaboration_service.py.                   *)
(***************************************************************************)
EXTENDS Integers

CONSTANTS
    Processes,      \* backend processes
    Nobody,         \* no process
    Goals,          \* goals, numbered in the order in which they are listed
    NoGoal,
    Parent,         \* the parent of each goal, or NoGoal
    Troubled,       \* goals whose status users set
    MaxCycles,      \* bound: the cycles of a process that may take up a goal
    MaxTasks,       \* bound: tasks of one goal
    MaxFaults,      \* bound: crashes, stops and other accidents
    Timely,         \* whether a lease outlasts the cycles of its loop
    SerialStarts,   \* whether starts wait for one another
    Faults          \* what may go wrong

ASSUME AutonomyAssumption ==
    /\ Nobody \notin Processes
    /\ Goals \subseteq Nat
    /\ NoGoal \notin Goals
    /\ Parent \in [Goals -> Goals \cup {NoGoal}]
    /\ Troubled \subseteq Goals
    /\ MaxCycles \in Nat /\ MaxTasks \in Nat /\ MaxFaults \in Nat
    /\ Timely \in BOOLEAN /\ SerialStarts \in BOOLEAN
    /\ Faults \subseteq {"crash", "stop", "conflict", "publish", "unconfirmed", "offline",
                         "empty", "lost", "delete", "database"}

VARIABLES
    lease,      \* the scope's row of autonomy_loop_leases, and the process whose id it has
    goal,       \* autonomy_goals: the status of each
    ledger,     \* autonomy_enqueue_ledger: publish_status by goal and cycle
    tasks,      \* the tasks of each goal in the broker or at the workers
    loop,       \* where the loop of each process is
    hand,       \* the goal its cycle has taken
    cycles,     \* _cycle_count
    request,    \* where a request to start or to stop is
    owners,     \* the processes that have a _lease_owner_id
    stopping,   \* processes in which stop waits for the cancelled loop
    stranded,   \* goals that an accident has left in progress
    disowned,   \* goals whose cycle has failed with their message out, or perhaps out
    faults      \* how many accidents there were

rowVars == <<lease, goal, ledger, tasks>>
loopVars == <<loop, hand, cycles>>
startVars == <<request, owners, stopping>>
ghostVars == <<stranded, disowned, faults>>
vars == <<rowVars, loopVars, startVars, ghostVars>>

NoLease == [row |-> "none", holder |-> Nobody]

Cycles == 1 .. MaxCycles + 1

Init ==
    /\ lease = NoLease
    /\ goal = [g \in Goals |-> "none"]
    /\ ledger = [g \in Goals |-> [n \in Cycles |-> "none"]]
    /\ tasks = [g \in Goals |-> 0]
    /\ loop = [p \in Processes |-> "none"]
    /\ hand = [p \in Processes |-> NoGoal]
    /\ cycles = [p \in Processes |-> 0]
    /\ request = [p \in Processes |-> "none"]
    /\ owners = {}
    /\ stopping = {}
    /\ stranded = {}
    /\ disowned = {}
    /\ faults = 0

Fault(kind) == kind \in Faults /\ faults < MaxFaults /\ faults' = faults + 1
-----------------------------------------------------------------------------
(* Goals: users create, change and delete them; the hook closes them.       *)

CreateGoal(g) ==
    /\ goal[g] = "none"
    /\ Parent[g] # NoGoal => goal[Parent[g]] \notin {"none", "deleted"}
    /\ goal' = [goal EXCEPT ![g] = "pending"]
    /\ UNCHANGED <<lease, ledger, tasks, loopVars, startVars, ghostVars>>

(* transition_status replaces whatever the status is.                       *)
Transition(g, status) ==
    goal' = [goal EXCEPT ![g] = IF @ \in {"none", "deleted"} THEN @ ELSE status]

PatchGoal(g) ==
    /\ g \in Troubled
    /\ goal[g] \notin {"none", "deleted"}
    /\ faults < MaxFaults
    /\ faults' = faults + 1
    /\ \E status \in {"pending", "in_progress", "completed", "failed"} : Transition(g, status)
    /\ UNCHANGED <<lease, ledger, tasks, loopVars, startVars, stranded, disowned>>

DeleteGoal(g) ==
    /\ Fault("delete")
    /\ goal[g] \notin {"none", "deleted"}
    /\ goal' = [goal EXCEPT ![g] = "deleted"]
    /\ UNCHANGED <<lease, ledger, tasks, loopVars, startVars, stranded, disowned>>

(* A worker ends the task, or loses it.                                     *)
TaskEnds(g) ==
    /\ tasks[g] > 0
    /\ tasks' = [tasks EXCEPT ![g] = @ - 1]
    /\ \E status \in {"completed", "failed"} : Transition(g, status)
    /\ UNCHANGED <<lease, ledger, loopVars, startVars, ghostVars>>

TaskLost(g) ==
    /\ Fault("lost")
    /\ tasks[g] > 0
    /\ tasks' = [tasks EXCEPT ![g] = @ - 1]
    /\ stranded' = stranded \cup {g}
    /\ UNCHANGED <<lease, goal, ledger, loopVars, startVars, disowned>>
-----------------------------------------------------------------------------
(* The lease.                                                              *)

Awaits == {"none", "metrics", "plan", "publish", "sleep"}

(* No coroutine of p is between two awaits.                                 *)
Free(p) == request[p] = "none" /\ loop[p] \in Awaits

Busy(p) == loop[p] # "none" \/ request[p] # "none" \/ p \in stopping

(* An owner id is made for each start and never again: what matters of it is   *)
(* whether it is the row's.  A process with a new id, or none, holds nothing. *)
LosesId(p) == lease' = [lease EXCEPT !.holder = IF @ = p THEN Nobody ELSE @]

Request(p, step) == request' = [request EXCEPT ![p] = step]

Starting(p) == request[p] \in {"insert", "takeover", "check"}

\* Mutant: a live lease of another owner is taken as well.
Start_AnyLease(p) ==
    /\ Free(p)
    /\ loop[p] = "none"
    /\ SerialStarts => \A q \in Processes : ~Starting(q)
    /\ owners' = owners \cup {p}
    /\ LosesId(p)
    /\ Request(p, IF lease.row = "none" THEN "insert" ELSE "takeover")
    /\ UNCHANGED <<goal, ledger, tasks, loopVars, stopping, ghostVars>>

(* start is refused while a loop is active; otherwise try_acquire reads the   *)
(* row and finds none, one that has expired, or a live one.                 *)
Start(p) ==
    /\ Free(p)
    /\ loop[p] = "none"
    /\ SerialStarts => \A q \in Processes : ~Starting(q)
    /\ owners' = owners \cup {p}
    /\ LosesId(p)
    /\ \/ lease.row = "none" /\ Request(p, "insert")
       \/ lease.row = "expired" /\ Request(p, "takeover")
       \/ lease.row = "live" /\ UNCHANGED request
    /\ UNCHANGED <<goal, ledger, tasks, loopVars, stopping, ghostVars>>

Acquire(p) ==
    /\ lease' = [row |-> "live", holder |-> p]
    /\ Request(p, "check")

(* The primary key refuses a second row; the loser reads again.              *)
Insert(p) ==
    /\ request[p] = "insert"
    /\ \/ lease.row = "none" /\ Acquire(p)
       \/ lease.row = "expired" /\ UNCHANGED lease /\ Request(p, "takeover")
       \/ lease.row = "live" /\ UNCHANGED lease /\ Request(p, "none")
    /\ UNCHANGED <<goal, ledger, tasks, loopVars, owners, stopping, ghostVars>>

(* An UPDATE by key; it raises if the row is gone.                           *)
TakeOver(p) ==
    /\ request[p] = "takeover"
    /\ \/ lease.row # "none" /\ Acquire(p)
       \/ lease.row = "none" /\ UNCHANGED lease /\ Request(p, "none")
    /\ UNCHANGED <<goal, ledger, tasks, loopVars, owners, stopping, ghostVars>>

(* The loop starts, unless the conflict detector finds a pending goal in      *)
(* conflict with one in progress: then start raises and the lease stays.     *)
Check(p) ==
    /\ request[p] = "check"
    /\ Request(p, "none")
    /\ \/ loop' = [loop EXCEPT ![p] = "metrics"]
       \/ /\ "conflict" \in Faults
          /\ \E g, h \in Goals : goal[g] = "pending" /\ goal[h] = "in_progress"
          /\ UNCHANGED loop
    /\ UNCHANGED <<rowVars, hand, cycles, owners, stopping, ghostVars>>

\* Mutant: the owner of the row is not compared.
Renew_Unread(p) ==
    /\ loop[p] = "renew"
    /\ loop' = [loop EXCEPT ![p] = IF lease.row = "none" THEN "none" ELSE "extend"]
    /\ UNCHANGED <<rowVars, hand, cycles, startVars, ghostVars>>

(* renew reads the row: it is of this owner, or the loop ends.  Without an    *)
(* owner id, which a late release takes away, the lease is not looked at.     *)
Renew(p) ==
    /\ loop[p] = "renew"
    /\ loop' = [loop EXCEPT ![p] =
          IF p \notin owners THEN "sleep" ELSE IF lease.holder = p THEN "extend" ELSE "none"]
    /\ UNCHANGED <<rowVars, hand, cycles, startVars, ghostVars>>

(* expires_at is written by key, whoever owns the row by now.                *)
Extend(p) ==
    /\ loop[p] = "extend"
    /\ \/ /\ lease.row # "none"
          /\ lease' = [lease EXCEPT !.row = "live"]
          /\ loop' = [loop EXCEPT ![p] = "sleep"]
       \/ /\ lease.row = "none"
          /\ loop' = [loop EXCEPT ![p] = "none"]
          /\ UNCHANGED lease
    /\ UNCHANGED <<goal, ledger, tasks, hand, cycles, startVars, ghostVars>>

RenewRaises(p) ==
    /\ Fault("database")
    /\ loop[p] \in {"renew", "extend"}
    /\ loop' = [loop EXCEPT ![p] = "none"]
    /\ UNCHANGED <<rowVars, hand, cycles, startVars, stranded, disowned>>

Wake(p) ==
    /\ Free(p)
    /\ loop[p] = "sleep"
    /\ loop' = [loop EXCEPT ![p] = "metrics"]
    /\ UNCHANGED <<rowVars, hand, cycles, startVars, ghostVars>>

(* The lease runs out.  A timely one outlasts the requests and the cycle     *)
(* that its loop is in.                                                    *)
Expire ==
    /\ lease.row = "live"
    /\ Timely => stopping = {} /\ (lease.holder \in Processes => ~Busy(lease.holder))
    /\ lease' = [lease EXCEPT !.row = "expired"]
    /\ UNCHANGED <<goal, ledger, tasks, loopVars, startVars, ghostVars>>
-----------------------------------------------------------------------------
(* A cycle, _run_cycle_enqueue.                                             *)

(* Every way out of a cycle counts it; the loop goes on to renew.            *)
EndCycle(p) ==
    /\ loop' = [loop EXCEPT ![p] = "renew"]
    /\ hand' = [hand EXCEPT ![p] = NoGoal]
    /\ cycles' = [cycles EXCEPT ![p] = IF @ < MaxCycles THEN @ + 1 ELSE @]

Go(p, there) == loop' = [loop EXCEPT ![p] = there] /\ UNCHANGED <<hand, cycles>>

(* Budget, throttle or breaker forbid the cycle, or there is no goal.        *)
SkipCycle(p) ==
    /\ Free(p)
    /\ loop[p] = "metrics"
    /\ EndCycle(p)
    /\ UNCHANGED <<rowVars, startVars, ghostVars>>

(* A goal is blocked by a parent that is closed.                             *)
Blocked(g) == Parent[g] # NoGoal /\ goal[Parent[g]] \in {"completed", "failed"}

Pending == {g \in Goals : goal[g] = "pending" /\ ~Blocked(g)}

(* _select_goal: the first of the list ...                                  *)
List(p) ==
    /\ Free(p)
    /\ loop[p] = "metrics"
    /\ cycles[p] < MaxCycles
    /\ \E g \in Pending :
          /\ \A h \in Pending : g <= h
          /\ hand' = [hand EXCEPT ![p] = g]
    /\ loop' = [loop EXCEPT ![p] = "claim"]
    /\ UNCHANGED <<rowVars, cycles, startVars, ghostVars>>

\* Mutant: the goal is taken up without being set in progress.
Claim_Unwritten(p) ==
    /\ loop[p] = "claim"
    /\ Go(p, "plan")
    /\ UNCHANGED <<rowVars, startVars, ghostVars>>

(* ... is set in progress, whatever has become of it.                       *)
Claim(p) ==
    /\ loop[p] = "claim"
    /\ Transition(hand[p], "in_progress")
    /\ Go(p, "plan")
    /\ UNCHANGED <<lease, ledger, tasks, startVars, ghostVars>>

(* An error is taken for "no goal", although it may come after the commit.   *)
ClaimRaises(p) ==
    /\ Fault("database")
    /\ loop[p] = "claim"
    /\ \/ UNCHANGED <<goal, stranded>>
       \/ Transition(hand[p], "in_progress") /\ stranded' = stranded \cup {hand[p]}
    /\ EndCycle(p)
    /\ UNCHANGED <<lease, ledger, tasks, startVars, disowned>>

(* The plan is made; an empty one ends the cycle.                            *)
Plan(p) ==
    /\ Free(p)
    /\ loop[p] = "plan"
    /\ Go(p, "ledger")
    /\ UNCHANGED <<rowVars, startVars, ghostVars>>

EmptyPlan(p) ==
    /\ Fault("empty")
    /\ Free(p)
    /\ loop[p] = "plan"
    /\ stranded' = stranded \cup {hand[p]}
    /\ EndCycle(p)
    /\ UNCHANGED <<rowVars, startVars, disowned>>

(* run_id is None: the idempotency key is made of the goal and the cycle.    *)
Entry(p) == ledger[hand[p]][cycles[p] + 1]
Enter(p, status) == ledger' = [ledger EXCEPT ![hand[p]][cycles[p] + 1] = status]

(* create_or_get_enqueue_ledger: the row that is there decides.              *)
GetEntry(p) ==
    /\ loop[p] = "ledger"
    /\ Entry(p) # "published"
    /\ IF Entry(p) = "none" THEN Enter(p, "pending") ELSE UNCHANGED ledger
    /\ Go(p, "publish")
    /\ UNCHANGED <<lease, goal, tasks, startVars, ghostVars>>

(* "idempotent skip": an earlier process has used the key.                   *)
SkipPublished(p) ==
    /\ loop[p] = "ledger"
    /\ Entry(p) = "published"
    /\ stranded' = stranded \cup {hand[p]}
    /\ EndCycle(p)
    /\ UNCHANGED <<rowVars, startVars, disowned, faults>>

Sent(p) == tasks[hand[p]] < MaxTasks /\ tasks' = [tasks EXCEPT ![hand[p]] = @ + 1]

Publish(p) ==
    /\ Free(p)
    /\ loop[p] = "publish"
    /\ Sent(p)
    /\ Go(p, "mark")
    /\ UNCHANGED <<lease, goal, ledger, startVars, ghostVars>>

(* pass_task ignores that publish returned False.                           *)
PublishOffline(p) ==
    /\ Fault("offline")
    /\ Free(p)
    /\ loop[p] = "publish"
    /\ stranded' = stranded \cup {hand[p]}
    /\ Go(p, "mark")
    /\ UNCHANGED <<rowVars, startVars, disowned>>

(* The cycle of p will fail although its message is out.                      *)
Disowns(p) == disowned' = disowned \cup {hand[p]}

(* It raises; unconfirmed, the message is in the queue nevertheless.         *)
PublishRaises(p) ==
    /\ Free(p)
    /\ loop[p] = "publish"
    /\ \/ Fault("publish") /\ UNCHANGED <<tasks, disowned>>
       \/ Fault("unconfirmed") /\ Sent(p) /\ Disowns(p)
    /\ Go(p, "fail")
    /\ UNCHANGED <<lease, goal, ledger, startVars, stranded>>

MarkPublished(p) ==
    /\ loop[p] = "mark"
    /\ Enter(p, "published")
    /\ EndCycle(p)
    /\ UNCHANGED <<lease, goal, tasks, startVars, ghostVars>>

(* An error, before the commit or after it, of the read that makes the row:   *)
(* the cycle has none to mark as failed.                                    *)
EntryRaises(p) ==
    /\ Fault("database")
    /\ loop[p] = "ledger"
    /\ UNCHANGED ledger \/ (Entry(p) = "none" /\ Enter(p, "pending"))
    /\ Go(p, "abandon")
    /\ UNCHANGED <<lease, goal, tasks, startVars, stranded, disowned>>

(* The same error when the row is marked, after the publication.             *)
MarkRaises(p) ==
    /\ Fault("database")
    /\ loop[p] = "mark"
    /\ UNCHANGED ledger \/ Enter(p, "published")
    /\ Disowns(p)
    /\ Go(p, "fail")
    /\ UNCHANGED <<lease, goal, tasks, startVars, stranded>>

Failing(p) == loop[p] \in {"fail", "abandon"}

\* Mutant: the goal gets a status that is none.
GiveBack_Open(p) ==
    /\ Failing(p)
    /\ Transition(hand[p], "open")
    /\ EndCycle(p)
    /\ UNCHANGED <<lease, ledger, tasks, startVars, ghostVars>>

Records(p) == IF loop[p] = "fail" THEN Enter(p, "failed") ELSE UNCHANGED ledger

\* Mutant: the goal is left as it is.
GiveBack_LedgerOnly(p) ==
    /\ Failing(p)
    /\ Records(p)
    /\ EndCycle(p)
    /\ UNCHANGED <<lease, goal, tasks, startVars, ghostVars>>

Returns(p) == Transition(hand[p], "pending") /\ UNCHANGED stranded

(* except: the goal is pending again and the row, if the cycle has one, has   *)
(* failed.  An error of either write is passed over.                         *)
GiveBack(p) ==
    /\ Failing(p)
    /\ \/ Returns(p) /\ Records(p) /\ UNCHANGED faults
       \/ /\ Fault("database")
          /\ Returns(p) \/ (UNCHANGED goal /\ stranded' = stranded \cup {hand[p]})
          /\ Records(p) \/ UNCHANGED ledger
    /\ EndCycle(p)
    /\ UNCHANGED <<lease, tasks, startVars, disowned>>
-----------------------------------------------------------------------------
(* The loop of p is cut off: by stop at an await, by a crash anywhere.       *)

CutOff(p) ==
    /\ loop' = [loop EXCEPT ![p] = "none"]
    /\ hand' = [hand EXCEPT ![p] = NoGoal]
    /\ IF loop[p] = "publish" THEN Sent(p) \/ UNCHANGED tasks ELSE UNCHANGED tasks
    /\ stranded' = IF loop[p] \in {"plan", "ledger", "publish", "fail", "abandon"}
                   THEN stranded \cup {hand[p]} ELSE stranded

(* CancelledError is no Exception: the goal is not given back.               *)
Stop(p) ==
    /\ Fault("stop")
    /\ Free(p)
    /\ loop[p] # "none"
    /\ p \notin stopping
    /\ CutOff(p)
    /\ cycles' = [cycles EXCEPT ![p] = IF loop[p] # "sleep" /\ @ < MaxCycles THEN @ + 1 ELSE @]
    /\ stopping' = stopping \cup {p}
    /\ UNCHANGED <<lease, goal, ledger, request, owners, disowned>>

(* stop goes on: release reads the row, for the owner id of this moment ...  *)
Release(p) ==
    /\ Free(p)
    /\ p \in stopping
    /\ IF lease.holder = p
       THEN Request(p, "release") /\ UNCHANGED owners
       ELSE owners' = owners \ {p} /\ UNCHANGED request
    /\ stopping' = stopping \ {p}
    /\ UNCHANGED <<rowVars, loopVars, ghostVars>>

(* ... and deletes it by its key.                                           *)
Delete(p) ==
    /\ request[p] = "release"
    /\ lease' = NoLease
    /\ Request(p, "none")
    /\ owners' = owners \ {p}
    /\ UNCHANGED <<goal, ledger, tasks, loopVars, stopping, ghostVars>>

Crash(p) ==
    /\ Fault("crash")
    /\ Busy(p)
    /\ CutOff(p)
    /\ cycles' = [cycles EXCEPT ![p] = 0]
    /\ Request(p, "none")
    /\ owners' = owners \ {p}
    /\ LosesId(p)
    /\ stopping' = stopping \ {p}
    /\ UNCHANGED <<goal, ledger, disowned>>
-----------------------------------------------------------------------------
Serve(p) == Insert(p) \/ TakeOver(p) \/ Check(p) \/ Release(p) \/ Delete(p)

Loop(p) ==
    \/ SkipCycle(p) \/ List(p) \/ Claim(p) \/ Plan(p) \/ GetEntry(p) \/ SkipPublished(p)
    \/ Publish(p) \/ MarkPublished(p) \/ GiveBack(p) \/ Renew(p) \/ Extend(p) \/ Wake(p)

Accident(p) ==
    \/ ClaimRaises(p) \/ EmptyPlan(p) \/ PublishOffline(p) \/ PublishRaises(p)
    \/ EntryRaises(p) \/ MarkRaises(p) \/ RenewRaises(p) \/ Stop(p) \/ Crash(p)

Next ==
    \/ \E g \in Goals : CreateGoal(g) \/ PatchGoal(g) \/ DeleteGoal(g) \/ TaskEnds(g) \/ TaskLost(g)
    \/ \E p \in Processes : Start(p) \/ Serve(p) \/ Loop(p) \/ Accident(p)
    \/ Expire

Spec == Init /\ [][Next]_vars

(* The event loop of a process that runs goes on with the coroutines it has,   *)
(* workers take up every task, and a lease that is not renewed runs out.      *)
FairSpec ==
    /\ Spec
    /\ \A p \in Processes : WF_vars(Serve(p)) /\ WF_vars(Loop(p))
    /\ \A g \in Goals : WF_vars(TaskEnds(g))
    /\ WF_vars(Expire)
-----------------------------------------------------------------------------
TypeOK ==
    /\ lease \in [row : {"none", "live", "expired"}, holder : Processes \cup {Nobody}]
    /\ goal \in [Goals -> {"none", "pending", "in_progress", "completed", "failed", "deleted"}]
    /\ ledger \in [Goals -> [Cycles -> {"none", "pending", "published", "failed"}]]
    /\ tasks \in [Goals -> 0 .. MaxTasks]
    /\ loop \in [Processes -> {"none", "metrics", "claim", "plan", "ledger", "publish",
                              "mark", "fail", "abandon", "renew", "extend", "sleep"}]
    /\ hand \in [Processes -> Goals \cup {NoGoal}]
    /\ cycles \in [Processes -> 0 .. MaxCycles]
    /\ request \in [Processes -> {"none", "insert", "takeover", "check", "release"}]
    /\ owners \subseteq Processes
    /\ stopping \subseteq Processes
    /\ stranded \subseteq Goals
    /\ disowned \subseteq Goals
    /\ faults \in 0 .. MaxFaults

(* Whoever starts, stops, crashes or loses its connection: as long as leases  *)
(* are timely and starts do not overlap, one process at most runs the loop.   *)
OneLoop ==
    Timely /\ SerialStarts =>
        \A p, q \in Processes : loop[p] # "none" /\ loop[q] # "none" => p = q

(* Goals that no user sets back, and whose cycle has not failed with their     *)
(* message out: the code gives such a goal back although it has a task.       *)
Owned == Goals \ (Troubled \cup disowned)

(* A goal has one task at a time, unless users set it back or its cycle has    *)
(* failed after the publication: then it is pending again and gets another.   *)
OneTaskPerGoal == \A g \in Owned : tasks[g] <= 1

(* Unless one of these two has happened to it, a goal that its task has closed  *)
(* is not taken up again: neither the claim nor the return to pending, both of *)
(* which replace any status, reopens it.                                    *)
ClosedStaysClosed ==
    [][\A g \in Owned :
          goal[g] \in {"completed", "failed"} => goal'[g] \in {"completed", "failed", "deleted"}]_vars

(* A goal in progress is in the hand of a loop or has a task, also where two  *)
(* loops run, unless one of the named accidents has left it there.            *)
WorkedOn ==
    \A g \in Goals \ (Troubled \cup stranded) :
        goal[g] = "in_progress" =>
            tasks[g] > 0 \/ \E p \in Processes : hand[p] = g

(* ... and then it does move on.                                            *)
TakenMovesOn ==
    \A g \in Goals \ Troubled :
        goal[g] = "in_progress" ~> goal[g] # "in_progress" \/ g \in stranded

(* A loop whose lease another process has taken comes to its end, at the      *)
(* latest when the lease is to be renewed after this cycle, unless a stop     *)
(* that was overtaken by a start has taken its owner id away.                 *)
StrayLoopStops ==
    \A p \in Processes :
        (loop[p] # "none" /\ lease.holder # p) ~> (loop[p] = "none" \/ lease.holder = p \/ p \notin owners)
-----------------------------------------------------------------------------
(* What a goal's row, its tasks and the loops say of its pursuit.             *)
Pursuing == {"plan", "ledger", "publish", "fail", "abandon"}

Pursuer(g) ==
    {p \in Processes : /\ g \notin disowned
                       /\ goal[g] = "in_progress"
                       /\ hand[p] = g /\ loop[p] \in Pursuing}

Stage(g) ==
    IF g \in disowned THEN "void"
    ELSE CASE goal[g] = "pending" -> "waiting"
           [] goal[g] \in {"completed", "failed"} -> "closed"
           [] goal[g] = "in_progress" /\ tasks[g] > 0 -> "handed"
           [] goal[g] = "in_progress" /\ tasks[g] = 0 /\ Pursuer(g) # {} -> "taken"
           [] goal[g] = "in_progress" /\ tasks[g] = 0 /\ Pursuer(g) = {} -> "left"
           [] OTHER -> goal[g]

Pursuit == INSTANCE GoalPursuit WITH
    Goals <- Goals \ Troubled,
    Takers <- Processes,
    stage <- [g \in Goals \ Troubled |-> Stage(g)],
    taker <- [g \in Goals \ Troubled |-> Pursuer(g)]

(* With timely leases and starts one at a time, a goal that no user sets back is *)
(* taken by one process, which alone gives it back or hands it out; it gets one   *)
(* task in its life, is closed once, and is not taken up again.  A goal whose    *)
(* cycle fails with its message out lapses: nothing is promised of it any more. *)
ImplementsGoalPursuit == Pursuit!ASpec
=============================================================================
