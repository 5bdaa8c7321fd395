------------------------ MODULE ChatStreamRun_proofs ------------------------
(* Proofs about ChatStreamRun, for every number of requests and processes. *)
EXTENDS ChatStreamRun, FiniteSetTheorems, TLAPS

USE StreamAssumption

(***************************************************************************)
(* The inductive invariants.  Each holds of what a step of any process, a   *)
(* surviving thread or the environment leaves behind.                      *)
(***************************************************************************)
Started(r) == task[r]["produce"] # "none"
Attached == {"claim", "track", "poll", "interrupt", "list", "yield", "closed"}

(* Only the holder of the claim, fixed once, has a producer or orphans.     *)
ClaimInv ==
    /\ run.status \in {"absent", "pending"} => run.token = NoToken
    /\ \A r \in Requests :
          /\ Started(r) => run.token = r
          /\ ~Started(r) => task[r]["consumer"] = "none" /\ task[r]["heartbeat"] = "none"
          /\ pc[r] = "track" => run.token = r /\ ~Started(r)
          /\ run.token = r /\ pc[r] \notin {"track", "gone"} => Started(r)
    /\ \A call \in orphans : call.tok = run.token /\ Started(call.tok)

(* A handler that got past the insert sees a run for its own request, and  *)
(* past the claim one that was claimed; exactly a running run has a lease. *)
AttachInv ==
    /\ \A r \in Requests :
          /\ pc[r] \in Attached => run.status # "absent" /\ run.fp = Fingerprint[r]
          /\ pc[r] \in Attached \ {"claim"} => run.status # "pending"
    /\ LeaseIffRunning

(* What a subscriber has been sent is the stretch of the ledger between its *)
(* Last-Event-ID and its cursor, and what it has listed is the next one.    *)
DeliveredTo(r) ==
    /\ \A i \in 1 .. Len(got[r]) : got[r][i] \in events /\ got[r][i].seq = after[r] + i
    /\ cursor[r] = after[r] + Len(got[r])
    /\ pc[r] = "idle" => got[r] = <<>> /\ batch[r] = {}
    /\ \A e \in batch[r] : e.seq > cursor[r]
    /\ \A e \in batch[r], f \in events :
            cursor[r] < f.seq /\ f.seq < e.seq => f \in batch[r]

DeliveryInv ==
    /\ IsFiniteSet(events)
    /\ \A r \in Requests : DeliveredTo(r)

(* A snapshot of a finished run stays true.                                *)
FinalInv ==
    \A r \in Requests :
        /\ snap[r].status \in TerminalStatus =>
                run.status \in {snap[r].status, "deleted"} /\ run.seq = snap[r].seq
        /\ pc[r] = "closed" =>
                run.status \in TerminalStatus \cup {"deleted"} /\ cursor[r] >= run.seq

Recorded(kind) == \E e \in events : e.kind = kind

(* Whoever may finish the run with a status has its event in the ledger.    *)
Backed(call) ==
    call.op = "finish" => Recorded(IF call.arg = "completed" THEN "done" ELSE "error")

Prepared(r) ==
    /\ terminal[r] # "none" => Recorded(terminal[r])
    /\ \A c \in Coroutines : task[r][c] = "finishing" => c # "heartbeat" /\ terminal[r] # "none"
    /\ \A c \in Coroutines : task[r][c] = "failing" => Recorded("error")

OutcomeInv ==
    /\ OutcomeInLedger
    /\ \A r \in Requests : Prepared(r)
    /\ \A call \in orphans : Backed(call)

(* A call that a coroutine awaits is one of the calls.                     *)
LEMMA CallType ==
    ASSUME TypeOK, NEW r \in Requests, NEW state \in Calling
    PROVE  Call(r, state) \in Calls /\ Call(r, state).tok = r
  BY DEF TypeOK, Call, Calling, Calls, Kinds, TerminalKinds, TerminalStatus

(* A transaction keeps the row's type, and the ledger only grows.          *)
LEMMA CommitType ==
    ASSUME TypeOK, NEW call \in Calls, Commit(call)
    PROVE  run' \in RunRow /\ events' \subseteq Event /\ events \subseteq events'
<1>1. CASE ~Owns(call.tok)
  BY <1>1 DEF Commit, rowVars, TypeOK
<1>2. CASE Owns(call.tok) /\ call.op = "append" /\ AppendEvent(call.arg)
  <2>1. call.arg \in Kinds
    BY <1>2 DEF Calls
  <2>2. run.seq \in Nat /\ Lease \in NoLease .. Lease
    BY DEF TypeOK, RunRow, NoLease
  <2>3. run' \in RunRow
    BY <1>2, <2>2, run.seq + 1 \in Nat DEF AppendEvent, TypeOK, RunRow
  <2>4. QED
    BY <1>2, <2>1, <2>2, <2>3 DEF AppendEvent, TypeOK, Event
<1>3. CASE Owns(call.tok) /\ call.op = "finish" /\ Finish(call.arg)
  <2>1. call.arg \in Statuses /\ NoLease \in NoLease .. Lease
    BY <1>3 DEF Calls, Statuses, NoLease
  <2>2. QED
    BY <1>3, <2>1 DEF Finish, TypeOK, RunRow
<1>4. CASE Owns(call.tok) /\ call.op = "renew" /\ RenewLease
  <2>1. \A left \in Stamps : left \in NoLease .. Lease
    BY DEF Stamps, NoLease, Expired
  <2>2. QED
    BY <1>4, <2>1 DEF RenewLease, TypeOK, RunRow
<1>5. QED
  BY <1>1, <1>2, <1>3, <1>4 DEF Commit

LEMMA OrphanType ==
    ASSUME TypeOK, NEW rs \in SUBSET Requests, Orphaned(rs)
    PROVE  orphans' \subseteq Calls
<1>1. \A r \in Requests : InFlight(r) \subseteq Calls
  BY CallType DEF InFlight
<1>2. QED
  BY <1>1 DEF Orphaned, TypeOK

LEMMA InitType == Init => TypeOK
  BY DEF Init, TypeOK, RunRow, Statuses, Fingerprints, NoLease, Places, Gone, NoSnap,
         Coroutines, TaskStates, Kinds, TerminalKinds

(* Attaching moves the handler, and may insert or claim the row.           *)
LEMMA AttachType ==
    ASSUME TypeOK, NEW r \in Requests, Attach(r)
    PROVE  TypeOK'
<1> USE DEF TypeOK, rowVars, readVars, prodVars, Goto
<1>1. CASE Arrive(r)
  BY <1>1 DEF Arrive, Places
<1>2. Found(r) \in Places
  BY DEF Found, Places, Gone
<1>3. CASE BeginOrGet(r)
  BY <1>2, <1>3 DEF BeginOrGet, Places
<1>4. CASE InsertPending(r)
  <2>1. Fingerprint[r] \in Fingerprints /\ "pending" \in Statuses
    BY DEF Fingerprints, Statuses
  <2>2. run' \in RunRow
    BY <1>4, <2>1 DEF InsertPending, RunRow
  <2>3. QED
    BY <1>4, <2>2 DEF InsertPending, Places
<1>5. CASE InsertConflicts(r)
  BY <1>2, <1>5 DEF InsertConflicts
<1>6. CASE ClaimPending(r)
  <2>1. \A left \in Stamps : left \in NoLease .. Lease
    BY DEF Stamps, NoLease, Expired
  <2>2. run' \in RunRow
    BY <1>6, <2>1 DEF ClaimPending, RunRow, Statuses
  <2>3. QED
    BY <1>6, <2>2 DEF ClaimPending, Places
<1>7. CASE ClaimTaken(r)
  BY <1>7 DEF ClaimTaken, Places
<1>8. CASE TrackProducer(r)
  <2>1. [c \in Coroutines |-> CASE c = "produce" -> "waiting"
                               [] c = "consumer" -> "reading"
                               [] OTHER -> "sleeping"] \in [Coroutines -> TaskStates]
    BY DEF TaskStates
  <2>2. task' \in [Requests -> [Coroutines -> TaskStates]]
    BY <1>8, <2>1 DEF TrackProducer
  <2>3. nap' \in [Requests -> 0 .. Interval]
    BY <1>8 DEF TrackProducer
  <2>4. QED
    BY <1>8, <2>2, <2>3 DEF TrackProducer, Places
<1>9. QED
  BY <1>1, <1>3, <1>4, <1>5, <1>6, <1>7, <1>8 DEF Attach

(* Following the ledger moves the handler, and may interrupt the run.      *)
LEMMA FollowType ==
    ASSUME TypeOK, NEW r \in Requests, Follow(r)
    PROVE  TypeOK'
<1> USE DEF TypeOK, rowVars, prodVars, Goto
<1>1. CASE GetRun(r)
  <2>1. snap' \in [Requests -> [status : Statuses \ {"deleted"}, seq : Nat]]
    BY <1>1 DEF GetRun, RunRow
  <2>2. QED
    BY <1>1, <2>1 DEF GetRun, Places, Gone
<1>2. CASE InterruptStaleRun(r)
  <2>1. run.seq + 1 \in Nat \ {0} /\ "failed" \in Statuses /\ NoLease \in NoLease .. Lease
    <3>1. run.seq \in Nat
      BY DEF RunRow
    <3>2. Lease \in Nat
      BY DEF StreamAssumption
    <3>3. QED
      BY <3>1, <3>2 DEF Statuses, TerminalStatus, NoLease
  <2>2. run' \in RunRow
    BY <1>2, <2>1 DEF InterruptStaleRun, RunRow
  <2>3. events' \subseteq Event /\ events \subseteq events'
    BY <1>2, <2>1 DEF InterruptStaleRun, Event, Kinds, TerminalKinds
  <2>4. QED
    BY <1>2, <2>2, <2>3 DEF InterruptStaleRun, Places
<1>3. CASE NotStale(r)
  BY <1>3 DEF NotStale, Places
<1>4. CASE List(r)
  <2>1. ListEvents(cursor[r]) \subseteq events
    BY DEF ListEvents
  <2>2. NoSnap \in [status : Statuses \ {"deleted"}, seq : Nat]
    BY DEF NoSnap, Statuses
  <2>3. QED
    BY <1>4, <2>1, <2>2 DEF List, Places, Gone
<1>5. CASE Yield(r)
  <2>1. PICK e \in batch[r] :
              /\ cursor' = [cursor EXCEPT ![r] = e.seq]
              /\ got' = [got EXCEPT ![r] = Append(@, e)]
              /\ batch' = [batch EXCEPT ![r] = @ \ {e}]
              /\ pc' = [pc EXCEPT ![r] = IF batch[r] = {e} THEN "poll" ELSE "yield"]
    BY <1>5 DEF Yield
  <2>2. e \in Event /\ e.seq \in Nat
    BY DEF Event
  <2>3. got' \in [Requests -> Seq(Event)]
    BY <2>1, <2>2
  <2>4. QED
    BY <1>5, <2>1, <2>2, <2>3 DEF Yield, Places
<1>6. QED
  BY <1>1, <1>2, <1>3, <1>4, <1>5 DEF Follow

(* A step of one coroutine that keeps the other variables' types.           *)
LEMMA BecomesType ==
    ASSUME TypeOK, NEW r \in Requests, NEW c \in Coroutines, NEW there \in TaskStates,
           Becomes(r, c, there)
    PROVE  task' \in [Requests -> [Coroutines -> TaskStates]]
  BY DEF TypeOK, Becomes

LEMMA ConsumeType ==
    ASSUME TypeOK, NEW r \in Requests, Consume(r)
    PROVE  TypeOK'
<1> USE DEF reqVars, readVars
<1>1. {"appending", "finishing", "reporting", "reading", "ended"} \subseteq TaskStates
      /\ "consumer" \in Coroutines
      /\ {"appending", "finishing", "reporting"} \subseteq Calling
  BY DEF TaskStates, Calling, Coroutines
<1>2. CASE SourceYields(r)
  <2>1. task' \in [Requests -> [Coroutines -> TaskStates]]
    BY <1>1, <1>2, BecomesType DEF SourceYields
  <2>2. chunk' \in [Requests -> Kinds]
    BY <1>2 DEF SourceYields, TypeOK
  <2>3. QED
    BY <1>2, <2>1, <2>2 DEF SourceYields, TypeOK, rowVars
<1>3. CASE SourceEnds(r)
  <2>1. task' \in [Requests -> [Coroutines -> TaskStates]]
    BY <1>1, <1>3, BecomesType DEF SourceEnds
  <2>2. QED
    BY <1>3, <2>1 DEF SourceEnds, TypeOK, rowVars
<1>4. CASE SourceRaises(r)
  <2>1. task' \in [Requests -> [Coroutines -> TaskStates]]
    BY <1>1, <1>4, BecomesType DEF SourceRaises
  <2>2. QED
    BY <1>4, <2>1 DEF SourceRaises, TypeOK, rowVars
<1>5. CASE AppendReturns(r)
  <2>1. task' \in [Requests -> [Coroutines -> TaskStates]]
    BY <1>1, <1>5, BecomesType DEF AppendReturns
  <2>2. run' \in RunRow /\ events' \subseteq Event /\ events \subseteq events'
    BY <1>1, <1>5, CallType, CommitType DEF AppendReturns
  <2>3. terminal' \in [Requests -> {"none"} \cup TerminalKinds] /\ chunk' \in [Requests -> Kinds]
    BY <1>5 DEF AppendReturns, TypeOK, Kinds
  <2>4. QED
    BY <1>5, <2>1, <2>2, <2>3 DEF AppendReturns, TypeOK
<1>6. CASE FinishReturns(r)
  <2>1. task' \in [Requests -> [Coroutines -> TaskStates]]
    BY <1>1, <1>6, BecomesType DEF FinishReturns
  <2>2. run' \in RunRow /\ events' \subseteq Event /\ events \subseteq events'
    BY <1>1, <1>6, CallType, CommitType DEF FinishReturns
  <2>3. QED
    BY <1>6, <2>1, <2>2 DEF FinishReturns, TypeOK
<1>7. CASE ConsumerRaises(r)
  <2>1. task' \in [Requests -> [Coroutines -> TaskStates]]
    BY <1>1, <1>7, BecomesType DEF ConsumerRaises
  <2>2. run' \in RunRow /\ events' \subseteq Event /\ events \subseteq events'
    BY <1>1, <1>7, CallType, CommitType DEF ConsumerRaises, TypeOK, rowVars
  <2>3. QED
    BY <1>7, <2>1, <2>2 DEF ConsumerRaises, TypeOK
<1>8. QED
  BY <1>2, <1>3, <1>4, <1>5, <1>6, <1>7 DEF Consume

LEMMA FailOwnedRunType ==
    ASSUME TypeOK, NEW r \in Requests, FailOwnedRun(r)
    PROVE  TypeOK'
<1> USE DEF reqVars, readVars
<1>1. PICK c \in {"consumer", "produce"} :
          ReportReturns(r, c) \/ FailReturns(r, c) \/ FailOwnedRunRaises(r, c)
  BY DEF FailOwnedRun
<1>2. {"reporting", "failing", "ended"} \subseteq TaskStates /\ c \in Coroutines
      /\ {"reporting", "failing"} \subseteq Calling
  BY DEF TaskStates, Calling, Coroutines
<1>3. task' \in [Requests -> [Coroutines -> TaskStates]]
  BY <1>1, <1>2, BecomesType DEF ReportReturns, FailReturns, FailOwnedRunRaises
<1>4. run' \in RunRow /\ events' \subseteq Event /\ events \subseteq events'
  BY <1>1, <1>2, CallType, CommitType
     DEF ReportReturns, FailReturns, FailOwnedRunRaises, TypeOK, rowVars
<1>5. QED
  BY <1>1, <1>3, <1>4 DEF ReportReturns, FailReturns, FailOwnedRunRaises, TypeOK

LEMMA HeartbeatType ==
    ASSUME TypeOK, NEW r \in Requests, Heartbeat(r)
    PROVE  TypeOK'
<1> USE DEF reqVars, readVars
<1>1. {"renewing", "sleeping", "ended"} \subseteq TaskStates
      /\ "renewing" \in Calling /\ "heartbeat" \in Coroutines
  BY DEF TaskStates, Calling, Coroutines
<1>2. CASE HeartbeatWakes(r)
  <2>1. task' \in [Requests -> [Coroutines -> TaskStates]]
    BY <1>1, <1>2, BecomesType DEF HeartbeatWakes
  <2>2. QED
    BY <1>2, <2>1 DEF HeartbeatWakes, TypeOK, rowVars
<1>3. CASE RenewReturns(r)
  <2>1. task' \in [Requests -> [Coroutines -> TaskStates]]
    BY <1>1, <1>3, BecomesType DEF RenewReturns
  <2>2. run' \in RunRow /\ events' \subseteq Event /\ events \subseteq events'
    BY <1>1, <1>3, CallType, CommitType DEF RenewReturns
  <2>3. nap' \in [Requests -> 0 .. Interval]
    BY <1>3 DEF RenewReturns, TypeOK
  <2>4. QED
    BY <1>3, <2>1, <2>2, <2>3 DEF RenewReturns, TypeOK
<1>4. CASE RenewRaises(r)
  <2>1. task' \in [Requests -> [Coroutines -> TaskStates]]
    BY <1>1, <1>4, BecomesType DEF RenewRaises
  <2>2. run' \in RunRow /\ events' \subseteq Event /\ events \subseteq events'
    BY <1>1, <1>4, CallType, CommitType DEF RenewRaises, TypeOK, rowVars
  <2>3. QED
    BY <1>4, <2>1, <2>2 DEF RenewRaises, TypeOK
<1>5. QED
  BY <1>2, <1>3, <1>4 DEF Heartbeat

(* Cancelling a producer's tasks orphans calls only.                       *)
LEMMA ProduceStopsType ==
    ASSUME TypeOK, NEW r \in Requests, ProduceStops(r)
    PROVE  TypeOK'
<1>1. task' \in [Requests -> [Coroutines -> TaskStates]]
  BY DEF ProduceStops, TypeOK, TaskStates
<1>2. terminal' \in [Requests -> {"none"} \cup TerminalKinds]
  BY DEF ProduceStops, TypeOK
<1>3. orphans' \subseteq Calls
  BY OrphanType DEF ProduceStops
<1>4. QED
  BY <1>1, <1>2, <1>3 DEF ProduceStops, TypeOK, rowVars, reqVars, readVars

LEMMA OrphansType ==
    ASSUME TypeOK, OrphanCommits \/ OrphanRaises
    PROVE  TypeOK'
<1>1. run' \in RunRow /\ events' \subseteq Event /\ events \subseteq events'
  BY CommitType DEF OrphanCommits, OrphanRaises, TypeOK, rowVars
<1>2. QED
  BY <1>1 DEF OrphanCommits, OrphanRaises, TypeOK, reqVars, readVars

(* Handlers that are gone hold nothing.                                    *)
LEMMA ForgetType ==
    ASSUME TypeOK, NEW rs \in SUBSET Requests, Forget(rs), UNCHANGED events
    PROVE  /\ pc' \in [Requests -> Places]
           /\ snap' \in [Requests -> [status : Statuses \ {"deleted"}, seq : Nat]]
           /\ after' \in [Requests -> Nat] /\ cursor' \in [Requests -> Nat]
           /\ batch' \in [Requests -> SUBSET events']
           /\ got' \in [Requests -> Seq(Event)]
<1>1. NoSnap \in [status : Statuses \ {"deleted"}, seq : Nat]
  BY DEF NoSnap, Statuses
<1>2. QED
  BY <1>1 DEF Forget, TypeOK, Places, Gone

LEMMA EnvironmentType ==
    ASSUME TypeOK,
           \/ \E r \in Requests : Disconnect(r)
           \/ \E p \in Processes : Crash(p) \/ Shutdown(p)
           \/ DeleteConversation
           \/ Tick
    PROVE  TypeOK'
<1>1. ASSUME NEW r \in Requests, Disconnect(r) PROVE TypeOK'
  BY <1>1, ForgetType DEF Disconnect, TypeOK, rowVars, prodVars
<1>2. ASSUME NEW p \in Processes, Crash(p) PROVE TypeOK'
  <2>1. Handled(p) \in SUBSET Requests
    BY DEF Handled, Served
  <2>2. task' \in [Requests -> [Coroutines -> TaskStates]]
    BY <1>2 DEF Crash, TypeOK, TaskStates
  <2>3. terminal' \in [Requests -> {"none"} \cup TerminalKinds] /\ orphans' \subseteq Calls
    BY <1>2 DEF Crash, TypeOK
  <2>4. QED
    BY <1>2, <2>1, <2>2, <2>3, ForgetType DEF Crash, TypeOK, rowVars
<1>3. ASSUME NEW p \in Processes, Shutdown(p) PROVE TypeOK'
  <2>1. Handled(p) \in SUBSET Requests /\ Waiting(p) \in SUBSET Requests
    BY DEF Handled, Waiting, Served
  <2>2. task' \in [Requests -> [Coroutines -> TaskStates]]
    BY <1>3 DEF Shutdown, TypeOK, TaskStates, Calling
  <2>3. orphans' \subseteq Calls
    BY <1>3, <2>1, OrphanType DEF Shutdown
  <2>4. QED
    BY <1>3, <2>1, <2>2, <2>3, ForgetType DEF Shutdown, TypeOK, rowVars
<1>4. CASE DeleteConversation
  <2>1. "deleted" \in Statuses /\ NoLease \in NoLease .. Lease
    BY DEF Statuses, NoLease
  <2>2. run' \in RunRow
    BY <1>4, <2>1 DEF DeleteConversation, TypeOK, RunRow
  <2>3. QED
    BY <1>4, <2>2 DEF DeleteConversation, TypeOK, reqVars, readVars, prodVars
<1>5. CASE Tick
  <2>1. run.lease \in NoLease .. Lease
    BY DEF TypeOK, RunRow
  <2>2. (IF run.lease >= 0 THEN run.lease - 1 ELSE run.lease) \in NoLease .. Lease
    BY <2>1 DEF NoLease
  <2>3. run' \in RunRow
    BY <1>5, <2>2 DEF Tick, TypeOK, RunRow
  <2>4. nap' \in [Requests -> 0 .. Interval]
    BY <1>5 DEF Tick, TypeOK
  <2>5. QED
    BY <1>5, <2>3, <2>4 DEF Tick, TypeOK, reqVars, readVars
<1>6. QED
  BY <1>1, <1>2, <1>3, <1>4, <1>5

(* The variables of the specification keep their types.                    *)
THEOREM TypeCorrect == Spec => []TypeOK
<1>1. TypeOK /\ [Next]_vars => TypeOK'
  <2>1. TypeOK /\ UNCHANGED vars => TypeOK'
    BY DEF vars, rowVars, reqVars, readVars, prodVars, TypeOK
  <2>2. QED
    BY <2>1, AttachType, FollowType, ConsumeType, FailOwnedRunType, HeartbeatType,
       ProduceStopsType, OrphansType, EnvironmentType DEF Next
<1>2. QED
  BY <1>1, InitType, PTL DEF Spec

-----------------------------------------------------------------------------
(* The row and the ledger.                                                 *)

(* What a step may do to them; the second case is every append.            *)
Added(k) == run'.seq = run.seq + 1 /\ events' = events \cup {[seq |-> run.seq + 1, kind |-> k]}

RowMoves ==
    /\ \/ events' = events /\ run'.seq = run.seq
       \/ run.status = "running" /\ \E k \in Kinds : Added(k)
    /\ run.status \in TerminalStatus \cup {"deleted"} =>
          /\ events' = events /\ run'.seq = run.seq /\ run'.token = run.token
          /\ run'.status \in {run.status, "deleted"}

LEMMA CommitMoves ==
    ASSUME TypeOK, NEW call \in Calls, Commit(call)
    PROVE  /\ RowMoves
           /\ run'.token = run.token /\ run'.fp = run.fp
           /\ \/ run'.status = run.status
              \/ Owns(call.tok) /\ call.op = "finish" /\ run'.status = call.arg
           /\ \/ run' = run
              \/ Owns(call.tok) /\ run'.status \in {"running"} \cup TerminalStatus
           /\ Owns(call.tok) /\ call.op = "append" => Added(call.arg)
<1>1. CASE ~Owns(call.tok)
  BY <1>1 DEF Commit, rowVars, RowMoves
<1>2. CASE Owns(call.tok) /\ call.op = "append" /\ AppendEvent(call.arg)
  <2>1. call.arg \in Kinds
    BY <1>2 DEF Calls
  <2>2. Added(call.arg) /\ run'.status = run.status /\ run'.token = run.token /\ run'.fp = run.fp
    BY <1>2 DEF AppendEvent, TypeOK, RunRow, Added
  <2>3. QED
    BY <1>2, <2>1, <2>2 DEF RowMoves, Owns, TerminalStatus
<1>3. CASE Owns(call.tok) /\ call.op = "finish" /\ Finish(call.arg)
  <2>1. call.arg \in TerminalStatus
    BY <1>3 DEF Calls
  <2>2. /\ events' = events /\ run'.seq = run.seq /\ run'.status = call.arg
        /\ run'.token = run.token /\ run'.fp = run.fp
    BY <1>3 DEF Finish, TypeOK, RunRow
  <2>3. QED
    BY <1>3, <2>1, <2>2 DEF RowMoves, Owns, TerminalStatus
<1>4. CASE Owns(call.tok) /\ call.op = "renew" /\ RenewLease
  <2>1. /\ events' = events /\ run'.seq = run.seq /\ run'.status = run.status
        /\ run'.token = run.token /\ run'.fp = run.fp
    BY <1>4 DEF RenewLease, TypeOK, RunRow
  <2>2. QED
    BY <1>4, <2>1 DEF RowMoves, Owns, TerminalStatus
<1>5. QED
  BY <1>1, <1>2, <1>3, <1>4 DEF Commit

(* The steps of a producer and of the threads that survive it.             *)
ProducerStep ==
    \/ \E r \in Requests : Consume(r) \/ FailOwnedRun(r) \/ Heartbeat(r)
    \/ OrphanCommits \/ OrphanRaises

(* Each leaves the row alone or is the transaction of one call.            *)
LEMMA ProducerStepCommits ==
    ASSUME TypeOK, ProducerStep
    PROVE  UNCHANGED rowVars \/ \E call \in Calls : Commit(call)
<1>1. \A r \in Requests : \A state \in Calling : Call(r, state) \in Calls
  BY CallType
<1>2. {"appending", "finishing", "reporting", "failing", "renewing"} = Calling
  BY DEF Calling
<1>3. ASSUME NEW r \in Requests, Consume(r)
      PROVE  UNCHANGED rowVars \/ \E call \in Calls : Commit(call)
  BY <1>1, <1>2, <1>3 DEF Consume, SourceYields, SourceEnds, SourceRaises, AppendReturns,
     FinishReturns, ConsumerRaises
<1>4. ASSUME NEW r \in Requests, FailOwnedRun(r)
      PROVE  UNCHANGED rowVars \/ \E call \in Calls : Commit(call)
  BY <1>1, <1>2, <1>4 DEF FailOwnedRun, ReportReturns, FailReturns, FailOwnedRunRaises
<1>5. ASSUME NEW r \in Requests, Heartbeat(r)
      PROVE  UNCHANGED rowVars \/ \E call \in Calls : Commit(call)
  BY <1>1, <1>2, <1>5 DEF Heartbeat, HeartbeatWakes, RenewReturns, RenewRaises
<1>6. CASE OrphanCommits \/ OrphanRaises
  BY <1>6 DEF OrphanCommits, OrphanRaises, TypeOK
<1>7. QED
  BY <1>3, <1>4, <1>5, <1>6 DEF ProducerStep

(* What an attaching handler does to the row and to the producer.          *)
LEMMA AttachMoves ==
    ASSUME TypeOK, NEW r \in Requests, Attach(r)
    PROVE  /\ UNCHANGED <<events, terminal, orphans>> /\ run'.seq = run.seq
           /\ run' = run \/ (/\ run.status \in {"absent", "pending"}
                            /\ run'.status \in {"pending", "running"})
           /\ UNCHANGED task \/ TrackProducer(r)
<1>1. CASE Arrive(r) \/ BeginOrGet(r) \/ InsertConflicts(r) \/ ClaimTaken(r)
  <2>1. UNCHANGED <<rowVars, prodVars>>
    BY <1>1 DEF Arrive, BeginOrGet, InsertConflicts, ClaimTaken
  <2>2. QED
    BY <2>1 DEF rowVars, prodVars
<1>2. CASE InsertPending(r)
  <2>1. UNCHANGED <<events, prodVars>> /\ run.status = "absent"
        /\ run' = [run EXCEPT !.status = "pending", !.fp = Fingerprint[r]]
    BY <1>2 DEF InsertPending
  <2>2. run'.seq = run.seq /\ run'.status = "pending"
    BY <2>1 DEF TypeOK, RunRow
  <2>3. QED
    BY <2>1, <2>2 DEF prodVars
<1>3. CASE ClaimPending(r)
  <2>1. run'.seq = run.seq /\ run'.status = "running"
    BY <1>3 DEF ClaimPending, TypeOK, RunRow
  <2>2. UNCHANGED <<events, prodVars>> /\ run.status = "pending"
    BY <1>3 DEF ClaimPending
  <2>3. QED
    BY <2>1, <2>2 DEF prodVars
<1>4. CASE TrackProducer(r)
  BY <1>4 DEF TrackProducer, rowVars
<1>5. QED
  BY <1>1, <1>2, <1>3, <1>4 DEF Attach

LEMMA NextMoves == TypeOK /\ [Next]_vars => RowMoves
<1> SUFFICES ASSUME TypeOK, [Next]_vars PROVE RowMoves
  OBVIOUS
<1>1. UNCHANGED rowVars => RowMoves
  BY DEF rowVars, RowMoves
<1>2. ASSUME NEW r \in Requests, Attach(r) PROVE RowMoves
  BY <1>2, AttachMoves DEF RowMoves, TerminalStatus
<1>3. ASSUME NEW r \in Requests, Follow(r) PROVE RowMoves
  <2>1. CASE InterruptStaleRun(r)
    <3>1. Added("error") /\ "error" \in Kinds
      BY <2>1 DEF InterruptStaleRun, Added, TypeOK, RunRow, Kinds, TerminalKinds
    <3>2. QED
      BY <2>1, <3>1 DEF InterruptStaleRun, Stale, RowMoves, TerminalStatus
  <2>2. QED
    BY <1>1, <1>3, <2>1 DEF Follow, GetRun, NotStale, List, Yield
<1>4. CASE ProducerStep
  BY <1>1, <1>4, ProducerStepCommits, CommitMoves
<1>5. ASSUME NEW r \in Requests, Disconnect(r) \/ ProduceStops(r) PROVE RowMoves
  BY <1>1, <1>5 DEF Disconnect, ProduceStops
<1>6. ASSUME NEW p \in Processes, Crash(p) \/ Shutdown(p) PROVE RowMoves
  BY <1>1, <1>6 DEF Crash, Shutdown
<1>7. CASE DeleteConversation \/ Tick
  BY <1>7 DEF DeleteConversation, Tick, TypeOK, RunRow, RowMoves, TerminalStatus
<1>8. CASE UNCHANGED vars
  BY <1>1, <1>8 DEF vars
<1>9. QED
  BY <1>2, <1>3, <1>4, <1>5, <1>6, <1>7, <1>8 DEF Next, ProducerStep

(* A finished run and its ledger never change again.                       *)
THEOREM FinishedRunIsFinal == Spec => TerminalIsFinal
<1>1. TypeOK /\ [Next]_vars =>
        [run.status \in TerminalStatus =>
          /\ events' = events /\ run'.seq = run.seq /\ run'.token = run.token
          /\ run'.status \in {run.status, "deleted"}]_vars
  BY NextMoves DEF RowMoves
<1>2. QED
  BY <1>1, TypeCorrect, PTL DEF Spec, TerminalIsFinal

(* The ledger is numbered without gap or repeat.                           *)
THEOREM LedgerIsContiguous == Spec => []LedgerContiguous
<1>1. Init => LedgerContiguous
  BY DEF Init, LedgerContiguous
<1>2. TypeOK /\ LedgerContiguous /\ [Next]_vars => LedgerContiguous'
  <2> SUFFICES ASSUME TypeOK, LedgerContiguous, [Next]_vars PROVE LedgerContiguous'
    OBVIOUS
  <2>1. CASE events' = events /\ run'.seq = run.seq
    BY <2>1 DEF LedgerContiguous
  <2>2. ASSUME NEW k \in Kinds, Added(k) PROVE LedgerContiguous'
    <3>1. run.seq \in Nat
      BY DEF TypeOK, RunRow
    <3>2. \A e \in events : e.seq \in 1 .. run.seq
      BY DEF LedgerContiguous
    <3>3. \A e \in events' : e.seq \in 1 .. run'.seq
      BY <2>2, <3>1, <3>2 DEF Added
    <3>4. \A n \in 1 .. run'.seq : \E e \in events' : e.seq = n
      <4> SUFFICES ASSUME NEW n \in 1 .. run'.seq PROVE \E e \in events' : e.seq = n
        OBVIOUS
      <4>1. CASE n = run.seq + 1
        <5>1. [seq |-> n, kind |-> k] \in events'
          BY <2>2, <4>1 DEF Added
        <5>2. [seq |-> n, kind |-> k].seq = n
          OBVIOUS
        <5>3. QED
          BY <5>1, <5>2
      <4>2. CASE n # run.seq + 1
        <5>1. n \in {e.seq : e \in events}
          BY <2>2, <3>1, <4>2 DEF Added, LedgerContiguous
        <5>2. QED
          BY <2>2, <5>1 DEF Added
      <4>3. QED
        BY <4>1, <4>2
    <3>5. \A e, f \in events' : e.seq = f.seq => e = f
      BY <2>2, <3>1, <3>2 DEF Added, LedgerContiguous
    <3>6. QED
      BY <3>3, <3>4, <3>5 DEF LedgerContiguous
  <2>3. QED
    BY <2>1, <2>2, NextMoves DEF RowMoves
<1>3. QED
  BY <1>1, <1>2, TypeCorrect, PTL DEF Spec

-----------------------------------------------------------------------------
(* The claim: at most one producer, whose token the row keeps.             *)

(* A step of a producer's coroutines leaves a started producer started, and *)
(* is taken only by one.                                                   *)
LEMMA BecomesStarted ==
    ASSUME TypeOK, ClaimInv, NEW r \in Requests, NEW c \in Coroutines, NEW there,
           there # "none", task[r][c] # "none", Becomes(r, c, there)
    PROVE  /\ Started(r)
           /\ \A x \in Requests : Started(x)' = Started(x)
           /\ \A x \in Requests : ~Started(x) =>
                task'[x]["consumer"] = "none" /\ task'[x]["heartbeat"] = "none"
<1>1. Started(r)
  BY DEF ClaimInv, Coroutines, Started
<1>2. task' = [task EXCEPT ![r] = [task[r] EXCEPT ![c] = there]]
  BY DEF Becomes
<1>3. task[r] \in [Coroutines -> TaskStates] /\ task \in [Requests -> [Coroutines -> TaskStates]]
  BY DEF TypeOK
<1>4. \A x \in Requests \ {r} : task'[x] = task[x]
  BY <1>2, <1>3
<1>5. task'[r]["produce"] # "none"
  BY <1>1, <1>2, <1>3 DEF Started, Coroutines
<1>6. QED
  BY <1>1, <1>4, <1>5 DEF Started, ClaimInv

(* Nothing but the row changes in a way the claim can see.                 *)
LEMMA ClaimKept ==
    ASSUME TypeOK, ClaimInv,
           run'.token = run.token,
           run'.status \in {"absent", "pending"} => run.status \in {"absent", "pending"},
           \A r \in Requests : /\ Started(r)' = Started(r)
                               /\ ~Started(r) => /\ task'[r]["consumer"] = "none"
                                                 /\ task'[r]["heartbeat"] = "none"
                               /\ pc'[r] = "track" => pc[r] = "track"
                               /\ pc'[r] \notin {"track", "gone"} => pc[r] \notin {"track", "gone"},
           \A call \in orphans' : call \in orphans \/ (Started(call.tok) /\ call.tok \in Requests)
    PROVE  ClaimInv'
<1>1. run'.status \in {"absent", "pending"} => run'.token = NoToken
  BY DEF ClaimInv
<1>2. ASSUME NEW r \in Requests
      PROVE  /\ Started(r)' => run'.token = r
             /\ ~(Started(r)') => task'[r]["consumer"] = "none" /\ task'[r]["heartbeat"] = "none"
             /\ pc'[r] = "track" => run'.token = r /\ ~(Started(r)')
             /\ run'.token = r /\ pc'[r] \notin {"track", "gone"} => Started(r)'
  BY DEF ClaimInv
<1>3. ASSUME NEW call \in orphans' PROVE call.tok = run'.token /\ Started(call.tok)'
  <2>1. call.tok \in Requests
    BY DEF TypeOK, Calls
  <2>2. QED
    BY <2>1 DEF ClaimInv
<1>4. QED
  BY <1>1, <1>2, <1>3 DEF ClaimInv

THEOREM ClaimIsExclusive == Spec => []ClaimInv
<1>1. Init => ClaimInv
  BY DEF Init, ClaimInv, Started, Coroutines
<1>2. TypeOK /\ ClaimInv /\ [Next]_vars => ClaimInv'
  <2> SUFFICES ASSUME TypeOK, ClaimInv, [Next]_vars PROVE ClaimInv'
    OBVIOUS
  <2> USE DEF rowVars, readVars, reqVars, prodVars
  <2>1. ASSUME NEW r \in Requests, Attach(r) PROVE ClaimInv'
    <3>1. CASE Arrive(r) \/ BeginOrGet(r) \/ InsertConflicts(r) \/ ClaimTaken(r)
      <4>1. Found(r) \notin {"track", "gone"}
        BY DEF Found
      <4>2. pc' \in [Requests -> Places] /\ \A x \in Requests \ {r} : pc'[x] = pc[x]
        BY <3>1, AttachType DEF Arrive, BeginOrGet, InsertConflicts, ClaimTaken, Goto, TypeOK, Attach
      <4>3. pc[r] \notin {"track", "gone"} /\ pc'[r] \notin {"track", "gone"}
        BY <3>1, <4>1 DEF Arrive, BeginOrGet, InsertConflicts, ClaimTaken, Goto, TypeOK
      <4>4. UNCHANGED <<run, task, orphans>>
        BY <3>1 DEF Arrive, BeginOrGet, InsertConflicts, ClaimTaken
      <4>5. QED
        BY <4>2, <4>3, <4>4, ClaimKept DEF ClaimInv, Started
    <3>2. CASE InsertPending(r)
      <4>1. run'.token = run.token /\ run.status = "absent"
        BY <3>2 DEF InsertPending, TypeOK, RunRow
      <4>2. UNCHANGED <<task, orphans>> /\ pc[r] = "insert" /\ pc' = [pc EXCEPT ![r] = "claim"]
        BY <3>2 DEF InsertPending, Goto
      <4>3. QED
        BY <4>1, <4>2, ClaimKept DEF ClaimInv, Started, TypeOK
    <3>3. CASE ClaimPending(r)
      <4>1. run.token = NoToken
        BY <3>3 DEF ClaimPending, ClaimInv
      <4>2. orphans = {} /\ \A x \in Requests : ~Started(x) /\ pc[x] # "track"
        <5>1. \A call \in orphans : call.tok \in Requests
          BY DEF TypeOK, Calls
        <5>2. QED
          BY <4>1, <5>1 DEF ClaimInv
      <4>3. run'.token = r /\ run'.status = "running"
        BY <3>3 DEF ClaimPending, TypeOK, RunRow
      <4>4. UNCHANGED <<task, orphans>> /\ pc' = [pc EXCEPT ![r] = "track"]
        BY <3>3 DEF ClaimPending, Goto
      <4>5. QED
        BY <4>2, <4>3, <4>4 DEF ClaimInv, Started, TypeOK
    <3>4. CASE TrackProducer(r)
      <4>1. run.token = r /\ pc[r] = "track" /\ ~Started(r)
        BY <3>4 DEF TrackProducer, Goto, ClaimInv
      <4>2. ~Tracked(Home[r])
        BY <4>1 DEF Tracked, Started, ClaimInv
      <4>3. task'[r]["produce"] = "waiting" /\ \A x \in Requests \ {r} : task'[x] = task[x]
        BY <3>4, <4>2 DEF TrackProducer, TypeOK, Coroutines
      <4>4. UNCHANGED <<run, orphans>> /\ pc' = [pc EXCEPT ![r] = "poll"]
        BY <3>4 DEF TrackProducer, Goto
      <4>5. orphans = {}
        BY <4>1 DEF ClaimInv
      <4>6. QED
        BY <4>1, <4>3, <4>4, <4>5 DEF ClaimInv, Started, TypeOK
    <3>5. QED
      BY <2>1, <3>1, <3>2, <3>3, <3>4 DEF Attach
  <2>2. ASSUME NEW r \in Requests, Follow(r) PROVE ClaimInv'
    <3>1. UNCHANGED <<task, orphans>> /\ run'.token = run.token
      BY <2>2 DEF Follow, GetRun, InterruptStaleRun, NotStale, List, Yield, TypeOK, RunRow
    <3>2. run'.status = run.status \/ run'.status = "failed"
      BY <2>2 DEF Follow, GetRun, InterruptStaleRun, NotStale, List, Yield, TypeOK, RunRow
    <3>3. /\ \A x \in Requests \ {r} : pc'[x] = pc[x]
          /\ pc[r] \notin {"track", "gone"} /\ pc'[r] \notin {"track", "gone"}
      BY <2>2 DEF Follow, GetRun, InterruptStaleRun, NotStale, List, Yield, Goto, TypeOK
    <3>4. QED
      BY <3>1, <3>2, <3>3, ClaimKept DEF ClaimInv, Started
  <2>3. CASE ProducerStep
    <3>1. /\ run'.token = run.token
          /\ run'.status \in {"absent", "pending"} => run.status \in {"absent", "pending"}
      BY <2>3, ProducerStepCommits, CommitMoves DEF TerminalStatus
    <3>2. UNCHANGED pc /\ orphans' \subseteq orphans
      BY <2>3 DEF ProducerStep, Consume, SourceYields, SourceEnds, SourceRaises, AppendReturns,
         FinishReturns, ConsumerRaises, FailOwnedRun, ReportReturns, FailReturns,
         FailOwnedRunRaises, Heartbeat, HeartbeatWakes, RenewReturns, RenewRaises,
         OrphanCommits, OrphanRaises
    <3>3. \/ UNCHANGED task
          \/ \E r \in Requests, c \in Coroutines, there \in TaskStates \ {"none"} :
                task[r][c] # "none" /\ Becomes(r, c, there)
      <4>1. /\ {"reading", "appending", "finishing", "reporting", "failing",
                 "sleeping", "renewing", "ended"} \subseteq TaskStates \ {"none"}
            /\ {"produce", "consumer", "heartbeat"} \subseteq Coroutines
        BY DEF TaskStates, Calling, Coroutines
      <4>2. ASSUME NEW r \in Requests, Consume(r)
            PROVE  \E there \in TaskStates \ {"none"} :
                      task[r]["consumer"] # "none" /\ Becomes(r, "consumer", there)
        BY <4>1, <4>2 DEF Consume, SourceYields, SourceEnds, SourceRaises, AppendReturns,
           FinishReturns, ConsumerRaises, At
      <4>3. ASSUME NEW r \in Requests, FailOwnedRun(r)
            PROVE  \E c \in {"consumer", "produce"}, there \in TaskStates \ {"none"} :
                      task[r][c] # "none" /\ Becomes(r, c, there)
        BY <4>1, <4>3 DEF FailOwnedRun, ReportReturns, FailReturns, FailOwnedRunRaises, At
      <4>4. ASSUME NEW r \in Requests, Heartbeat(r)
            PROVE  \E there \in TaskStates \ {"none"} :
                      task[r]["heartbeat"] # "none" /\ Becomes(r, "heartbeat", there)
        BY <4>1, <4>4 DEF Heartbeat, HeartbeatWakes, RenewReturns, RenewRaises, At
      <4>5. CASE OrphanCommits \/ OrphanRaises
        BY <4>5 DEF OrphanCommits, OrphanRaises
      <4>6. QED
        BY <2>3, <4>1, <4>2, <4>3, <4>4, <4>5 DEF ProducerStep
    <3>4. \A r \in Requests : /\ Started(r)' = Started(r)
                              /\ ~Started(r) => /\ task'[r]["consumer"] = "none"
                                                /\ task'[r]["heartbeat"] = "none"
      BY <3>3, BecomesStarted DEF Started, ClaimInv
    <3>5. \A r \in Requests : /\ Started(r)' = Started(r)
                              /\ ~Started(r) => /\ task'[r]["consumer"] = "none"
                                                /\ task'[r]["heartbeat"] = "none"
                              /\ pc'[r] = "track" => pc[r] = "track"
                              /\ pc'[r] \notin {"track", "gone"} => pc[r] \notin {"track", "gone"}
      BY <3>2, <3>4
    <3>6. \A call \in orphans' : call \in orphans \/ (Started(call.tok) /\ call.tok \in Requests)
      BY <3>2 DEF Started
    <3>7. QED
      BY <3>1, <3>5, <3>6, ClaimKept DEF Started
  <2>4. ASSUME NEW r \in Requests, ProduceStops(r) PROVE ClaimInv'
    <3>1. Started(r)
      BY <2>4 DEF ProduceStops, At, Started
    <3>2. Started(r)' /\ \A x \in Requests \ {r} : task'[x] = task[x]
      BY <2>4 DEF ProduceStops, Started, TypeOK, Coroutines
    <3>3. \A call \in InFlight(r) : call.tok = r
      BY CallType DEF InFlight
    <3>4. \A call \in orphans' : call \in orphans \/ call.tok = r
      BY <2>4, <3>3 DEF ProduceStops, Orphaned
    <3>5. QED
      BY <2>4, <3>1, <3>2, <3>4, ClaimKept DEF ProduceStops, ClaimInv, Started
  <2>5. ASSUME NEW r \in Requests, Disconnect(r) PROVE ClaimInv'
    BY <2>5, ClaimKept DEF Disconnect, Forget, ClaimInv, Started
  <2>6. ASSUME NEW p \in Processes, Crash(p) PROVE ClaimInv'
    <3>1. \A x \in Requests : x \in Producing(p) => Started(x)
      BY DEF Producing, Idle, Started, ClaimInv, Coroutines
    <3>2. \A x \in Requests : /\ x \in Producing(p) => Started(x)'
                              /\ x \notin Producing(p) => task'[x] = task[x]
      BY <2>6 DEF Crash, Started, Coroutines
    <3>3. \A x \in Requests : pc'[x] = pc[x] \/ pc'[x] = "gone"
      BY <2>6 DEF Crash, Forget
    <3>4. UNCHANGED run /\ orphans' \subseteq orphans
      BY <2>6 DEF Crash
    <3>5. \A r \in Requests : /\ Started(r)' = Started(r)
                              /\ ~Started(r) => /\ task'[r]["consumer"] = "none"
                                                /\ task'[r]["heartbeat"] = "none"
                              /\ pc'[r] = "track" => pc[r] = "track"
                              /\ pc'[r] \notin {"track", "gone"} => pc[r] \notin {"track", "gone"}
      BY <3>1, <3>2, <3>3 DEF ClaimInv, Started
    <3>6. \A call \in orphans' : call \in orphans \/ (Started(call.tok) /\ call.tok \in Requests)
      BY <3>4 DEF Started
    <3>7. QED
      BY <3>4, <3>5, <3>6, ClaimKept DEF Started
  <2>7. ASSUME NEW p \in Processes, Shutdown(p) PROVE ClaimInv'
    <3>1. \A x \in Requests : x \in Waiting(p) => Started(x)
      BY DEF Waiting, At, Started
    <3>2. \A x \in Requests : /\ x \in Waiting(p) => Started(x)'
                              /\ x \notin Waiting(p) => task'[x] = task[x]
      BY <2>7 DEF Shutdown, Started, Coroutines
    <3>3. \A x \in Requests : pc'[x] = pc[x] \/ pc'[x] = "gone"
      BY <2>7 DEF Shutdown, Forget
    <3>4. Waiting(p) \in SUBSET Requests /\ \A x \in Requests : \A call \in InFlight(x) : call.tok = x
      BY CallType DEF InFlight, Waiting, Served
    <3>5. \A call \in orphans' : call \in orphans \/ call.tok \in Waiting(p)
      BY <2>7, <3>4 DEF Shutdown, Orphaned
    <3>6. UNCHANGED run
      BY <2>7 DEF Shutdown
    <3>7. \A r \in Requests : /\ Started(r)' = Started(r)
                              /\ ~Started(r) => /\ task'[r]["consumer"] = "none"
                                                /\ task'[r]["heartbeat"] = "none"
                              /\ pc'[r] = "track" => pc[r] = "track"
                              /\ pc'[r] \notin {"track", "gone"} => pc[r] \notin {"track", "gone"}
      BY <3>1, <3>2, <3>3 DEF ClaimInv, Started
    <3>8. \A call \in orphans' : call \in orphans \/ (Started(call.tok) /\ call.tok \in Requests)
      BY <3>1, <3>4, <3>5 DEF Started
    <3>9. QED
      BY <3>6, <3>7, <3>8, ClaimKept DEF Started
  <2>8. CASE DeleteConversation \/ Tick
    <3>1. /\ run'.token = run.token /\ run'.status \in {run.status, "deleted"}
          /\ UNCHANGED <<pc, task, orphans>>
      BY <2>8 DEF DeleteConversation, Tick, TypeOK, RunRow
    <3>2. QED
      BY <3>1, ClaimKept DEF ClaimInv, Started
  <2>9. CASE UNCHANGED vars
    BY <2>9 DEF vars, ClaimInv, Started
  <2>10. QED
    BY <2>1, <2>2, <2>3, <2>4, <2>5, <2>6, <2>7, <2>8, <2>9 DEF Next, ProducerStep
<1>3. QED
  BY <1>1, <1>2, TypeCorrect, PTL DEF Spec

(* At most one execution per key, and the claimant's is always started.     *)
THEOREM AtMostOneExecution == Spec => []OneExecution
<1>1. ClaimInv => OneExecution
  BY DEF ClaimInv, OneExecution, Started
<1>2. QED
  BY <1>1, ClaimIsExclusive, PTL

-----------------------------------------------------------------------------
(* Who follows what, and the lease.                                        *)

(* A producer's steps do not touch the handlers.                           *)
LEMMA ProducerFrame ==
    ASSUME ProducerStep
    PROVE  UNCHANGED reqVars
  BY DEF ProducerStep, Consume, SourceYields, SourceEnds, SourceRaises, AppendReturns,
     FinishReturns, ConsumerRaises, FailOwnedRun, ReportReturns, FailReturns,
     FailOwnedRunRaises, Heartbeat, HeartbeatWakes, RenewReturns, RenewRaises,
     OrphanCommits, OrphanRaises

(* A handler that is dropped holds nothing; the others are untouched.       *)
DropsHandlers ==
    /\ UNCHANGED rowVars /\ UNCHANGED after
    /\ \A r \in Requests :
          \/ /\ pc'[r] = pc[r] /\ snap'[r] = snap[r] /\ cursor'[r] = cursor[r]
             /\ batch'[r] = batch[r] /\ got'[r] = got[r]
          \/ /\ pc'[r] = "gone" /\ snap'[r] = NoSnap /\ cursor'[r] = after[r]
             /\ batch'[r] = {} /\ got'[r] = <<>>

LEMMA DropFrame ==
    ASSUME TypeOK,
           \/ \E r \in Requests : Disconnect(r)
           \/ \E p \in Processes : Crash(p) \/ Shutdown(p)
    PROVE  DropsHandlers
  BY DEF Disconnect, Crash, Shutdown, Forget, DropsHandlers, rowVars

LEMMA CommitKeepsLease ==
    ASSUME TypeOK, LeaseIffRunning, NEW call \in Calls, Commit(call)
    PROVE  LeaseIffRunning'
<1>1. CASE ~Owns(call.tok)
  BY <1>1 DEF Commit, rowVars, LeaseIffRunning
<1>2. CASE Owns(call.tok) /\ call.op = "append" /\ AppendEvent(call.arg)
  BY <1>2 DEF AppendEvent, TypeOK, RunRow, LeaseIffRunning, Owns, NoLease
<1>3. CASE Owns(call.tok) /\ call.op = "finish" /\ Finish(call.arg)
  <2>1. call.arg # "running"
    BY <1>3 DEF Calls, TerminalStatus
  <2>2. QED
    BY <1>3, <2>1 DEF Finish, TypeOK, RunRow, LeaseIffRunning
<1>4. CASE Owns(call.tok) /\ call.op = "renew" /\ RenewLease
  <2>1. \A left \in Stamps : left # NoLease
    BY DEF Stamps, NoLease, Expired
  <2>2. QED
    BY <1>4, <2>1 DEF RenewLease, TypeOK, RunRow, LeaseIffRunning, Owns
<1>5. QED
  BY <1>1, <1>2, <1>3, <1>4 DEF Commit

THEOREM AttachmentIsSound == Spec => []AttachInv
<1>1. Init => AttachInv
  BY DEF Init, AttachInv, Attached, LeaseIffRunning
<1>2. TypeOK /\ AttachInv /\ [Next]_vars => AttachInv'
  <2> SUFFICES ASSUME TypeOK, AttachInv, [Next]_vars PROVE AttachInv'
    OBVIOUS
  <2>1. ASSUME NEW r \in Requests, Attach(r) PROVE AttachInv'
    <3> USE DEF rowVars, Goto
    <3>1. CASE Arrive(r)
      BY <3>1 DEF Arrive, AttachInv, Attached, TypeOK, LeaseIffRunning
    <3>2. Found(r) \in Attached =>
            /\ run.fp = Fingerprint[r] /\ run.status # "deleted"
            /\ Found(r) # "claim" => run.status # "pending"
      BY DEF Found, Attached
    <3>3. CASE BeginOrGet(r)
      BY <3>2, <3>3 DEF BeginOrGet, AttachInv, Attached, TypeOK, LeaseIffRunning
    <3>4. CASE InsertPending(r)
      BY <3>4 DEF InsertPending, AttachInv, Attached, TypeOK, RunRow, LeaseIffRunning
    <3>5. CASE InsertConflicts(r)
      BY <3>2, <3>5 DEF InsertConflicts, AttachInv, Attached, TypeOK, LeaseIffRunning
    <3>6. CASE ClaimPending(r)
      <4>1. \A left \in Stamps : left # NoLease
        BY DEF Stamps, NoLease, Expired
      <4>2. QED
        BY <3>6, <4>1 DEF ClaimPending, AttachInv, Attached, TypeOK, RunRow, LeaseIffRunning
    <3>7. CASE ClaimTaken(r)
      BY <3>7 DEF ClaimTaken, AttachInv, Attached, TypeOK, LeaseIffRunning
    <3>8. CASE TrackProducer(r)
      BY <3>8 DEF TrackProducer, AttachInv, Attached, TypeOK, LeaseIffRunning
    <3>9. QED
      BY <2>1, <3>1, <3>3, <3>4, <3>5, <3>6, <3>7, <3>8 DEF Attach
  <2>2. ASSUME NEW r \in Requests, Follow(r) PROVE AttachInv'
    <3>1. CASE InterruptStaleRun(r)
      BY <3>1 DEF InterruptStaleRun, Stale, Goto, AttachInv, Attached, TypeOK, RunRow, LeaseIffRunning
    <3>2. CASE GetRun(r) \/ NotStale(r) \/ List(r) \/ Yield(r)
      <4>1. /\ UNCHANGED run /\ \A x \in Requests \ {r} : pc'[x] = pc[x]
            /\ pc[r] \in Attached \ {"claim"}
        BY <3>2 DEF GetRun, NotStale, List, Yield, Goto, TypeOK, rowVars, Attached
      <4>2. QED
        BY <4>1 DEF AttachInv, LeaseIffRunning
    <3>3. QED
      BY <2>2, <3>1, <3>2 DEF Follow
  <2>3. CASE ProducerStep
    <3>1. UNCHANGED pc
      BY <2>3, ProducerFrame DEF reqVars
    <3>2. /\ run'.fp = run.fp /\ (run'.status = run.status \/ run'.status \in TerminalStatus)
          /\ LeaseIffRunning'
      BY <2>3, ProducerStepCommits, CommitMoves, CommitKeepsLease
         DEF TerminalStatus, AttachInv, rowVars, LeaseIffRunning, Owns
    <3>3. QED
      BY <3>1, <3>2 DEF AttachInv, TerminalStatus
  <2>4. CASE DropsHandlers
    BY <2>4 DEF DropsHandlers, rowVars, AttachInv, Attached, LeaseIffRunning
  <2>5. CASE \E r \in Requests : ProduceStops(r)
    BY <2>5 DEF ProduceStops, rowVars, reqVars, AttachInv, LeaseIffRunning
  <2>6. CASE DeleteConversation
    BY <2>6 DEF DeleteConversation, reqVars, AttachInv, TypeOK, RunRow, LeaseIffRunning
  <2>7. CASE Tick
    <3>1. run.lease \in NoLease .. Lease /\ NoLease = -2
      BY DEF TypeOK, RunRow, NoLease
    <3>2. run'.lease # NoLease <=> run.lease # NoLease
      BY <2>7, <3>1 DEF Tick, TypeOK, RunRow
    <3>3. run'.status = run.status /\ run'.fp = run.fp /\ UNCHANGED pc
      BY <2>7 DEF Tick, reqVars, TypeOK, RunRow
    <3>4. QED
      BY <3>2, <3>3 DEF AttachInv, LeaseIffRunning
  <2>8. CASE UNCHANGED vars
    BY <2>8 DEF vars, rowVars, reqVars, AttachInv, LeaseIffRunning
  <2>9. QED
    BY <2>1, <2>2, <2>3, <2>4, <2>5, <2>6, <2>7, <2>8, DropFrame DEF Next, ProducerStep
<1>3. QED
  BY <1>1, <1>2, TypeCorrect, PTL DEF Spec

(* A request follows only a claimed run that was created for its own        *)
(* message, and exactly a running run has a lease.                         *)
THEOREM AttachedAsPromised ==
    Spec => [](FollowsItsRun /\ LeaseIffRunning)
<1>1. TypeOK /\ AttachInv => FollowsItsRun /\ LeaseIffRunning
  BY DEF AttachInv, Attached, FollowsItsRun, TypeOK, Places, Gone
<1>2. QED
  BY <1>1, TypeCorrect, AttachmentIsSound, PTL

-----------------------------------------------------------------------------
(* A terminal status has its event in the ledger.                          *)

(* The call of a coroutine that is prepared for it is backed.              *)
LEMMA CallBacked ==
    ASSUME TypeOK, NEW r \in Requests, NEW c \in Coroutines, Prepared(r), task[r][c] \in Calling
    PROVE  Backed(Call(r, task[r][c]))
<1>1. terminal[r] \in {"none", "done", "error"}
  BY DEF TypeOK, TerminalKinds
<1>2. CASE task[r][c] = "finishing"
  <2>1. Recorded(terminal[r]) /\ terminal[r] # "none"
    BY <1>2 DEF Prepared
  <2>2. CASE terminal[r] = "done"
    BY <1>2, <2>1, <2>2 DEF Backed, Call
  <2>3. CASE terminal[r] = "error"
    BY <1>2, <2>1, <2>3 DEF Backed, Call
  <2>4. QED
    BY <1>1, <2>1, <2>2, <2>3
<1>3. CASE task[r][c] = "failing"
  <2>1. Recorded("error")
    BY <1>3 DEF Prepared
  <2>2. QED
    BY <1>3, <2>1 DEF Backed, Call
<1>4. CASE task[r][c] \in {"appending", "reporting", "renewing"}
  BY <1>4 DEF Backed, Call
<1>5. QED
  BY <1>2, <1>3, <1>4 DEF Calling

(* A transaction that is backed keeps outcome and ledger together.         *)
LEMMA CommitOutcome ==
    ASSUME TypeOK, OutcomeInLedger, NEW call \in Calls, Commit(call), Backed(call)
    PROVE  OutcomeInLedger'
<1>1. events \subseteq events'
  BY CommitType
<1>2. \A kind : Recorded(kind) => Recorded(kind)'
  BY <1>1 DEF Recorded
<1>3. CASE run'.status = run.status
  BY <1>2, <1>3 DEF OutcomeInLedger, Recorded
<1>4. CASE call.op = "finish" /\ run'.status = call.arg
  <2>1. call.arg \in {"completed", "failed"}
    BY <1>4 DEF Calls, TerminalStatus
  <2>2. CASE call.arg = "completed"
    BY <1>2, <1>4, <2>2 DEF OutcomeInLedger, Recorded, Backed
  <2>3. CASE call.arg = "failed"
    BY <1>2, <1>4, <2>3 DEF OutcomeInLedger, Recorded, Backed
  <2>4. QED
    BY <2>1, <2>2, <2>3
<1>5. QED
  BY <1>3, <1>4, CommitMoves

(* One coroutine moves on, to a place that it is prepared for.             *)
LEMMA BecomesPrepared ==
    ASSUME TypeOK, NEW r \in Requests, NEW c \in Coroutines, NEW there,
           \A x \in Requests : Prepared(x), events \subseteq events', Becomes(r, c, there),
           \A x \in Requests :
              terminal'[x] = terminal[x] \/ (terminal[x] # "none" /\ Recorded(terminal[x]))',
           there = "finishing" => c # "heartbeat" /\ terminal'[r] # "none",
           there = "failing" => Recorded("error")'
    PROVE  \A x \in Requests : Prepared(x)'
<1>1. \A kind : Recorded(kind) => Recorded(kind)'
  BY DEF Recorded
<1>2. \A x \in Requests, d \in Coroutines :
        task'[x][d] = IF x = r /\ d = c THEN there ELSE task[x][d]
  BY DEF Becomes, TypeOK
<1>3. SUFFICES ASSUME NEW x \in Requests PROVE Prepared(x)'
  OBVIOUS
<1>4. (terminal[x] # "none" => Recorded(terminal[x]))'
  BY <1>1 DEF Prepared
<1>5. \A d \in Coroutines :
        task'[x][d] = "finishing" => d # "heartbeat" /\ terminal'[x] # "none"
  BY <1>2 DEF Prepared
<1>6. \A d \in Coroutines : task'[x][d] = "failing" => Recorded("error")'
  BY <1>1, <1>2 DEF Prepared
<1>7. QED
  BY <1>4, <1>5, <1>6 DEF Prepared

(* A step that only ends coroutines, drops what is known of the terminal    *)
(* event, or leaves both alone.                                            *)
LEMMA EndsPrepared ==
    ASSUME \A x \in Requests : Prepared(x), events \subseteq events',
           \A x \in Requests :
              \/ task'[x] = task[x] /\ terminal'[x] = terminal[x]
              \/ /\ \A d \in Coroutines : task'[x][d] \in {"ended", "reporting", "waiting",
                                                        "reading", "sleeping"}
                 /\ terminal'[x] \in {"none", terminal[x]}
    PROVE  \A x \in Requests : Prepared(x)'
<1>1. \A kind : Recorded(kind) => Recorded(kind)'
  BY DEF Recorded
<1>2. SUFFICES ASSUME NEW x \in Requests PROVE Prepared(x)'
  OBVIOUS
<1>3. CASE task'[x] = task[x] /\ terminal'[x] = terminal[x]
  BY <1>1, <1>3 DEF Prepared
<1>4. CASE /\ \A d \in Coroutines : task'[x][d] \in {"ended", "reporting", "waiting",
                                                  "reading", "sleeping"}
           /\ terminal'[x] \in {"none", terminal[x]}
  BY <1>1, <1>4 DEF Prepared
<1>5. QED
  BY <1>3, <1>4

(* A step that leaves the producer's coroutines alone.                     *)
LEMMA OutcomeKept ==
    ASSUME OutcomeInv, events \subseteq events', UNCHANGED <<task, terminal>>,
           orphans' \subseteq orphans, OutcomeInLedger'
    PROVE  OutcomeInv'
<1>1. \A kind : Recorded(kind) => Recorded(kind)'
  BY DEF Recorded
<1>2. \A r \in Requests : Prepared(r)'
  BY EndsPrepared DEF OutcomeInv
<1>3. ASSUME NEW call \in orphans' PROVE Backed(call)'
  BY <1>1 DEF OutcomeInv, Backed
<1>4. QED
  BY <1>2, <1>3 DEF OutcomeInv

(* A step that leaves the row alone and may orphan calls.                  *)
LEMMA OutcomeOrphaned ==
    ASSUME TypeOK, OutcomeInv, UNCHANGED rowVars, NEW rs \in SUBSET Requests,
           Orphaned(rs) \/ orphans' \subseteq orphans,
           \A x \in Requests : Prepared(x)'
    PROVE  OutcomeInv'
<1>1. OutcomeInLedger' /\ \A kind : Recorded(kind) => Recorded(kind)'
  BY DEF OutcomeInv, OutcomeInLedger, Recorded, rowVars
<1>2. \A r \in Requests : \A call \in InFlight(r) : Backed(call)
  BY CallBacked DEF OutcomeInv, InFlight, Coroutines
<1>3. ASSUME NEW call \in orphans' PROVE Backed(call)'
  <2>1. Backed(call)
    BY <1>2, <1>3 DEF Orphaned, OutcomeInv
  <2>2. QED
    BY <1>1, <2>1 DEF Backed
<1>4. QED
  BY <1>1, <1>3 DEF OutcomeInv

(* A coroutine's call commits, or not, and the coroutine moves on.         *)
LEMMA OutcomeMoves ==
    ASSUME TypeOK, OutcomeInv, NEW r \in Requests, NEW c \in Coroutines, NEW there,
           Becomes(r, c, there), UNCHANGED orphans,
           UNCHANGED rowVars \/ (task[r][c] \in Calling /\ Commit(Call(r, task[r][c]))),
           \A x \in Requests :
              terminal'[x] = terminal[x] \/ (terminal[x] # "none" /\ Recorded(terminal[x]))',
           there = "finishing" => c # "heartbeat" /\ terminal'[r] # "none",
           there = "failing" => Recorded("error")'
    PROVE  OutcomeInv'
<1>1. events \subseteq events' /\ OutcomeInLedger'
  <2>1. CASE UNCHANGED rowVars
    BY <2>1 DEF OutcomeInv, OutcomeInLedger, rowVars
  <2>2. CASE task[r][c] \in Calling /\ Commit(Call(r, task[r][c]))
    <3>1. Call(r, task[r][c]) \in Calls
      BY <2>2, CallType
    <3>2. Backed(Call(r, task[r][c]))
      BY <2>2, CallBacked DEF OutcomeInv
    <3>3. QED
      BY <2>2, <3>1, <3>2, CommitType, CommitOutcome DEF OutcomeInv
  <2>3. QED
    BY <2>1, <2>2
<1>2. \A x \in Requests : Prepared(x)'
  BY <1>1, BecomesPrepared DEF OutcomeInv
<1>3. \A call \in orphans' : Backed(call)'
  BY <1>1 DEF OutcomeInv, Backed, Recorded
<1>4. QED
  BY <1>1, <1>2, <1>3 DEF OutcomeInv

(* Where an append under the claim leads.                                  *)
LEMMA AppendRecords ==
    ASSUME TypeOK, NEW call \in Calls, Commit(call), call.op = "append", Owns(call.tok)
    PROVE  Recorded(call.arg)'
<1>1. Added(call.arg)
  BY CommitMoves
<1>2. [seq |-> run.seq + 1, kind |-> call.arg] \in events'
  BY <1>1 DEF Added
<1>3. QED
  BY <1>2 DEF Recorded

LEMMA ConsumeOutcome ==
    ASSUME TypeOK, OutcomeInv, NEW r \in Requests, Consume(r) PROVE OutcomeInv'
<1> "consumer" \in Coroutines /\ {"appending", "finishing", "reporting", "failing"} \subseteq Calling
  BY DEF Coroutines, Calling
<1>1. CASE SourceYields(r) \/ SourceEnds(r) \/ SourceRaises(r)
  <2>1. UNCHANGED <<rowVars, terminal, orphans>>
    BY <1>1 DEF SourceYields, SourceEnds, SourceRaises
  <2>2. PICK there : /\ Becomes(r, "consumer", there)
                     /\ there = "finishing" => terminal[r] # "none"
                     /\ there # "failing"
    BY <1>1 DEF SourceYields, SourceEnds, SourceRaises
  <2>3. QED
    BY <2>1, <2>2, OutcomeMoves
<1>2. CASE AppendReturns(r)
  <2>1. /\ task[r]["consumer"] = "appending" /\ Commit(Call(r, "appending"))
        /\ Becomes(r, "consumer", IF Owns(r) THEN "reading" ELSE "ended")
        /\ UNCHANGED orphans
    BY <1>2 DEF AppendReturns, At
  <2>2. /\ Call(r, "appending") \in Calls /\ Call(r, "appending").op = "append"
        /\ Call(r, "appending").tok = r /\ Call(r, "appending").arg = chunk[r]
    BY CallType DEF Call
  <2>3. \A x \in Requests :
          terminal'[x] = terminal[x] \/ (terminal[x] # "none" /\ Recorded(terminal[x]))'
    <3>1. Owns(r) => \E e \in events' : e.kind = chunk[r]
      BY <2>1, <2>2, AppendRecords DEF Recorded
    <3>2. QED
      BY <1>2, <3>1 DEF AppendReturns, TypeOK, TerminalKinds, Recorded
  <2>4. QED
    BY <2>1, <2>3, OutcomeMoves
<1>3. CASE FinishReturns(r)
  BY <1>3, OutcomeMoves DEF FinishReturns, At
<1>4. CASE ConsumerRaises(r)
  BY <1>4, OutcomeMoves DEF ConsumerRaises
<1>5. QED
  BY <1>1, <1>2, <1>3, <1>4 DEF Consume

LEMMA FailOwnedRunOutcome ==
    ASSUME TypeOK, OutcomeInv, NEW r \in Requests, FailOwnedRun(r) PROVE OutcomeInv'
<1>1. PICK c \in {"consumer", "produce"} :
        ReportReturns(r, c) \/ FailReturns(r, c) \/ FailOwnedRunRaises(r, c)
  BY DEF FailOwnedRun
<1>2. c \in Coroutines /\ {"reporting", "failing"} \subseteq Calling
  BY DEF Coroutines, Calling
<1>3. CASE ReportReturns(r, c)
  <2>1. /\ Call(r, "reporting") \in Calls /\ Call(r, "reporting").op = "append"
        /\ Call(r, "reporting").tok = r /\ Call(r, "reporting").arg = "error"
    BY <1>2, CallType DEF Call
  <2>2. Owns(r) => Recorded("error")'
    BY <1>3, <2>1, AppendRecords DEF ReportReturns
  <2>3. QED
    BY <1>2, <1>3, <2>2, OutcomeMoves DEF ReportReturns, At
<1>4. CASE FailReturns(r, c)
  BY <1>2, <1>4, OutcomeMoves DEF FailReturns, At
<1>5. CASE FailOwnedRunRaises(r, c)
  BY <1>2, <1>5, OutcomeMoves DEF FailOwnedRunRaises
<1>6. QED
  BY <1>1, <1>3, <1>4, <1>5

LEMMA HeartbeatOutcome ==
    ASSUME TypeOK, OutcomeInv, NEW r \in Requests, Heartbeat(r) PROVE OutcomeInv'
<1>1. "heartbeat" \in Coroutines /\ "renewing" \in Calling
  BY DEF Coroutines, Calling
<1>2. CASE HeartbeatWakes(r)
  BY <1>1, <1>2, OutcomeMoves DEF HeartbeatWakes
<1>3. CASE RenewReturns(r)
  BY <1>1, <1>3, OutcomeMoves DEF RenewReturns, At
<1>4. CASE RenewRaises(r)
  BY <1>1, <1>4, OutcomeMoves DEF RenewRaises, At
<1>5. QED
  BY <1>2, <1>3, <1>4 DEF Heartbeat

THEOREM OutcomeIsBacked == Spec => []OutcomeInv
<1>1. Init => OutcomeInv
  BY DEF Init, OutcomeInv, OutcomeInLedger, Prepared, Coroutines
<1>2. TypeOK /\ OutcomeInv /\ [Next]_vars => OutcomeInv'
  <2> SUFFICES ASSUME TypeOK, OutcomeInv, [Next]_vars PROVE OutcomeInv'
    OBVIOUS
  <2>1. ASSUME NEW r \in Requests, Attach(r) PROVE OutcomeInv'
    <3>1. events' = events /\ orphans' = orphans /\ terminal' = terminal
      BY <2>1, AttachMoves
    <3>2. run'.status = run.status \/ run'.status \in {"pending", "running"}
      BY <2>1, AttachMoves
    <3>3. OutcomeInLedger'
      BY <3>1, <3>2 DEF OutcomeInv, OutcomeInLedger
    <3>4. \A x \in Requests : Prepared(x)'
      <4>1. CASE TrackProducer(r)
        <5>1. \A x \in Requests :
                \/ task'[x] = task[x]
                \/ \A d \in Coroutines : task'[x][d] \in {"waiting", "reading", "sleeping"}
          BY <4>1 DEF TrackProducer, TypeOK, Coroutines
        <5>2. QED
          BY <3>1, <5>1, EndsPrepared DEF OutcomeInv
      <4>2. CASE ~TrackProducer(r)
        <5>1. task' = task
          BY <2>1, <4>2, AttachMoves
        <5>2. QED
          BY <3>1, <5>1, EndsPrepared DEF OutcomeInv
      <4>3. QED
        BY <4>1, <4>2
    <3>5. \A call \in orphans' : Backed(call)'
      BY <3>1 DEF OutcomeInv, Backed, Recorded
    <3>6. QED
      BY <3>3, <3>4, <3>5 DEF OutcomeInv
  <2>2. ASSUME NEW r \in Requests, Follow(r) PROVE OutcomeInv'
    <3>1. UNCHANGED <<task, terminal, orphans>>
      BY <2>2 DEF Follow, GetRun, InterruptStaleRun, NotStale, List, Yield, prodVars
    <3>2. events \subseteq events' /\ OutcomeInLedger'
      <4>1. CASE InterruptStaleRun(r)
        <5>1. run'.status = "failed" /\ events \subseteq events'
              /\ [seq |-> run.seq + 1, kind |-> "error"] \in events'
          BY <4>1 DEF InterruptStaleRun, TypeOK, RunRow
        <5>2. QED
          BY <5>1 DEF OutcomeInLedger
      <4>2. CASE UNCHANGED rowVars
        BY <4>2 DEF OutcomeInv, OutcomeInLedger, rowVars
      <4>3. QED
        BY <2>2, <4>1, <4>2 DEF Follow, GetRun, NotStale, List, Yield
    <3>3. QED
      BY <3>1, <3>2, OutcomeKept
  <2>3. ASSUME NEW r \in Requests, Consume(r) \/ FailOwnedRun(r) \/ Heartbeat(r) PROVE OutcomeInv'
    BY <2>3, ConsumeOutcome, FailOwnedRunOutcome, HeartbeatOutcome
  <2>4. CASE OrphanCommits
    <3>1. PICK call \in orphans : Commit(call) /\ orphans' = orphans \ {call}
      BY <2>4 DEF OrphanCommits
    <3>2. call \in Calls /\ Backed(call)
      BY DEF TypeOK, OutcomeInv
    <3>3. events \subseteq events' /\ OutcomeInLedger'
      BY <3>1, <3>2, CommitType, CommitOutcome DEF OutcomeInv
    <3>4. QED
      BY <2>4, <3>1, <3>3, OutcomeKept DEF OrphanCommits
  <2>5. CASE OrphanRaises
    <3>1. orphans' \subseteq orphans /\ UNCHANGED <<rowVars, task, terminal>>
      BY <2>5 DEF OrphanRaises
    <3>2. QED
      BY <3>1, OutcomeKept DEF OutcomeInv, OutcomeInLedger, rowVars
  <2>6. ASSUME NEW r \in Requests, Disconnect(r) PROVE OutcomeInv'
    BY <2>6, OutcomeKept DEF Disconnect, OutcomeInv, OutcomeInLedger, rowVars, prodVars
  <2>7. ASSUME NEW r \in Requests, ProduceStops(r) PROVE OutcomeInv'
    <3>1. \A x \in Requests : \/ task'[x] = task[x] /\ terminal'[x] = terminal[x]
                             \/ /\ \A d \in Coroutines : task'[x][d] = "ended"
                                /\ terminal'[x] = "none"
      BY <2>7 DEF ProduceStops, TypeOK
    <3>2. \A x \in Requests : Prepared(x)'
      BY <2>7, <3>1, EndsPrepared DEF ProduceStops, OutcomeInv, rowVars
    <3>3. QED
      BY <2>7, <3>2, OutcomeOrphaned DEF ProduceStops
  <2>8. ASSUME NEW p \in Processes, Crash(p) PROVE OutcomeInv'
    <3>1. \A x \in Requests : \/ task'[x] = task[x] /\ terminal'[x] = terminal[x]
                             \/ /\ \A d \in Coroutines : task'[x][d] = "ended"
                                /\ terminal'[x] = "none"
      BY <2>8 DEF Crash
    <3>2. \A x \in Requests : Prepared(x)'
      BY <2>8, <3>1, EndsPrepared DEF Crash, OutcomeInv, rowVars
    <3>3. UNCHANGED rowVars /\ orphans' \subseteq orphans
      BY <2>8 DEF Crash
    <3>4. QED
      BY <3>2, <3>3, OutcomeOrphaned
  <2>9. ASSUME NEW p \in Processes, Shutdown(p) PROVE OutcomeInv'
    <3>1. UNCHANGED <<rowVars, terminal>> /\ Orphaned(Waiting(p)) /\ Waiting(p) \in SUBSET Requests
      BY <2>9 DEF Shutdown, Waiting, Served
    <3>2. \A x \in Requests : \/ task'[x] = task[x]
                             \/ \A d \in Coroutines : task'[x][d] \in {"ended", "reporting"}
      BY <2>9 DEF Shutdown
    <3>3. \A x \in Requests : Prepared(x)'
      BY <3>1, <3>2, EndsPrepared DEF OutcomeInv, rowVars
    <3>4. QED
      BY <3>1, <3>3, OutcomeOrphaned
  <2>10. CASE DeleteConversation \/ Tick
    <3>1. /\ UNCHANGED <<events, task, terminal, orphans>>
          /\ run'.status \in {run.status, "deleted"}
      BY <2>10 DEF DeleteConversation, Tick, prodVars, TypeOK, RunRow
    <3>2. QED
      BY <3>1, OutcomeKept DEF OutcomeInv, OutcomeInLedger
  <2>11. CASE UNCHANGED vars
    BY <2>11, OutcomeKept DEF vars, prodVars, rowVars, OutcomeInv, OutcomeInLedger
  <2>12. QED
    BY <2>1, <2>2, <2>3, <2>4, <2>5, <2>6, <2>7, <2>8, <2>9, <2>10, <2>11 DEF Next
<1>3. QED
  BY <1>1, <1>2, TypeCorrect, PTL DEF Spec

(* A completed run has a done event in its ledger and a failed one an error *)
(* event, whichever coroutine, orphaned thread or subscriber finished it.   *)
THEOREM OutcomeIsInLedger == Spec => []OutcomeInLedger
<1>1. OutcomeInv => OutcomeInLedger
  BY DEF OutcomeInv
<1>2. QED
  BY <1>1, OutcomeIsBacked, PTL

(* The ledger, both ways.                                                  *)
THEOREM LedgerIsSound == Spec => []LedgerSound
  BY LedgerIsContiguous, OutcomeIsInLedger, PTL DEF LedgerSound

-----------------------------------------------------------------------------
(* The lease of a producer that keeps up with the clock.                   *)

(* It outlasts the sleep of the owner's heartbeat.                         *)
LeaseInv ==
    \A r \in Requests : Owns(r) =>
        /\ pc[r] = "track" => run.lease = Lease
        /\ task[r]["heartbeat"] = "sleeping" => run.lease >= nap[r]
        /\ task[r]["heartbeat"] = "renewing" => run.lease >= 0

(* What the steps other than the claim and the clock do to the row.        *)
LeaseMoves ==
    run'.status = "running" =>
        /\ run.status = "running" /\ run'.token = run.token
        /\ run'.lease \in {run.lease, Lease}

LEMMA CommitLease ==
    ASSUME TypeOK, Timely, NEW call \in Calls, Commit(call)
    PROVE  LeaseMoves /\ (Owns(call.tok) /\ call.op = "renew" => run'.lease = Lease)
<1>1. CASE ~Owns(call.tok)
  BY <1>1 DEF Commit, rowVars, LeaseMoves
<1>2. CASE Owns(call.tok) /\ call.op = "append" /\ AppendEvent(call.arg)
  BY <1>2 DEF AppendEvent, TypeOK, RunRow, LeaseMoves, Owns
<1>3. CASE Owns(call.tok) /\ call.op = "finish" /\ Finish(call.arg)
  <2>1. call.arg # "running"
    BY <1>3 DEF Calls, TerminalStatus
  <2>2. QED
    BY <1>3, <2>1 DEF Finish, TypeOK, RunRow, LeaseMoves
<1>4. CASE Owns(call.tok) /\ call.op = "renew" /\ RenewLease
  BY <1>4 DEF RenewLease, Stamps, TypeOK, RunRow, LeaseMoves, Owns
<1>5. QED
  BY <1>1, <1>2, <1>3, <1>4 DEF Commit

LEMMA LeaseKept ==
    ASSUME TypeOK, TypeOK', Interval <= Lease, LeaseInv, LeaseMoves,
           \A x \in Requests :
              /\ pc'[x] = "track" => pc[x] = "track"
              /\ task'[x]["heartbeat"] = "sleeping" =>
                    \/ task[x]["heartbeat"] = "sleeping" /\ nap'[x] = nap[x]
                    \/ Owns(x) => run'.lease = Lease
              /\ task'[x]["heartbeat"] = "renewing" =>
                    \/ task[x]["heartbeat"] = "renewing"
                    \/ task[x]["heartbeat"] = "sleeping" /\ nap[x] = 0
    PROVE  LeaseInv'
<1> SUFFICES ASSUME NEW r \in Requests, Owns(r)'
             PROVE  /\ pc'[r] = "track" => run'.lease = Lease
                    /\ task'[r]["heartbeat"] = "sleeping" => run'.lease >= nap'[r]
                    /\ task'[r]["heartbeat"] = "renewing" => run'.lease >= 0
  BY DEF LeaseInv
<1>1. Owns(r) /\ run'.lease \in {run.lease, Lease}
  BY DEF Owns, LeaseMoves
<1>2. /\ nap'[r] \in 0 .. Interval /\ Lease \in Nat /\ Interval \in Nat
      /\ run.lease \in Int /\ nap[r] \in 0 .. Interval
  BY StreamAssumption DEF TypeOK, RunRow, NoLease
<1>3. pc'[r] = "track" => run'.lease = Lease
  BY <1>1 DEF LeaseInv
<1>4. task'[r]["heartbeat"] = "sleeping" => run'.lease >= nap'[r]
  <2>1. CASE run'.lease = Lease
    BY <1>2, <2>1
  <2>2. CASE run'.lease = run.lease /\ task[r]["heartbeat"] = "sleeping" /\ nap'[r] = nap[r]
    BY <1>1, <2>2 DEF LeaseInv
  <2>3. QED
    BY <1>1, <2>1, <2>2
<1>5. task'[r]["heartbeat"] = "renewing" => run'.lease >= 0
  <2>1. CASE run'.lease = Lease
    BY <1>2, <2>1
  <2>2. CASE run'.lease = run.lease
    BY <1>1, <1>2, <2>2 DEF LeaseInv
  <2>3. QED
    BY <1>1, <2>1, <2>2
<1>6. QED
  BY <1>3, <1>4, <1>5

(* The lease of a handler's claim covers the start of its producer.        *)
LEMMA AttachLease ==
    ASSUME TypeOK, TypeOK', Timely, Interval <= Lease, ClaimInv, LeaseInv,
           NEW r \in Requests, Attach(r)
    PROVE  LeaseInv'
<1>1. CASE Arrive(r) \/ BeginOrGet(r) \/ InsertConflicts(r) \/ ClaimTaken(r)
  <2>1. UNCHANGED <<run, task, nap>>
    BY <1>1 DEF Arrive, BeginOrGet, InsertConflicts, ClaimTaken, rowVars, prodVars
  <2>2. Found(r) # "track"
    BY DEF Found
  <2>3. \A x \in Requests : pc'[x] = "track" => pc[x] = "track"
    BY <1>1, <2>2 DEF Arrive, BeginOrGet, InsertConflicts, ClaimTaken, Goto, TypeOK
  <2>4. QED
    BY <2>1, <2>3 DEF LeaseInv, Owns
<1>2. CASE InsertPending(r)
  <2>1. run'.status = "pending"
    BY <1>2 DEF InsertPending, TypeOK, RunRow
  <2>2. QED
    BY <2>1 DEF LeaseInv, Owns
<1>3. CASE ClaimPending(r)
  <2>1. run'.token = r /\ run'.lease = Lease
    BY <1>3 DEF ClaimPending, Stamps, TypeOK, RunRow
  <2>2. task' = task /\ run.token = NoToken
    BY <1>3 DEF ClaimPending, ClaimInv, prodVars
  <2>3. task[r]["heartbeat"] = "none"
    BY <2>2, StreamAssumption DEF ClaimInv
  <2>4. QED
    BY <2>1, <2>2, <2>3 DEF LeaseInv, Owns
<1>4. CASE TrackProducer(r)
  <2>1. run' = run /\ pc[r] = "track" /\ pc' = [pc EXCEPT ![r] = "poll"]
    BY <1>4 DEF TrackProducer, rowVars, Goto
  <2>2. Owns(r) => run.lease = Lease
    BY <2>1 DEF LeaseInv
  <2>3. nap'[r] \in 0 .. Interval /\ Interval \in Nat /\ Lease \in Nat
    BY StreamAssumption DEF TypeOK
  <2>4. \A x \in Requests \ {r} : Owns(x)' => ~Owns(r)
    BY <2>1 DEF Owns
  <2>5. \A x \in Requests \ {r} : task'[x] = task[x] /\ nap'[x] = nap[x] /\ pc'[x] = pc[x]
    <3>1. \A x \in Requests \ {r} : pc'[x] = pc[x]
      BY <2>1 DEF TypeOK
    <3>2. \A x \in Requests \ {r} : task'[x] = task[x] /\ nap'[x] = nap[x]
      <4>1. CASE Tracked(Home[r])
        BY <1>4, <4>1 DEF TrackProducer
      <4>2. CASE ~Tracked(Home[r])
        <5>1. /\ \E started : task' = [task EXCEPT ![r] = started]
              /\ nap' = [nap EXCEPT ![r] = Interval]
          BY <1>4, <4>2 DEF TrackProducer
        <5>2. QED
          BY <5>1 DEF TypeOK
      <4>3. QED
        BY <4>1, <4>2
    <3>3. QED
      BY <3>1, <3>2
  <2>6. ASSUME NEW x \in Requests \ {r}, Owns(x)'
        PROVE  /\ pc'[x] = "track" => run'.lease = Lease
               /\ task'[x]["heartbeat"] = "sleeping" => run'.lease >= nap'[x]
               /\ task'[x]["heartbeat"] = "renewing" => run'.lease >= 0
    BY <2>1, <2>5, <2>6 DEF LeaseInv, Owns
  <2>7. Owns(r)' => run'.lease >= nap'[r] /\ run'.lease >= 0 /\ pc'[r] # "track"
    BY <2>1, <2>2, <2>3 DEF Owns, TypeOK
  <2>8. QED
    BY <2>6, <2>7 DEF LeaseInv
<1>5. QED
  BY <1>1, <1>2, <1>3, <1>4 DEF Attach

(* A tick finds every heartbeat asleep with time left.                     *)
LEMMA TickLease ==
    ASSUME TypeOK, Timely, LeaseInv, Tick
    PROVE  LeaseInv'
<1> SUFFICES ASSUME NEW r \in Requests, Owns(r)'
             PROVE  /\ pc'[r] = "track" => run'.lease = Lease
                    /\ task'[r]["heartbeat"] = "sleeping" => run'.lease >= nap'[r]
                    /\ task'[r]["heartbeat"] = "renewing" => run'.lease >= 0
  BY DEF LeaseInv
<1>1. pc[r] # "track" /\ task[r]["heartbeat"] # "renewing"
      /\ (task[r]["heartbeat"] = "sleeping" => nap[r] > 0)
  BY DEF Tick, KeepsUp, At
<1>2. task' = task /\ pc' = pc /\ nap'[r] = (IF nap[r] > 0 THEN nap[r] - 1 ELSE 0)
  BY DEF Tick, reqVars
<1>3. /\ run'.status = run.status /\ run'.token = run.token
      /\ run'.lease = IF run.lease >= 0 THEN run.lease - 1 ELSE run.lease
  BY DEF Tick, TypeOK, RunRow
<1>4. Owns(r)
  BY <1>3 DEF Owns
<1>5. nap[r] \in Int /\ run.lease \in Int
  BY StreamAssumption DEF TypeOK, RunRow, NoLease
<1>6. ASSUME task[r]["heartbeat"] = "sleeping" PROVE run'.lease >= nap'[r]
  <2>1. run.lease >= nap[r] /\ nap[r] > 0
    BY <1>1, <1>4, <1>6 DEF LeaseInv
  <2>2. QED
    BY <1>2, <1>3, <1>5, <2>1
<1>7. QED
  BY <1>1, <1>2, <1>6

LEMMA HeartbeatLease ==
    ASSUME TypeOK, TypeOK', Timely, Interval <= Lease, LeaseInv, NEW r \in Requests, Heartbeat(r)
    PROVE  LeaseInv'
<1>1. UNCHANGED pc
  BY DEF Heartbeat, HeartbeatWakes, RenewReturns, RenewRaises, reqVars
<1>2. CASE HeartbeatWakes(r)
  <2>1. LeaseMoves
    BY <1>2 DEF HeartbeatWakes, rowVars, LeaseMoves
  <2>2. \A x \in Requests :
          \/ task'[x]["heartbeat"] = task[x]["heartbeat"] /\ nap'[x] = nap[x]
          \/ /\ task'[x]["heartbeat"] = "renewing"
             /\ task[x]["heartbeat"] = "sleeping" /\ nap[x] = 0
    BY <1>2 DEF HeartbeatWakes, At, Becomes, TypeOK, Coroutines
  <2>3. QED
    BY <1>1, <2>1, <2>2, LeaseKept
<1>3. CASE RenewReturns(r) \/ RenewRaises(r)
  <2>1. /\ Call(r, "renewing") \in Calls /\ Call(r, "renewing").op = "renew"
        /\ Call(r, "renewing").tok = r
    BY CallType DEF Call, Calling
  <2>2. LeaseMoves
    BY <1>3, <2>1, CommitLease DEF RenewReturns, RenewRaises, rowVars, LeaseMoves
  <2>3. RenewReturns(r) /\ Owns(r) => run'.lease = Lease
    BY <2>1, CommitLease DEF RenewReturns
  <2>4. \A x \in Requests \ {r} : task'[x] = task[x] /\ nap'[x] = nap[x]
    BY <1>3 DEF RenewReturns, RenewRaises, Becomes, TypeOK
  <2>5. \/ task'[r]["heartbeat"] = "ended"
        \/ task'[r]["heartbeat"] = "sleeping" /\ RenewReturns(r)
    BY <1>3 DEF RenewReturns, RenewRaises, Becomes, TypeOK, Coroutines
  <2>6. QED
    BY <1>1, <2>2, <2>3, <2>4, <2>5, LeaseKept
<1>4. QED
  BY <1>2, <1>3 DEF Heartbeat

(* When everyone keeps up with the clock, the owner's lease lasts at least *)
(* until its heartbeat wakes, and through the renewal that follows.        *)
THEOREM LeaseOutlastsSleep ==
    ASSUME Timely, Interval <= Lease
    PROVE  Spec => []LeaseInv
<1>1. Init => LeaseInv
  BY DEF Init, LeaseInv, Owns
<1>2. TypeOK /\ TypeOK' /\ ClaimInv /\ LeaseInv /\ [Next]_vars => LeaseInv'
  <2> SUFFICES ASSUME TypeOK, TypeOK', ClaimInv, LeaseInv, [Next]_vars PROVE LeaseInv'
    OBVIOUS
  <2>1. ASSUME NEW r \in Requests, Attach(r) PROVE LeaseInv'
    BY <2>1, AttachLease
  <2>2. ASSUME NEW r \in Requests, Follow(r) PROVE LeaseInv'
    <3>1. UNCHANGED <<task, nap>>
      BY <2>2 DEF Follow, GetRun, InterruptStaleRun, NotStale, List, Yield, prodVars
    <3>2. LeaseMoves
      <4>1. CASE InterruptStaleRun(r)
        BY <4>1 DEF InterruptStaleRun, TypeOK, RunRow, LeaseMoves
      <4>2. CASE UNCHANGED rowVars
        BY <4>2 DEF rowVars, LeaseMoves
      <4>3. QED
        BY <2>2, <4>1, <4>2 DEF Follow, GetRun, NotStale, List, Yield
    <3>3. \A x \in Requests : pc'[x] = "track" => pc[x] = "track"
      BY <2>2 DEF Follow, GetRun, InterruptStaleRun, NotStale, List, Yield, Goto, TypeOK
    <3>4. QED
      BY <3>1, <3>2, <3>3, LeaseKept
  <2>3. ASSUME NEW r \in Requests, Consume(r) \/ FailOwnedRun(r) PROVE LeaseInv'
    <3>1. UNCHANGED <<pc, nap>>
      BY <2>3 DEF Consume, SourceYields, SourceEnds, SourceRaises, AppendReturns, FinishReturns,
         ConsumerRaises, FailOwnedRun, ReportReturns, FailReturns, FailOwnedRunRaises, reqVars
    <3>2. \A x \in Requests : task'[x]["heartbeat"] = task[x]["heartbeat"]
      <4>1. \E c \in {"consumer", "produce"} : \E there : Becomes(r, c, there)
        BY <2>3 DEF Consume, SourceYields, SourceEnds, SourceRaises, AppendReturns, FinishReturns,
           ConsumerRaises, FailOwnedRun, ReportReturns, FailReturns, FailOwnedRunRaises
      <4>2. QED
        BY <4>1 DEF Becomes, TypeOK, Coroutines
    <3>3. LeaseMoves
      BY <2>3, ProducerStepCommits, CommitLease DEF ProducerStep, rowVars, LeaseMoves
    <3>4. QED
      BY <3>1, <3>2, <3>3, LeaseKept
  <2>4. ASSUME NEW r \in Requests, Heartbeat(r) PROVE LeaseInv'
    BY <2>4, HeartbeatLease
  <2>5. CASE OrphanCommits \/ OrphanRaises
    <3>1. UNCHANGED <<pc, nap, task>>
      BY <2>5 DEF OrphanCommits, OrphanRaises, reqVars
    <3>2. LeaseMoves
      BY <2>5, ProducerStepCommits, CommitLease DEF ProducerStep, rowVars, LeaseMoves
    <3>3. QED
      BY <3>1, <3>2, LeaseKept
  <2>6. ASSUME NEW r \in Requests, Disconnect(r) \/ ProduceStops(r) PROVE LeaseInv'
    <3>1. \A x \in Requests : pc'[x] \in {pc[x], "gone"} /\ nap'[x] = nap[x]
      BY <2>6 DEF Disconnect, Forget, ProduceStops, prodVars, reqVars
    <3>2. \A x \in Requests : task'[x]["heartbeat"] \in {task[x]["heartbeat"], "ended"}
      <4>1. \/ task' = task
            \/ task' = [task EXCEPT ![r] = [c \in Coroutines |-> "ended"]]
        BY <2>6 DEF Disconnect, ProduceStops, prodVars
      <4>2. "heartbeat" \in Coroutines
        BY DEF Coroutines
      <4>3. CASE task' = [task EXCEPT ![r] = [c \in Coroutines |-> "ended"]]
        <5>1. task'[r]["heartbeat"] = "ended"
          BY <4>2, <4>3 DEF TypeOK
        <5>2. \A x \in Requests \ {r} : task'[x] = task[x]
          BY <4>3 DEF TypeOK
        <5>3. QED
          BY <5>1, <5>2
      <4>4. QED
        BY <4>1, <4>3
    <3>3. LeaseMoves
      BY <2>6 DEF Disconnect, ProduceStops, rowVars, LeaseMoves
    <3>4. QED
      BY <3>1, <3>2, <3>3, LeaseKept
  <2>7. ASSUME NEW p \in Processes, Crash(p) \/ Shutdown(p) PROVE LeaseInv'
    <3>1. \A x \in Requests : pc'[x] \in {pc[x], "gone"} /\ nap'[x] = nap[x]
      BY <2>7 DEF Crash, Shutdown, Forget
    <3>2. \A x \in Requests : task'[x]["heartbeat"] \in {task[x]["heartbeat"], "ended"}
      BY <2>7 DEF Crash, Shutdown, TypeOK, Coroutines
    <3>3. LeaseMoves
      BY <2>7 DEF Crash, Shutdown, rowVars, LeaseMoves
    <3>4. QED
      BY <3>1, <3>2, <3>3, LeaseKept
  <2>8. CASE DeleteConversation
    <3>1. run'.status = "deleted"
      BY <2>8 DEF DeleteConversation, TypeOK, RunRow
    <3>2. QED
      BY <3>1 DEF LeaseInv, Owns
  <2>9. CASE Tick
    BY <2>9, TickLease
  <2>10. CASE UNCHANGED vars
    BY <2>10 DEF vars, rowVars, reqVars, prodVars, LeaseInv, Owns
  <2>11. QED
    BY <2>1, <2>2, <2>3, <2>4, <2>5, <2>6, <2>7, <2>8, <2>9, <2>10 DEF Next
<1>3. QED
  BY <1>1, <1>2, TypeCorrect, ClaimIsExclusive, PTL DEF Spec

(* If the heartbeat sleeps no longer than a lease lasts and everyone keeps  *)
(* up with the clock, no producer that is at work is interrupted.          *)
THEOREM LiveProducerIsSafe ==
    ASSUME Timely, Interval <= Lease
    PROVE  Spec => []LiveProducerKeepsLease
<1>1. TypeOK /\ LeaseInv => LiveProducerKeepsLease
  <2> SUFFICES ASSUME TypeOK, LeaseInv, NEW r \in Requests, Owns(r),
                      At(r, "heartbeat", "sleeping") \/ At(r, "heartbeat", "renewing")
               PROVE  ~Stale
    BY DEF LiveProducerKeepsLease
  <2>1. run.lease \in Int /\ nap[r] \in Nat
    BY StreamAssumption DEF TypeOK, RunRow, NoLease
  <2>2. run.lease >= nap[r] \/ run.lease >= 0
    BY DEF LeaseInv, At
  <2>3. QED
    BY <2>1, <2>2 DEF Stale
<1>2. QED
  BY <1>1, TypeCorrect, LeaseOutlastsSleep, PTL

-----------------------------------------------------------------------------
(* What the subscribers receive.                                           *)

(* A step that leaves the subscribers alone, whatever it appends.          *)
LEMMA DeliveryKept ==
    ASSUME TypeOK, TypeOK', LedgerContiguous, DeliveryInv, RowMoves,
           UNCHANGED <<after, cursor, batch, got>>,
           \A r \in Requests : pc'[r] = "idle" => pc[r] = "idle"
    PROVE  DeliveryInv'
<1>1. IsFiniteSet(events') /\ events \subseteq events'
  <2>1. IsFiniteSet(events)
    BY DEF DeliveryInv
  <2>2. CASE events' = events
    BY <2>1, <2>2
  <2>3. ASSUME NEW k \in Kinds, Added(k) PROVE IsFiniteSet(events') /\ events \subseteq events'
    <3>1. events' = events \cup {[seq |-> run.seq + 1, kind |-> k]}
      BY <2>3 DEF Added
    <3>2. QED
      BY <2>1, <3>1, FS_AddElement
  <2>4. QED
    BY <2>2, <2>3 DEF RowMoves
<1>2. \A f \in events' : f \in events \/ f.seq = run.seq + 1
  BY DEF RowMoves, Added
<1>3. ASSUME NEW e \in events PROVE e.seq \in Nat /\ e.seq <= run.seq
  <2>1. e.seq \in 1 .. run.seq
    BY DEF LedgerContiguous
  <2>2. run.seq \in Nat
    BY DEF TypeOK, RunRow
  <2>3. QED
    BY <2>1, <2>2
<1>4. ASSUME NEW r \in Requests PROVE DeliveredTo(r)'
  <2>1. DeliveredTo(r)
    BY DEF DeliveryInv
  <2>2. batch[r] \subseteq events
    BY DEF TypeOK
  <2>3. ASSUME NEW e \in batch[r], NEW f \in events', cursor[r] < f.seq, f.seq < e.seq
        PROVE  f \in batch[r]
    <3>1. f \in events
      BY <1>2, <1>3, <2>2, <2>3 DEF TypeOK, RunRow
    <3>2. QED
      BY <2>1, <2>3, <3>1 DEF DeliveredTo
  <2>4. QED
    BY <1>1, <2>1, <2>3 DEF DeliveredTo
<1>5. QED
  BY <1>1, <1>4 DEF DeliveryInv

(* The rows that list_events returns leave none out before any of them.     *)
LEMMA ListIsPrefix ==
    ASSUME IsFiniteSet(events), events \subseteq Event, NEW n \in Nat,
           NEW e \in ListEvents(n), NEW f \in events, n < f.seq, f.seq < e.seq
    PROVE  f \in ListEvents(n)
<1> DEFINE Before(g) == {h \in events : n < h.seq /\ h.seq < g.seq}
<1>1. e \in events /\ run.status # "deleted" /\ Cardinality(Before(e)) < Batch
  BY DEF ListEvents
<1>2. \A h \in events : h.seq \in Nat
  BY DEF Event
<1>3. Before(f) \subseteq Before(e) /\ Before(e) \subseteq events
  BY <1>1, <1>2
<1>4. IsFiniteSet(Before(e))
  BY <1>3, FS_Subset
<1>5. Cardinality(Before(f)) <= Cardinality(Before(e)) /\ IsFiniteSet(Before(f))
  BY <1>3, <1>4, FS_Subset
<1>6. Cardinality(Before(f)) \in Nat /\ Cardinality(Before(e)) \in Nat
  BY <1>4, <1>5, FS_CardinalityType
<1>7. Cardinality(Before(f)) < Batch
  BY <1>1, <1>5, <1>6
<1>8. QED
  BY <1>1, <1>2, <1>7 DEF ListEvents

(* The smallest row listed is the one after the cursor.                    *)
LEMMA NextRow ==
    ASSUME TypeOK, LedgerContiguous, NEW r \in Requests, DeliveredTo(r),
           NEW e \in batch[r], \A f \in batch[r] : e.seq <= f.seq
    PROVE  e \in events /\ e.seq = cursor[r] + 1
<1>1. e \in events /\ e.seq \in 1 .. run.seq /\ run.seq \in Nat /\ cursor[r] \in Nat
  BY DEF TypeOK, RunRow, LedgerContiguous
<1>2. cursor[r] < e.seq
  BY <1>1 DEF DeliveredTo
<1>3. cursor[r] + 1 \in 1 .. run.seq
  BY <1>1, <1>2
<1>4. PICK f \in events : f.seq = cursor[r] + 1
  BY <1>3 DEF LedgerContiguous
<1>5. ~(f.seq < e.seq)
  <2> SUFFICES ASSUME f.seq < e.seq PROVE FALSE
    OBVIOUS
  <2>1. f \in batch[r]
    BY <1>1, <1>4 DEF DeliveredTo
  <2>2. QED
    BY <1>1, <1>4, <2>1
<1>6. QED
  BY <1>1, <1>2, <1>4, <1>5

(* A row yielded extends what was delivered.                               *)
LEMMA YieldDelivers ==
    ASSUME TypeOK, LedgerContiguous, DeliveryInv, NEW r \in Requests, Yield(r)
    PROVE  DeliveryInv'
<1>1. PICK e \in batch[r] :
          /\ \A f \in batch[r] : e.seq <= f.seq
          /\ cursor' = [cursor EXCEPT ![r] = e.seq]
          /\ got' = [got EXCEPT ![r] = Append(@, e)]
          /\ batch' = [batch EXCEPT ![r] = @ \ {e}]
          /\ pc' = [pc EXCEPT ![r] = IF batch[r] = {e} THEN "poll" ELSE "yield"]
  BY DEF Yield
<1>2. UNCHANGED <<events, after>>
  BY DEF Yield, rowVars
<1>3. DeliveredTo(r) /\ batch[r] \subseteq events
  BY DEF DeliveryInv, TypeOK
<1>4. e \in events /\ e.seq = cursor[r] + 1
  BY <1>1, <1>3, NextRow
<1>5. /\ got'[r] = Append(got[r], e) /\ cursor'[r] = e.seq /\ batch'[r] = batch[r] \ {e}
      /\ pc'[r] # "idle"
  BY <1>1 DEF TypeOK
<1>6. \A f \in events : f.seq \in Nat
  BY DEF TypeOK, Event
<1>7. got[r] \in Seq(Event) /\ e \in Event /\ after[r] \in Nat /\ cursor[r] \in Nat
  BY <1>4 DEF TypeOK
<1>8. /\ Len(got'[r]) = Len(got[r]) + 1
      /\ \A i \in 1 .. Len(got'[r]) :
            got'[r][i] = IF i = Len(got[r]) + 1 THEN e ELSE got[r][i]
  BY <1>5, <1>7
<1>9. cursor'[r] = after'[r] + Len(got'[r])
  BY <1>2, <1>3, <1>4, <1>5, <1>7, <1>8 DEF DeliveredTo
<1>10. \A i \in 1 .. Len(got'[r]) : got'[r][i] \in events' /\ got'[r][i].seq = after'[r] + i
  <2> SUFFICES ASSUME NEW i \in 1 .. Len(got'[r])
               PROVE  got'[r][i] \in events' /\ got'[r][i].seq = after'[r] + i
    OBVIOUS
  <2>1. CASE i = Len(got[r]) + 1
    <3>1. got'[r][i] = e
      BY <1>8, <2>1
    <3>2. cursor[r] = after[r] + Len(got[r]) /\ Len(got[r]) \in Nat
      BY <1>3, <1>7 DEF DeliveredTo
    <3>3. e.seq = after[r] + i
      BY <1>4, <1>7, <2>1, <3>2
    <3>4. QED
      BY <1>2, <1>4, <3>1, <3>3
  <2>2. CASE i # Len(got[r]) + 1
    <3>1. i \in 1 .. Len(got[r])
      <4>1. Len(got[r]) \in Nat /\ i \in 1 .. (Len(got[r]) + 1)
        BY <1>7, <1>8
      <4>2. QED
        BY <2>2, <4>1
    <3>2. QED
      BY <1>2, <1>3, <1>8, <2>2, <3>1 DEF DeliveredTo
  <2>3. QED
    BY <2>1, <2>2
<1>11. \A f \in batch'[r] : f.seq > cursor'[r]
  BY <1>1, <1>3, <1>4, <1>5, <1>6 DEF LedgerContiguous
<1>12. \A g \in batch'[r], f \in events' : cursor'[r] < f.seq /\ f.seq < g.seq => f \in batch'[r]
  <2> SUFFICES ASSUME NEW g \in batch'[r], NEW f \in events', cursor'[r] < f.seq, f.seq < g.seq
               PROVE  f \in batch'[r]
    OBVIOUS
  <2>1. g \in batch[r] /\ f \in events /\ cursor[r] < f.seq /\ f # e
    BY <1>2, <1>4, <1>5, <1>6, <1>7
  <2>2. f \in batch[r]
    BY <1>3, <2>1 DEF DeliveredTo
  <2>3. QED
    BY <1>5, <2>1, <2>2
<1>13. DeliveredTo(r)'
  BY <1>5, <1>9, <1>10, <1>11, <1>12 DEF DeliveredTo
<1>14. \A x \in Requests \ {r} : DeliveredTo(x)'
  <2> SUFFICES ASSUME NEW x \in Requests \ {r} PROVE DeliveredTo(x)'
    OBVIOUS
  <2>1. got'[x] = got[x] /\ cursor'[x] = cursor[x] /\ batch'[x] = batch[x] /\ pc'[x] = pc[x]
    BY <1>1 DEF TypeOK
  <2>2. DeliveredTo(x)
    BY DEF DeliveryInv
  <2>3. QED
    BY <1>2, <2>1, <2>2 DEF DeliveredTo
<1>15. QED
  BY <1>2, <1>13, <1>14 DEF DeliveryInv

(* Attaching moves one handler, which has no subscription yet.             *)
LEMMA AttachFrame ==
    ASSUME TypeOK, NEW r \in Requests, Attach(r)
    PROVE  /\ UNCHANGED <<snap, batch, got>>
           /\ Arrive(r) \/ UNCHANGED <<after, cursor>>
           /\ pc[r] # "closed" /\ pc'[r] \notin {"idle", "closed"}
           /\ \A x \in Requests \ {r} :
                 pc'[x] = pc[x] /\ cursor'[x] = cursor[x] /\ after'[x] = after[x]
<1> USE DEF Goto, TypeOK, readVars
<1>1. CASE Arrive(r)
  BY <1>1 DEF Arrive
<1>2. Found(r) \notin {"idle", "closed"}
  BY DEF Found
<1>3. CASE BeginOrGet(r)
  BY <1>2, <1>3 DEF BeginOrGet
<1>4. CASE InsertPending(r)
  BY <1>4 DEF InsertPending
<1>5. CASE InsertConflicts(r)
  BY <1>2, <1>5 DEF InsertConflicts
<1>6. CASE ClaimPending(r)
  BY <1>6 DEF ClaimPending
<1>7. CASE ClaimTaken(r)
  BY <1>7 DEF ClaimTaken
<1>8. CASE TrackProducer(r)
  BY <1>8 DEF TrackProducer
<1>9. QED
  BY <1>1, <1>3, <1>4, <1>5, <1>6, <1>7, <1>8 DEF Attach

THEOREM DeliveryIsExact == Spec => []DeliveryInv
<1>1. Init => DeliveryInv
  <2>1. IsFiniteSet({})
    BY FS_EmptySet
  <2>2. QED
    BY <2>1 DEF Init, DeliveryInv, DeliveredTo
<1>2. ASSUME TypeOK, TypeOK', LedgerContiguous, DeliveryInv, [Next]_vars
      PROVE  DeliveryInv'
  <2>1. RowMoves
    BY <1>2, NextMoves
  <2>2. ASSUME UNCHANGED <<after, cursor, batch, got>>,
               \A r \in Requests : pc'[r] = "idle" => pc[r] = "idle"
        PROVE  DeliveryInv'
    BY <1>2, <2>1, <2>2, DeliveryKept
  <2>3. ASSUME NEW r \in Requests, Attach(r) PROVE DeliveryInv'
    <3>1. CASE Arrive(r)
      <4>1. /\ UNCHANGED <<events, after>> \/ after'[r] = cursor'[r]
            /\ UNCHANGED <<events, batch, got>> /\ pc[r] = "idle" /\ pc'[r] = "begin"
            /\ after'[r] = cursor'[r]
        BY <1>2, <3>1 DEF Arrive, Goto, TypeOK, rowVars
      <4>2. \A x \in Requests \ {r} :
                after'[x] = after[x] /\ cursor'[x] = cursor[x] /\ pc'[x] = pc[x]
        BY <1>2, <3>1 DEF Arrive, Goto, TypeOK
      <4>3. got[r] = <<>> /\ batch[r] = {} /\ cursor'[r] \in Nat
        BY <1>2, <4>1 DEF DeliveryInv, DeliveredTo, TypeOK
      <4>4. DeliveredTo(r)'
        BY <4>1, <4>3 DEF DeliveredTo
      <4>5. \A x \in Requests \ {r} : DeliveredTo(x)'
        BY <1>2, <4>1, <4>2 DEF DeliveryInv, DeliveredTo
      <4>6. QED
        BY <1>2, <4>1, <4>4, <4>5 DEF DeliveryInv
    <3>2. CASE ~Arrive(r)
      <4>1. UNCHANGED <<after, cursor, batch, got>>
        BY <1>2, <2>3, <3>2, AttachFrame
      <4>2. \A x \in Requests : pc'[x] = "idle" => pc[x] = "idle"
        BY <1>2, <2>3, AttachFrame
      <4>3. QED
        BY <2>2, <4>1, <4>2
    <3>3. QED
      BY <3>1, <3>2
  <2>4. ASSUME NEW r \in Requests, Follow(r) PROVE DeliveryInv'
    <3>1. CASE GetRun(r) \/ InterruptStaleRun(r) \/ NotStale(r)
      <4>1. \A x \in Requests : pc'[x] = "idle" => pc[x] = "idle"
        BY <1>2, <3>1 DEF GetRun, InterruptStaleRun, NotStale, Goto, TypeOK
      <4>2. QED
        BY <2>2, <3>1, <4>1 DEF GetRun, InterruptStaleRun, NotStale
    <3>2. CASE List(r)
      <4>1. /\ UNCHANGED <<events, after, cursor, got>>
            /\ batch'[r] = ListEvents(cursor[r]) /\ pc'[r] # "idle"
            /\ \A x \in Requests \ {r} : batch'[x] = batch[x] /\ pc'[x] = pc[x]
        BY <1>2, <3>2 DEF List, TypeOK, rowVars
      <4>2. \A e \in ListEvents(cursor[r]) : e.seq > cursor[r]
        BY DEF ListEvents
      <4>3. \A e \in ListEvents(cursor[r]), f \in events :
                cursor[r] < f.seq /\ f.seq < e.seq => f \in ListEvents(cursor[r])
        BY <1>2, ListIsPrefix DEF DeliveryInv, TypeOK
      <4>4. DeliveredTo(r)'
        BY <1>2, <4>1, <4>2, <4>3 DEF DeliveryInv, DeliveredTo
      <4>5. \A x \in Requests \ {r} : DeliveredTo(x)'
        BY <1>2, <4>1 DEF DeliveryInv, DeliveredTo
      <4>6. QED
        BY <1>2, <4>1, <4>4, <4>5 DEF DeliveryInv
    <3>3. CASE Yield(r)
      BY <1>2, <3>3, YieldDelivers
    <3>4. QED
      BY <2>4, <3>1, <3>2, <3>3 DEF Follow
  <2>5. CASE ProducerStep
    BY <2>2, <2>5, ProducerFrame DEF reqVars, readVars
  <2>6. CASE DropsHandlers
    <3>1. ASSUME NEW r \in Requests PROVE DeliveredTo(r)'
      <4>1. DeliveredTo(r) /\ after[r] \in Nat
        BY <1>2 DEF DeliveryInv, TypeOK
      <4>2. UNCHANGED <<events, after>>
        BY <2>6 DEF DropsHandlers, rowVars
      <4>3. CASE /\ pc'[r] = pc[r] /\ cursor'[r] = cursor[r]
                 /\ batch'[r] = batch[r] /\ got'[r] = got[r]
        BY <4>1, <4>2, <4>3 DEF DeliveredTo
      <4>4. CASE pc'[r] = "gone" /\ cursor'[r] = after[r] /\ batch'[r] = {} /\ got'[r] = <<>>
        BY <4>1, <4>2, <4>4 DEF DeliveredTo
      <4>5. QED
        BY <2>6, <4>3, <4>4 DEF DropsHandlers
    <3>2. QED
      BY <1>2, <2>6, <3>1 DEF DropsHandlers, rowVars, DeliveryInv
  <2>7. CASE \E r \in Requests : ProduceStops(r)
    BY <2>2, <2>7 DEF ProduceStops, reqVars, readVars
  <2>8. CASE DeleteConversation \/ Tick
    BY <2>2, <2>8 DEF DeleteConversation, Tick, reqVars, readVars
  <2>9. CASE UNCHANGED vars
    BY <2>2, <2>9 DEF vars, reqVars, readVars
  <2>10. QED
    BY <1>2, <2>3, <2>4, <2>5, <2>6, <2>7, <2>8, <2>9, DropFrame DEF Next, ProducerStep
<1>3. QED
  BY <1>1, <1>2, TypeCorrect, LedgerIsContiguous, PTL DEF Spec

(* A subscriber that returned had read a final snapshot and all it says.    *)
THEOREM SnapshotsAreFinal == Spec => []FinalInv
<1>1. Init => FinalInv
  BY DEF Init, FinalInv, NoSnap, TerminalStatus
<1>2. ASSUME TypeOK, TypeOK', FinalInv, [Next]_vars PROVE FinalInv'
  <2>1. RowMoves
    BY <1>2, NextMoves
  <2>2. ASSUME \A r \in Requests :
                 /\ snap'[r].status \in TerminalStatus => snap'[r] = snap[r]
                 /\ pc'[r] = "closed" => pc[r] = "closed" /\ cursor'[r] = cursor[r]
        PROVE  FinalInv'
    BY <1>2, <2>1, <2>2 DEF FinalInv, RowMoves, TerminalStatus
  <2>3. ASSUME NEW r \in Requests, Attach(r) PROVE FinalInv'
    <3>1. /\ UNCHANGED snap /\ pc[r] # "closed" /\ pc'[r] # "closed"
          /\ \A x \in Requests \ {r} : pc'[x] = pc[x] /\ cursor'[x] = cursor[x]
      BY <1>2, <2>3, AttachFrame
    <3>2. QED
      BY <2>2, <3>1
  <2>4. ASSUME NEW r \in Requests, Follow(r) PROVE FinalInv'
    <3>1. CASE GetRun(r)
      <4>1. /\ UNCHANGED <<run, cursor>> /\ pc'[r] # "closed"
            /\ \A x \in Requests \ {r} : pc'[x] = pc[x] /\ snap'[x] = snap[x]
            /\ snap'[r] = snap[r] \/ snap'[r] = [status |-> run.status, seq |-> run.seq]
        BY <1>2, <3>1 DEF GetRun, TypeOK, rowVars
      <4>2. QED
        BY <1>2, <4>1 DEF FinalInv
    <3>2. CASE List(r)
      <4>1. /\ UNCHANGED <<run, cursor>> /\ snap'[r] = NoSnap
            /\ pc'[r] = "closed" => ReturnsAt(r)
            /\ \A x \in Requests \ {r} : pc'[x] = pc[x] /\ snap'[x] = snap[x]
        BY <1>2, <3>2 DEF List, TypeOK, rowVars
      <4>2. NoSnap.status \notin TerminalStatus
        BY DEF NoSnap, TerminalStatus
      <4>3. ReturnsAt(r) => run.status \in TerminalStatus \cup {"deleted"} /\ cursor[r] >= run.seq
        BY <1>2 DEF FinalInv, ReturnsAt
      <4>4. QED
        BY <1>2, <4>1, <4>2, <4>3 DEF FinalInv
    <3>3. CASE InterruptStaleRun(r) \/ NotStale(r) \/ Yield(r)
      <4>1. /\ UNCHANGED snap /\ pc'[r] # "closed"
            /\ \A x \in Requests \ {r} : pc'[x] = pc[x] /\ cursor'[x] = cursor[x]
        BY <1>2, <3>3 DEF InterruptStaleRun, NotStale, Yield, Goto, TypeOK
      <4>2. QED
        BY <2>2, <4>1
    <3>4. QED
      BY <2>4, <3>1, <3>2, <3>3 DEF Follow
  <2>5. CASE ProducerStep
    BY <2>2, <2>5, ProducerFrame DEF reqVars, readVars
  <2>6. CASE DropsHandlers
    BY <2>2, <2>6 DEF DropsHandlers, NoSnap, TerminalStatus
  <2>7. CASE \E r \in Requests : ProduceStops(r)
    BY <2>2, <2>7 DEF ProduceStops, reqVars, readVars
  <2>8. CASE DeleteConversation \/ Tick
    BY <2>2, <2>8 DEF DeleteConversation, Tick, reqVars, readVars
  <2>9. CASE UNCHANGED vars
    BY <2>2, <2>9 DEF vars, reqVars, readVars
  <2>10. QED
    BY <1>2, <2>3, <2>4, <2>5, <2>6, <2>7, <2>8, <2>9, DropFrame DEF Next, ProducerStep
<1>3. QED
  BY <1>1, <1>2, TypeCorrect, PTL DEF Spec

(* In order, exactly once, and whole when the subscription ends by itself.  *)
THEOREM SubscribersGetTheLedger == Spec => []ServesTheLedger
<1>1. DeliveryInv => DeliveredInOrder
  BY DEF DeliveryInv, DeliveredTo, DeliveredInOrder
<1>2. ASSUME TypeOK, LedgerContiguous, DeliveryInv, FinalInv PROVE ClosedIsComplete
  <2> SUFFICES ASSUME NEW r \in Requests, pc[r] = "closed",
                      NEW e \in events, e.seq > after[r]
               PROVE  \E i \in 1 .. Len(got[r]) : got[r][i] = e
    BY <1>2 DEF ClosedIsComplete, FinalInv
  <2>1. /\ e.seq \in 1 .. run.seq /\ run.seq \in Nat /\ after[r] \in Nat /\ cursor[r] \in Nat
        /\ Len(got[r]) \in Nat
    BY <1>2 DEF TypeOK, RunRow, LedgerContiguous
  <2>2. cursor[r] >= run.seq /\ cursor[r] = after[r] + Len(got[r])
    BY <1>2 DEF FinalInv, DeliveryInv, DeliveredTo
  <2>3. e.seq - after[r] \in 1 .. Len(got[r])
    BY <2>1, <2>2
  <2>4. got[r][e.seq - after[r]] \in events /\ got[r][e.seq - after[r]].seq = e.seq
    BY <1>2, <2>1, <2>3 DEF DeliveryInv, DeliveredTo
  <2>5. QED
    BY <1>2, <2>3, <2>4 DEF LedgerContiguous
<1>3. QED
  BY <1>1, <1>2, TypeCorrect, LedgerIsContiguous, DeliveryIsExact, SnapshotsAreFinal, PTL
     DEF ServesTheLedger
=============================================================================
