--------------------------- MODULE ChatStreamRun ---------------------------
(***************************************************************************)
(* Durable chat streams: services/chat_stream_run_service.py over          *)
(* repositories/chat_stream_repository.py.                                 *)
(*                                                                         *)
(* One idempotency key (owner, session, request id), so one row of         *)
(* chat_stream_runs and its rows of chat_stream_events; runs share nothing *)
(* else.  Each HTTP request attaches to the run, may win the claim and so  *)
(* start the producer, and then follows the ledger from its cursor.  The   *)
(* producer is three asyncio tasks (_produce, _consume_source, _heartbeat) *)
(* whose database calls run in threads: cancelling a task does not stop    *)
(* the thread, whose transaction may still commit later (an orphan).       *)
(*                                                                         *)
(* A request's uuid4 producer token is identified with the request: it     *)
(* draws at most one.  Payloads are abstracted to the kind of SSE event.   *)
(* lease_until is modelled by the time left to it (lease_until - now),     *)
(* which Tick counts down.                                                 *)
(***************************************************************************)
EXTENDS Integers, FiniteSets, Sequences

CONSTANTS
    Requests,       \* HTTP requests that carry the idempotency key
    Processes,      \* server processes (replicas, and restarts of one)
    Home,           \* the process that serves a request
    Fingerprint,    \* the hash of a request's conversation and payload
    NoToken,        \* producer_token IS NULL
    Lease,          \* CHAT_STREAM_RUN_LEASE_SECONDS, in ticks
    Interval,       \* max(1, lease / 3), in ticks; 0: a renewal may come any time
    Batch,          \* the limit of list_events
    MaxCursor,      \* bound: the largest Last-Event-ID a client presents
    MaxEvents,      \* bound: the source yields while the ledger is shorter
    Timely,         \* whether handlers and heartbeats keep up with the clock
    Faults          \* what the environment may do to the run

ASSUME StreamAssumption ==
    /\ Home \in [Requests -> Processes]
    /\ DOMAIN Fingerprint = Requests
    /\ NoToken \notin Requests
    /\ Lease \in Nat
    /\ Interval \in Nat
    /\ Batch \in Nat \ {0}
    /\ MaxCursor \in Nat
    /\ MaxEvents \in Nat
    /\ Timely \in BOOLEAN
    /\ Faults \subseteq {"crash", "shutdown", "database", "delete", "disconnect"}

VARIABLES
    run,        \* the row of chat_stream_runs
    events,     \* the rows of chat_stream_events
    pc,         \* where each request's handler is
    snap,       \* the last ChatStreamRunState a handler read
    after,      \* the Last-Event-ID a request presented
    cursor,     \* stream_events: the sequence last delivered
    batch,      \* stream_events: rows listed and not yet yielded
    got,        \* the rows yielded to a request so far, in order
    task,       \* the three coroutines of each request's producer
    chunk,      \* _consume_source: the event being appended
    terminal,   \* _consume_source: terminal_event
    nap,        \* _heartbeat: what is left of its sleep
    orphans     \* database calls whose coroutine was cancelled

rowVars == <<run, events>>
readVars == <<snap, after, cursor, batch, got>>
reqVars == <<pc, readVars>>
prodVars == <<task, chunk, terminal, nap, orphans>>
vars == <<rowVars, reqVars, prodVars>>

TerminalKinds == {"done", "error"}
Kinds == {"chunk"} \cup TerminalKinds
TerminalStatus == {"completed", "failed"}
NoLease == -2                       \* lease_until IS NULL
Expired == -1                       \* lease_until < now
Coroutines == {"produce", "consumer", "heartbeat"}
NoSnap == [status |-> "absent", seq |-> 0]
Gone == {"closed", "conflict", "notfound", "gone"}

Idle(r) == \A c \in Coroutines : task[r][c] \in {"none", "ended"}

(* A stamp now + lease is computed before the UPDATE gets the row, so time *)
(* may have passed when it commits.                                        *)
Stamps == IF Timely THEN {Lease} ELSE Expired .. Lease
-----------------------------------------------------------------------------
(* The transactions of the repository that present a producer token.       *)

\* Mutant: the producer token alone decides.
Owns_TokenOnly(t) == run.token = t

Owns(t) == run.status = "running" /\ run.token = t

AppendEvent(kind) ==
    /\ events' = events \cup {[seq |-> run.seq + 1, kind |-> kind]}
    /\ run' = [run EXCEPT !.seq = @ + 1, !.lease = Lease]

Finish(status) ==
    /\ run' = [run EXCEPT !.status = status, !.lease = NoLease]
    /\ UNCHANGED events

\* Mutant: the UPDATE renews the claim but leaves lease_until as it is.
RenewLease_NoExtension == UNCHANGED rowVars

RenewLease ==
    /\ \E left \in Stamps : run' = [run EXCEPT !.lease = left]
    /\ UNCHANGED events

(* The database call a coroutine is waiting for, by the coroutine's state.  *)
Calling == {"appending", "finishing", "reporting", "failing", "renewing"}

\* Mutant: the terminal event's name is stored as the status.
Call_RawTerminal(r, state) ==
    CASE state = "appending" -> [tok |-> r, op |-> "append", arg |-> chunk[r]]
      [] state = "finishing" -> [tok |-> r, op |-> "finish", arg |-> terminal[r]]
      [] state = "reporting" -> [tok |-> r, op |-> "append", arg |-> "error"]
      [] state = "failing" -> [tok |-> r, op |-> "finish", arg |-> "failed"]
      [] OTHER -> [tok |-> r, op |-> "renew", arg |-> "lease"]

Call(r, state) ==
    CASE state = "appending" -> [tok |-> r, op |-> "append", arg |-> chunk[r]]
      [] state = "finishing" ->
            [tok |-> r, op |-> "finish",
             arg |-> IF terminal[r] = "done" THEN "completed" ELSE "failed"]
      [] state = "reporting" -> [tok |-> r, op |-> "append", arg |-> "error"]
      [] state = "failing" -> [tok |-> r, op |-> "finish", arg |-> "failed"]
      [] OTHER -> [tok |-> r, op |-> "renew", arg |-> "lease"]

(* The transaction of a call; without the claim it changes nothing.         *)
Commit(call) ==
    IF Owns(call.tok)
    THEN \/ call.op = "append" /\ AppendEvent(call.arg)
         \/ call.op = "finish" /\ Finish(call.arg)
         \/ call.op = "renew" /\ RenewLease
    ELSE UNCHANGED rowVars

InFlight(r) == {Call(r, task[r][c]) :
                    c \in {x \in {"consumer", "heartbeat"} : task[r][x] \in Calling}}
-----------------------------------------------------------------------------
Init ==
    /\ run = [status |-> "absent", token |-> NoToken, lease |-> NoLease,
               seq |-> 0, fp |-> NoToken]
    /\ events = {}
    /\ pc = [r \in Requests |-> "idle"]
    /\ snap = [r \in Requests |-> NoSnap]
    /\ after = [r \in Requests |-> 0]
    /\ cursor = [r \in Requests |-> 0]
    /\ batch = [r \in Requests |-> {}]
    /\ got = [r \in Requests |-> <<>>]
    /\ task = [r \in Requests |-> [c \in Coroutines |-> "none"]]
    /\ chunk = [r \in Requests |-> "chunk"]
    /\ terminal = [r \in Requests |-> "none"]
    /\ nap = [r \in Requests |-> 0]
    /\ orphans = {}

Goto(r, here, there) == pc[r] = here /\ pc' = [pc EXCEPT ![r] = there]
-----------------------------------------------------------------------------
(* begin_or_attach, called by the endpoint.                                *)

Arrive(r) ==
    /\ Goto(r, "idle", "begin")
    /\ \E id \in 0 .. MaxCursor :
           /\ after' = [after EXCEPT ![r] = id]
           /\ cursor' = [cursor EXCEPT ![r] = id]
    /\ UNCHANGED <<rowVars, snap, batch, got, prodVars>>

\* Mutant: a run that exists is only ever followed.
Found_Follows(r) ==
    IF run.status = "deleted" THEN "notfound"
    ELSE IF run.fp # Fingerprint[r] THEN "conflict" ELSE "poll"

(* The row read by begin_or_get: a pending run is claimed, any other is     *)
(* followed, another fingerprint is a conflict; no run can be inserted for  *)
(* a conversation that was deleted.                                        *)
Found(r) ==
    IF run.status = "deleted" THEN "notfound"
    ELSE IF run.fp # Fingerprint[r] THEN "conflict"
    ELSE IF run.status = "pending" THEN "claim" ELSE "poll"

BeginOrGet(r) ==
    /\ Goto(r, "begin", IF run.status = "absent" THEN "insert" ELSE Found(r))
    /\ UNCHANGED <<rowVars, readVars, prodVars>>

InsertPending(r) ==
    /\ Goto(r, "insert", "claim")
    /\ run.status = "absent"
    /\ run' = [run EXCEPT !.status = "pending", !.fp = Fingerprint[r]]
    /\ UNCHANGED <<events, readVars, prodVars>>

(* IntegrityError: another request inserted the row since the read.         *)
InsertConflicts(r) ==
    /\ Goto(r, "insert", Found(r))
    /\ run.status # "absent"
    /\ UNCHANGED <<rowVars, readVars, prodVars>>

\* Mutant: a running run can be claimed again.
ClaimPending_Reclaims(r) ==
    /\ Goto(r, "claim", "track")
    /\ run.status \in {"pending", "running"}
    /\ \E left \in Stamps :
          run' = [run EXCEPT !.status = "running", !.token = r, !.lease = left]
    /\ UNCHANGED <<events, readVars, prodVars>>

ClaimPending(r) ==
    /\ Goto(r, "claim", "track")
    /\ run.status = "pending"
    /\ \E left \in Stamps :
          run' = [run EXCEPT !.status = "running", !.token = r, !.lease = left]
    /\ UNCHANGED <<events, readVars, prodVars>>

ClaimTaken(r) ==
    /\ Goto(r, "claim", "poll")
    /\ run.status # "pending"
    /\ UNCHANGED <<rowVars, readVars, prodVars>>

(* _tasks of the request's process holds a task that is not done.           *)
Tracked(p) ==
    \E t \in Requests : Home[t] = p /\ task[t]["produce"] \notin {"none", "ended"}

TrackProducer(r) ==
    /\ Goto(r, "track", "poll")
    /\ IF Tracked(Home[r]) THEN UNCHANGED <<task, nap>>
       ELSE /\ task' = [task EXCEPT ![r] =
                [c \in Coroutines |-> CASE c = "produce" -> "waiting"
                                       [] c = "consumer" -> "reading"
                                       [] OTHER -> "sleeping"]]
            /\ nap' = [nap EXCEPT ![r] = Interval]
    /\ UNCHANGED <<rowVars, readVars, chunk, terminal, orphans>>
-----------------------------------------------------------------------------
(* stream_events.                                                          *)

\* Mutant: the lease of the run is not looked at.
GetRun_NeverInterrupts(r) ==
    /\ Goto(r, "poll", IF run.status = "deleted" THEN "notfound" ELSE "list")
    /\ snap' = IF run.status = "deleted" THEN snap
               ELSE [snap EXCEPT ![r] = [status |-> run.status, seq |-> run.seq]]
    /\ UNCHANGED <<rowVars, after, cursor, batch, got, prodVars>>

GetRun(r) ==
    /\ pc[r] = "poll"
    /\ pc' = [pc EXCEPT ![r] = IF run.status = "deleted" THEN "notfound"
                               ELSE IF run.status = "running" /\ run.lease # NoLease
                                    THEN "interrupt" ELSE "list"]
    /\ snap' = IF run.status = "deleted" THEN snap
               ELSE [snap EXCEPT ![r] = [status |-> run.status, seq |-> run.seq]]
    /\ UNCHANGED <<rowVars, after, cursor, batch, got, prodVars>>

Stale == run.status = "running" /\ run.lease # NoLease /\ run.lease < 0

\* Mutant: last_event_sequence is not advanced.
InterruptStaleRun_KeepsSequence(r) ==
    /\ Goto(r, "interrupt", "poll")
    /\ Stale
    /\ events' = events \cup {[seq |-> run.seq + 1, kind |-> "error"]}
    /\ run' = [run EXCEPT !.status = "failed", !.lease = NoLease]
    /\ UNCHANGED <<snap, after, cursor, batch, got, prodVars>>

InterruptStaleRun(r) ==
    /\ Goto(r, "interrupt", "poll")
    /\ Stale
    /\ events' = events \cup {[seq |-> run.seq + 1, kind |-> "error"]}
    /\ run' = [run EXCEPT !.seq = @ + 1, !.status = "failed", !.lease = NoLease]
    /\ UNCHANGED <<snap, after, cursor, batch, got, prodVars>>

NotStale(r) ==
    /\ Goto(r, "interrupt", "list")
    /\ ~Stale
    /\ UNCHANGED <<rowVars, snap, after, cursor, batch, got, prodVars>>

\* Mutant: the row at the cursor is listed again.
ListEvents_FromCursor(after_sequence) ==
    IF run.status = "deleted" THEN {}
    ELSE {e \in events :
            /\ e.seq >= after_sequence
            /\ Cardinality({f \in events : after_sequence <= f.seq /\ f.seq < e.seq}) < Batch}

(* The first Batch rows after the cursor; none of a deleted run.            *)
ListEvents(after_sequence) ==
    IF run.status = "deleted" THEN {}
    ELSE {e \in events :
            /\ e.seq > after_sequence
            /\ Cardinality({f \in events : after_sequence < f.seq /\ f.seq < e.seq}) < Batch}

\* Mutant: the subscriber returns when it has caught up.
ReturnsAt_CaughtUp(r) == cursor[r] >= snap[r].seq

ReturnsAt(r) == snap[r].status \in TerminalStatus /\ cursor[r] >= snap[r].seq

List(r) ==
    /\ pc[r] = "list"
    /\ batch' = [batch EXCEPT ![r] = ListEvents(cursor[r])]
    /\ pc' = [pc EXCEPT ![r] = IF ListEvents(cursor[r]) # {} THEN "yield"
                               ELSE IF ReturnsAt(r) THEN "closed" ELSE "poll"]
    /\ snap' = [snap EXCEPT ![r] = NoSnap]
    /\ UNCHANGED <<rowVars, after, cursor, got, prodVars>>

\* Mutant: no ORDER BY sequence.
Yield_Unordered(r) ==
    /\ pc[r] = "yield"
    /\ \E e \in batch[r] :
          /\ cursor' = [cursor EXCEPT ![r] = e.seq]
          /\ got' = [got EXCEPT ![r] = Append(@, e)]
          /\ batch' = [batch EXCEPT ![r] = @ \ {e}]
          /\ pc' = [pc EXCEPT ![r] = IF batch[r] = {e} THEN "poll" ELSE "yield"]
    /\ UNCHANGED <<rowVars, snap, after, prodVars>>

Yield(r) ==
    /\ pc[r] = "yield"
    /\ \E e \in batch[r] :
          /\ \A f \in batch[r] : e.seq <= f.seq
          /\ cursor' = [cursor EXCEPT ![r] = e.seq]
          /\ got' = [got EXCEPT ![r] = Append(@, e)]
          /\ batch' = [batch EXCEPT ![r] = @ \ {e}]
          /\ pc' = [pc EXCEPT ![r] = IF batch[r] = {e} THEN "poll" ELSE "yield"]
    /\ UNCHANGED <<rowVars, snap, after, prodVars>>

(* What a handler held is gone with it.                                    *)
Forget(rs) ==
    /\ pc' = [r \in Requests |-> IF r \in rs THEN "gone" ELSE pc[r]]
    /\ snap' = [r \in Requests |-> IF r \in rs THEN NoSnap ELSE snap[r]]
    /\ cursor' = [r \in Requests |-> IF r \in rs THEN after[r] ELSE cursor[r]]
    /\ batch' = [r \in Requests |-> IF r \in rs THEN {} ELSE batch[r]]
    /\ got' = [r \in Requests |-> IF r \in rs THEN <<>> ELSE got[r]]
    /\ UNCHANGED after

(* The client goes away; the producer is not told.                         *)
Disconnect(r) ==
    /\ "disconnect" \in Faults
    /\ pc[r] \in {"poll", "interrupt", "list", "yield"}
    /\ Forget({r})
    /\ UNCHANGED <<rowVars, prodVars>>
-----------------------------------------------------------------------------
(* _consume_source.                                                        *)

At(r, c, here) == task[r][c] = here
Becomes(r, c, there) == task' = [task EXCEPT ![r][c] = there]

SourceYields(r) ==
    /\ At(r, "consumer", "reading")
    /\ run.seq < MaxEvents
    /\ \E k \in Kinds : chunk' = [chunk EXCEPT ![r] = k]
    /\ Becomes(r, "consumer", "appending")
    /\ UNCHANGED <<rowVars, reqVars, terminal, nap, orphans>>

\* Mutant: a source without a terminal event is finished as any other.
SourceEnds_Silent(r) ==
    /\ At(r, "consumer", "reading")
    /\ Becomes(r, "consumer", "finishing")
    /\ UNCHANGED <<rowVars, reqVars, chunk, terminal, nap, orphans>>

SourceEnds(r) ==
    /\ At(r, "consumer", "reading")
    /\ Becomes(r, "consumer", IF terminal[r] = "none" THEN "reporting" ELSE "finishing")
    /\ UNCHANGED <<rowVars, reqVars, chunk, terminal, nap, orphans>>

SourceRaises(r) ==
    /\ At(r, "consumer", "reading")
    /\ Becomes(r, "consumer", "reporting")
    /\ UNCHANGED <<rowVars, reqVars, chunk, terminal, nap, orphans>>

(* ChatStreamClaimLost ends the consumer and reports nothing.               *)
AppendReturns(r) ==
    /\ At(r, "consumer", "appending")
    /\ Commit(Call(r, "appending"))
    /\ Becomes(r, "consumer", IF Owns(r) THEN "reading" ELSE "ended")
    /\ terminal' = [terminal EXCEPT ![r] = IF Owns(r) /\ chunk[r] \in TerminalKinds
                                           THEN chunk[r] ELSE @]
    /\ chunk' = [chunk EXCEPT ![r] = "chunk"]
    /\ UNCHANGED <<reqVars, nap, orphans>>

FinishReturns(r) ==
    /\ At(r, "consumer", "finishing")
    /\ Commit(Call(r, "finishing"))
    /\ Becomes(r, "consumer", "ended")
    /\ UNCHANGED <<reqVars, chunk, terminal, nap, orphans>>

(* A call of the try block raises; its transaction may have committed.      *)
ConsumerRaises(r) ==
    /\ "database" \in Faults
    /\ task[r]["consumer"] \in {"appending", "finishing"}
    /\ Commit(Call(r, task[r]["consumer"])) \/ UNCHANGED rowVars
    /\ Becomes(r, "consumer", "reporting")
    /\ UNCHANGED <<reqVars, chunk, terminal, nap, orphans>>
-----------------------------------------------------------------------------
(* _fail_owned_run, called by the consumer and by a cancelled _produce.      *)

ReportReturns(r, c) ==
    /\ At(r, c, "reporting")
    /\ Commit(Call(r, "reporting"))
    /\ Becomes(r, c, IF Owns(r) THEN "failing" ELSE "ended")
    /\ UNCHANGED <<reqVars, chunk, terminal, nap, orphans>>

FailReturns(r, c) ==
    /\ At(r, c, "failing")
    /\ Commit(Call(r, "failing"))
    /\ Becomes(r, c, "ended")
    /\ UNCHANGED <<reqVars, chunk, terminal, nap, orphans>>

FailOwnedRunRaises(r, c) ==
    /\ "database" \in Faults
    /\ task[r][c] \in {"reporting", "failing"}
    /\ Commit(Call(r, task[r][c])) \/ UNCHANGED rowVars
    /\ Becomes(r, c, "ended")
    /\ UNCHANGED <<reqVars, chunk, terminal, nap, orphans>>
-----------------------------------------------------------------------------
(* _heartbeat.                                                             *)

HeartbeatWakes(r) ==
    /\ At(r, "heartbeat", "sleeping")
    /\ nap[r] = 0
    /\ Becomes(r, "heartbeat", "renewing")
    /\ UNCHANGED <<rowVars, reqVars, chunk, terminal, nap, orphans>>

RenewReturns(r) ==
    /\ At(r, "heartbeat", "renewing")
    /\ Commit(Call(r, "renewing"))
    /\ Becomes(r, "heartbeat", IF Owns(r) THEN "sleeping" ELSE "ended")
    /\ nap' = [nap EXCEPT ![r] = IF Owns(r) THEN Interval ELSE @]
    /\ UNCHANGED <<reqVars, chunk, terminal, orphans>>

RenewRaises(r) ==
    /\ "database" \in Faults
    /\ At(r, "heartbeat", "renewing")
    /\ Commit(Call(r, "renewing")) \/ UNCHANGED rowVars
    /\ Becomes(r, "heartbeat", "ended")
    /\ UNCHANGED <<reqVars, chunk, terminal, nap, orphans>>
-----------------------------------------------------------------------------
(* _produce, which waits for the first of its two tasks to end.             *)

(* A call whose coroutine is cancelled is dropped if its thread had not     *)
(* begun, and runs to its end otherwise.                                   *)
Orphaned(rs) ==
    \E left \in SUBSET UNION {InFlight(r) : r \in rs} : orphans' = orphans \cup left

ProduceStops(r) ==
    /\ At(r, "produce", "waiting")
    /\ At(r, "consumer", "ended") \/ At(r, "heartbeat", "ended")
    /\ task' = [task EXCEPT ![r] = [c \in Coroutines |-> "ended"]]
    /\ Orphaned({r})
    /\ terminal' = [terminal EXCEPT ![r] = "none"]
    /\ UNCHANGED <<rowVars, reqVars, chunk, nap>>

OrphanCommits ==
    \E call \in orphans :
        /\ Commit(call)
        /\ orphans' = orphans \ {call}
        /\ UNCHANGED <<reqVars, task, chunk, terminal, nap>>

OrphanRaises ==
    /\ "database" \in Faults
    /\ \E call \in orphans :
        /\ orphans' = orphans \ {call}
        /\ UNCHANGED <<rowVars, reqVars, task, chunk, terminal, nap>>
-----------------------------------------------------------------------------
(* The environment.                                                        *)

Served(p) == {r \in Requests : Home[r] = p}
Handled(p) == {r \in Served(p) : pc[r] \notin Gone \cup {"idle"}}
Producing(p) == {r \in Served(p) : ~Idle(r)}

Crash(p) ==
    /\ "crash" \in Faults
    /\ Handled(p) \cup Producing(p) # {}
    /\ Forget(Handled(p))
    /\ task' = [r \in Requests |-> IF r \in Producing(p)
                                   THEN [c \in Coroutines |-> "ended"] ELSE task[r]]
    /\ terminal' = [r \in Requests |-> IF r \in Producing(p) THEN "none" ELSE terminal[r]]
    /\ orphans' = {call \in orphans : Home[call.tok] # p}
    /\ UNCHANGED <<rowVars, chunk, nap>>

(* The event loop closes: every task is cancelled, and _produce reports.     *)
Waiting(p) == {r \in Served(p) : At(r, "produce", "waiting")}

Shutdown(p) ==
    /\ "shutdown" \in Faults
    /\ Waiting(p) # {}
    /\ Forget(Handled(p))
    /\ task' = [r \in Requests |-> IF r \in Waiting(p)
                                   THEN [c \in Coroutines |-> IF c = "produce"
                                                              THEN "reporting" ELSE "ended"]
                                   ELSE task[r]]
    /\ Orphaned(Waiting(p))
    /\ UNCHANGED <<rowVars, chunk, terminal, nap>>

(* The conversation is deleted, and the run and its events by ON DELETE     *)
(* CASCADE; events keeps what had been persisted.                          *)
DeleteConversation ==
    /\ "delete" \in Faults
    /\ run.status \notin {"absent", "deleted"}
    /\ run' = [run EXCEPT !.status = "deleted", !.lease = NoLease]
    /\ UNCHANGED <<events, reqVars, prodVars>>

(* When Timely, no heartbeat is late, no renewal takes a tick, and a        *)
(* handler starts its producer within the tick of its claim.               *)
KeepsUp(r) ==
    /\ pc[r] # "track"
    /\ ~At(r, "heartbeat", "renewing")
    /\ At(r, "heartbeat", "sleeping") => nap[r] > 0

Tick ==
    /\ Timely => \A r \in Requests : KeepsUp(r)
    /\ run' = [run EXCEPT !.lease = IF @ >= 0 THEN @ - 1 ELSE @]
    /\ nap' = [r \in Requests |-> IF nap[r] > 0 THEN nap[r] - 1 ELSE 0]
    /\ UNCHANGED <<events, reqVars, task, chunk, terminal, orphans>>
-----------------------------------------------------------------------------
Attach(r) ==
    \/ Arrive(r) \/ BeginOrGet(r) \/ InsertPending(r) \/ InsertConflicts(r)
    \/ ClaimPending(r) \/ ClaimTaken(r) \/ TrackProducer(r)

Follow(r) ==
    GetRun(r) \/ InterruptStaleRun(r) \/ NotStale(r) \/ List(r) \/ Yield(r)

Consume(r) ==
    \/ SourceYields(r) \/ SourceEnds(r) \/ SourceRaises(r)
    \/ AppendReturns(r) \/ FinishReturns(r) \/ ConsumerRaises(r)

FailOwnedRun(r) ==
    \E c \in {"consumer", "produce"} :
        ReportReturns(r, c) \/ FailReturns(r, c) \/ FailOwnedRunRaises(r, c)

Heartbeat(r) == HeartbeatWakes(r) \/ RenewReturns(r) \/ RenewRaises(r)

Next ==
    \/ \E r \in Requests :
          \/ Attach(r) \/ Follow(r) \/ Disconnect(r)
          \/ Consume(r) \/ FailOwnedRun(r) \/ Heartbeat(r) \/ ProduceStops(r)
    \/ OrphanCommits \/ OrphanRaises
    \/ \E p \in Processes : Crash(p) \/ Shutdown(p)
    \/ DeleteConversation
    \/ Tick

Spec == Init /\ [][Next]_vars
-----------------------------------------------------------------------------
(* Fairness: asyncio runs every ready coroutine of a handler and of the one  *)
(* producer that is started, their threads return, time passes, and a source *)
(* that may still yield finitely often ends.  Nothing is asked of heartbeats *)
(* and orphans.                                                            *)
Fairness ==
    /\ \A r \in Requests : WF_vars(Attach(r) \/ Follow(r))
    /\ WF_vars(\E r \in Requests : Consume(r) \/ FailOwnedRun(r) \/ ProduceStops(r))
    /\ WF_vars(Tick)

FairSpec == Spec /\ Fairness
-----------------------------------------------------------------------------
Fingerprints == {NoToken} \cup {Fingerprint[r] : r \in Requests}
Statuses == {"absent", "pending", "running", "deleted"} \cup TerminalStatus
RunRow == [status : Statuses, token : Requests \cup {NoToken}, lease : NoLease .. Lease,
           seq : Nat, fp : Fingerprints]
Event == [seq : Nat \ {0}, kind : Kinds]
Calls == [tok : Requests, op : {"append"}, arg : Kinds] \cup
         [tok : Requests, op : {"finish"}, arg : TerminalStatus] \cup
         [tok : Requests, op : {"renew"}, arg : {"lease"}]
Places == Gone \cup {"idle", "begin", "insert", "claim", "track",
                    "poll", "interrupt", "list", "yield"}
TaskStates == {"none", "waiting", "reading", "sleeping", "ended"} \cup Calling

\* The variables have their types.
TypeOK ==
    /\ run \in RunRow
    /\ events \subseteq Event
    /\ pc \in [Requests -> Places]
    /\ snap \in [Requests -> [status : Statuses \ {"deleted"}, seq : Nat]]
    /\ after \in [Requests -> Nat] /\ cursor \in [Requests -> Nat]
    /\ batch \in [Requests -> SUBSET events]
    /\ got \in [Requests -> Seq(Event)]
    /\ task \in [Requests -> [Coroutines -> TaskStates]]
    /\ chunk \in [Requests -> Kinds]
    /\ terminal \in [Requests -> {"none"} \cup TerminalKinds]
    /\ nap \in [Requests -> 0 .. Interval]
    /\ orphans \subseteq Calls

\* At most one producer is ever started for the key: retries, replicas, restarts
\* and an expired lease never run the source again.  It holds the claim, and who
\* wins the claim starts it: _track_producer never finds a live task of an
\* earlier claim and silently drops this one.
OneExecution ==
    \A r \in Requests :
        /\ task[r]["produce"] # "none" => run.token = r
        /\ run.token = r /\ pc[r] \notin {"track", "gone"} => task[r]["produce"] # "none"

\* The ledger numbers its events 1..last_event_sequence with no gap and no
\* repeat, whichever of producer, orphaned threads and interrupts write it.
LedgerContiguous ==
    /\ {e.seq : e \in events} = 1 .. run.seq
    /\ \A e, f \in events : e.seq = f.seq => e = f

\* A subscriber receives, in order and exactly once, the rows that follow its
\* Last-Event-ID, whatever is written between its reads.
DeliveredInOrder ==
    \A r \in Requests : \A i \in 1 .. Len(got[r]) :
        got[r][i] \in events /\ got[r][i].seq = after[r] + i

\* A subscription that ends by itself has delivered every event of the run, and
\* the run can get no more: the stale snapshot it decides on cannot hide one.
ClosedIsComplete ==
    \A r \in Requests : pc[r] = "closed" =>
        /\ run.status \in TerminalStatus \cup {"deleted"}
        /\ \A e \in events : e.seq > after[r] => \E i \in 1 .. Len(got[r]) : got[r][i] = e

\* A terminal status is backed by the event that tells a client so: a completed
\* run has a done event, a failed run an error event.
OutcomeInLedger ==
    /\ run.status = "completed" => \E e \in events : e.kind = "done"
    /\ run.status = "failed" => \E e \in events : e.kind = "error"

\* The ledger counts without a gap and bears the row's status out, whoever wrote
\* either.
LedgerSound == LedgerContiguous /\ OutcomeInLedger

\* A subscriber gets the run's events as they follow its Last-Event-ID, each once
\* and in order, and all of them if its subscription ends by itself.
ServesTheLedger == DeliveredInOrder /\ ClosedIsComplete

\* Whoever is attached to the run sent the request that it was created for, and
\* nobody follows a run that no producer has claimed (which no lease could end):
\* a handler that finds the run pending after a crash claims it itself.
FollowsItsRun ==
    \A r \in Requests :
        /\ pc[r] \notin {"idle", "begin", "insert", "conflict", "notfound", "gone"} =>
              run.fp = Fingerprint[r]
        /\ pc[r] \in {"poll", "interrupt", "list", "yield", "closed"} =>
              run.status \notin {"absent", "pending"}

\* Exactly a running run has a lease: no finished run can be interrupted, no
\* running one escapes the interrupt.
LeaseIffRunning == run.lease # NoLease <=> run.status = "running"

\* With the clock kept up with, the lease of a producer that reads its source or
\* appends under a live heartbeat never expires, so no subscriber interrupts it.
LiveProducerKeepsLease ==
    \A r \in Requests :
        Owns(r) /\ (At(r, "consumer", "reading") \/ At(r, "consumer", "appending"))
                /\ (At(r, "heartbeat", "sleeping") \/ At(r, "heartbeat", "renewing")) => ~Stale

\* A run that reached a terminal status never changes again, nor does its ledger,
\* although threads of its producer may still be running; it can be deleted.
TerminalIsFinal ==
    [][run.status \in TerminalStatus =>
          /\ events' = events /\ run'.seq = run.seq /\ run'.token = run.token
          /\ run'.status \in {run.status, "deleted"}]_vars

\* Every subscription ends: by itself, or because client, process or run is gone,
\* even when the producer died and only the lease tells.
SubscriptionEnds ==
    <>[](\A r \in Requests : pc[r] \notin {"poll", "interrupt", "list", "yield"})
-----------------------------------------------------------------------------
\* The row, the ledger and the handlers implement the durable stream that a
\* client is promised: see DurableStream.
Stream == INSTANCE DurableStream WITH
    Followers <- Requests,
    Outcomes <- TerminalStatus,
    executed <- {r \in Requests : task[r]["produce"] # "none"},
    log <- [i \in 1 .. run.seq |-> (CHOOSE e \in events : e.seq = i).kind],
    outcome <- IF run.status \in TerminalStatus \cup {"deleted"} THEN run.status ELSE "open",
    from <- after,
    sent <- [r \in Requests |-> [i \in 1 .. Len(got[r]) |-> got[r][i].kind]],
    state <- [r \in Requests |-> CASE pc[r] = "idle" -> "out"
                                  [] pc[r] = "closed" -> "ended"
                                  [] pc[r] \in Gone \ {"closed"} -> "left"
                                  [] OTHER -> "in"]

ImplementsDurableStream == Stream!ASpec
=============================================================================
