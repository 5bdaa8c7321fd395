------------------------------- MODULE Outbox -------------------------------
(***************************************************************************)
(* The transactional outbox: services/outbox_service.py over                *)
(* repositories/outbox_repository.py, publishing through                    *)
(* core/infrastructure/message_broker.py.                                   *)
(*                                                                         *)
(* Producers enqueue rows of outbox_events; dispatchers (one loop, or one   *)
(* call of reconcile, in some process) claim batches of rows under a lease, *)
(* publish them one by one and mark them sent, retry or dead.  mark_sent,   *)
(* mark_retry and requeue_dead read the row and later update it by primary  *)
(* key, in a transaction that takes no lock before the update: each is two  *)
(* steps here.  A restarted process is another dispatcher.                  *)
(*                                                                         *)
(* A claim token is identified with its dispatcher, which claims only when  *)
(* it has dealt with its last batch.  lease_until and next_attempt_at are   *)
(* kept as the facts that they have passed.                                 *)
(***************************************************************************)
EXTENDS Integers, FiniteSets

CONSTANTS
    Producers,      \* calls of enqueue
    Key,            \* the dedupe_key of each
    NoKey,          \* dedupe_key IS NULL
    Dispatchers,    \* dispatch_pending loops and reconcile calls
    Reconcilers,    \* the reconcile calls among them
    Faulty,         \* those that may crash and whose database calls may raise
    NoToken,        \* claim_token IS NULL
    Limit,          \* how many rows a claim takes
    MaxAttempts,    \* max_attempts of mark_retry
    MaxRows,        \* bound: rows ever inserted
    MaxDeadAttempts,\* bound: attempts up to which dead rows are requeued
    Timely,         \* whether leases outlast the dispatch of a batch
    Faults          \* what may go wrong

ASSUME OutboxAssumption ==
    /\ DOMAIN Key = Producers
    /\ NoToken \notin Dispatchers
    /\ Reconcilers \subseteq Dispatchers
    /\ Faulty \subseteq Dispatchers
    /\ Limit \in Nat \ {0}
    /\ MaxAttempts \in Nat \ {0}
    /\ MaxRows \in Nat
    /\ MaxDeadAttempts \in Nat
    /\ Timely \in BOOLEAN
    /\ Faults \subseteq {"crash", "publish", "offline", "database"}

VARIABLES
    rows,       \* outbox_events by id; the ids follow the order of creation
    ticket,     \* what enqueue knows: Uncalled, Missing, or the id it returns
    published,  \* rows whose message has reached the broker
    dropped,    \* rows whose publication the offline broker ignored
    pc,         \* where each dispatcher is
    item,       \* the row it dispatches
    rest,       \* the rows of its batch that come after
    seen,       \* mark_retry: the attempts it has read
    doomed      \* requeue_dead: the dead rows it has read

prodVars == <<ticket>>
brokerVars == <<published, dropped>>
dispVars == <<pc, item, rest, seen, doomed>>
vars == <<rows, prodVars, brokerVars, dispVars>>

Uncalled == -1
Missing == 0
NoItem == 0
Ids == 1 .. MaxRows
Stored == {i \in Ids : rows[i].status # "absent"}
Blank == [key |-> NoKey, status |-> "absent", attempts |-> 0,
          due |-> TRUE, token |-> NoToken, expired |-> FALSE]

Init ==
    /\ rows = [i \in Ids |-> Blank]
    /\ ticket = [p \in Producers |-> Uncalled]
    /\ published = {}
    /\ dropped = {}
    /\ pc = [d \in Dispatchers |-> "idle"]
    /\ item = [d \in Dispatchers |-> NoItem]
    /\ rest = [d \in Dispatchers |-> {}]
    /\ seen = [d \in Dispatchers |-> 0]
    /\ doomed = [d \in Dispatchers |-> {}]
-----------------------------------------------------------------------------
(* enqueue.                                                                *)

SameKey(p) == {i \in Stored : Key[p] # NoKey /\ rows[i].key = Key[p]}

Found(p) == \E i \in SameKey(p) : ticket' = [ticket EXCEPT ![p] = i]

Lookup(p) ==
    /\ ticket[p] = Uncalled
    /\ Key[p] # NoKey
    /\ Found(p) \/ (SameKey(p) = {} /\ ticket' = [ticket EXCEPT ![p] = Missing])
    /\ UNCHANGED <<rows, brokerVars, dispVars>>

(* The row with the next id.                                               *)
NewRow(p) ==
    \E i \in Ids :
        /\ Stored = 1 .. i - 1
        /\ rows' = [rows EXCEPT ![i] = [Blank EXCEPT !.status = "pending", !.key = Key[p]]]
        /\ ticket' = [ticket EXCEPT ![p] = i]

(* Without a key there is nothing to look up.                               *)
Inserting(p) == ticket[p] = (IF Key[p] = NoKey THEN Uncalled ELSE Missing)

\* Mutant: dedupe_key has no unique constraint.
Insert_NotUnique(p) ==
    /\ Inserting(p)
    /\ NewRow(p)
    /\ UNCHANGED <<brokerVars, dispVars>>

(* The insert, or on IntegrityError the row that another call inserted.     *)
Insert(p) ==
    /\ Inserting(p)
    /\ \/ SameKey(p) = {} /\ NewRow(p)
       \/ Found(p) /\ UNCHANGED rows
    /\ UNCHANGED <<brokerVars, dispVars>>
-----------------------------------------------------------------------------
(* claim_pending, under FOR UPDATE SKIP LOCKED.                            *)

\* Mutant: rows that are being processed are claimed whatever their lease.
Claimable_AnyLease(i) ==
    \/ rows[i].status \in {"pending", "retry"} /\ rows[i].due
    \/ rows[i].status = "processing"

\* Mutant: a claim is never taken over.
Claimable_NoTakeover(i) == rows[i].status \in {"pending", "retry"} /\ rows[i].due

Claimable(i) ==
    \/ rows[i].status \in {"pending", "retry"} /\ rows[i].due
    \/ rows[i].status = "processing" /\ rows[i].expired

(* The oldest rows come first.                                             *)
Batch == {i \in Ids : Claimable(i) /\ Cardinality({j \in 1 .. i : Claimable(j)}) <= Limit}

ClaimedBy(d) ==
    [i \in Ids |-> IF i \in Batch
                   THEN [rows[i] EXCEPT !.status = "processing", !.token = d, !.expired = FALSE]
                   ELSE rows[i]]

\* Mutant: the batch is given up, but the row in hand is not.
Take_KeepsItem(d, left) ==
    /\ \/ /\ left = {}
          /\ pc' = [pc EXCEPT ![d] = "idle"]
          /\ rest' = [rest EXCEPT ![d] = {}]
          /\ UNCHANGED item
       \/ \E i \in left :
             /\ \A j \in left : i <= j
             /\ pc' = [pc EXCEPT ![d] = "publish"]
             /\ item' = [item EXCEPT ![d] = i]
             /\ rest' = [rest EXCEPT ![d] = left \ {i}]
    /\ seen' = [seen EXCEPT ![d] = 0]
    /\ UNCHANGED doomed

(* The loop of dispatch_pending goes on to the next row of what is left.    *)
Take(d, left) ==
    /\ \/ /\ left = {}
          /\ pc' = [pc EXCEPT ![d] = "idle"]
          /\ item' = [item EXCEPT ![d] = NoItem]
          /\ rest' = [rest EXCEPT ![d] = {}]
       \/ \E i \in left :
             /\ \A j \in left : i <= j
             /\ pc' = [pc EXCEPT ![d] = "publish"]
             /\ item' = [item EXCEPT ![d] = i]
             /\ rest' = [rest EXCEPT ![d] = left \ {i}]
    /\ seen' = [seen EXCEPT ![d] = 0]
    /\ UNCHANGED doomed

At(d, here) == pc[d] = here
Goto(d, there) == pc' = [pc EXCEPT ![d] = there] /\ UNCHANGED <<item, rest, seen, doomed>>

ClaimPending(d) ==
    /\ At(d, "idle")
    /\ Batch # {}
    /\ rows' = ClaimedBy(d)
    /\ Take(d, Batch)
    /\ UNCHANGED <<prodVars, brokerVars>>

(* The claim is committed, but the answer is lost.                          *)
ClaimRaises(d) ==
    /\ "database" \in Faults
    /\ d \in Faulty
    /\ At(d, "idle")
    /\ Batch # {}
    /\ rows' = ClaimedBy(d)
    /\ UNCHANGED <<prodVars, brokerVars, dispVars>>
-----------------------------------------------------------------------------
(* _dispatch_item.                                                         *)

Delivered(d) == published' = published \cup {item[d]}

Publish(d) ==
    /\ At(d, "publish")
    /\ Delivered(d)
    /\ Goto(d, "sent?")
    /\ UNCHANGED <<rows, prodVars, dropped>>

(* publish returns False, which nobody looks at.                            *)
PublishIgnored(d) ==
    /\ "offline" \in Faults
    /\ At(d, "publish")
    /\ dropped' = dropped \cup {item[d]}
    /\ Goto(d, "sent?")
    /\ UNCHANGED <<rows, prodVars, published>>

\* Mutant: the exception is swallowed.
PublishRaises_Swallowed(d) ==
    /\ "publish" \in Faults
    /\ At(d, "publish")
    /\ Delivered(d) \/ UNCHANGED published
    /\ Goto(d, "sent?")
    /\ UNCHANGED <<rows, prodVars, dropped>>

(* The broker may have got the message before the channel failed.           *)
PublishRaises(d) ==
    /\ "publish" \in Faults
    /\ At(d, "publish")
    /\ Delivered(d) \/ UNCHANGED published
    /\ Goto(d, "retry?")
    /\ UNCHANGED <<rows, prodVars, dropped>>

(* The row is still being processed under the dispatcher's claim.           *)
Owns(d) == rows[item[d]].status = "processing" /\ rows[item[d]].token = d

MarkSentReads(d) ==
    /\ At(d, "sent?")
    /\ Owns(d)
    /\ Goto(d, "sent!")
    /\ UNCHANGED <<rows, prodVars, brokerVars>>

MarkRetryReads(d) ==
    /\ At(d, "retry?")
    /\ Owns(d)
    /\ seen' = [seen EXCEPT ![d] = rows[item[d]].attempts]
    /\ pc' = [pc EXCEPT ![d] = "retry!"]
    /\ UNCHANGED <<rows, prodVars, brokerVars, item, rest, doomed>>

(* Either one finds that the claim is another's, or none's.                 *)
ClaimLost(d) ==
    /\ At(d, "sent?") \/ At(d, "retry?")
    /\ ~Owns(d)
    /\ Take(d, rest[d])
    /\ UNCHANGED <<rows, prodVars, brokerVars>>

Released(row) == [row EXCEPT !.token = NoToken, !.expired = FALSE]

Sent(d) == rows' = [rows EXCEPT ![item[d]] = [Released(@) EXCEPT !.status = "sent"]]

(* What mark_retry makes of a row, given the attempts that it has read.     *)
Failed(row, n) ==
    [Released(row) EXCEPT !.attempts = n + 1,
                          !.status = IF n + 1 >= MaxAttempts THEN "dead" ELSE "retry",
                          !.due = IF n + 1 >= MaxAttempts THEN row.due ELSE FALSE]

Retried(d) == rows' = [rows EXCEPT ![item[d]] = Failed(@, seen[d])]

MarkSentWrites(d) ==
    /\ At(d, "sent!")
    /\ Sent(d)
    /\ Take(d, rest[d])
    /\ UNCHANGED <<prodVars, brokerVars>>

MarkRetryWrites(d) ==
    /\ At(d, "retry!")
    /\ Retried(d)
    /\ Take(d, rest[d])
    /\ UNCHANGED <<prodVars, brokerVars>>

(* mark_sent raises inside the try block, committed or not.                 *)
MarkSentRaises(d) ==
    /\ "database" \in Faults
    /\ d \in Faulty
    /\ \/ At(d, "sent?") /\ UNCHANGED rows
       \/ At(d, "sent!") /\ (Sent(d) \/ UNCHANGED rows)
    /\ Goto(d, "retry?")
    /\ UNCHANGED <<prodVars, brokerVars>>

(* mark_retry raises out of dispatch_pending: the rest of the batch is      *)
(* given up.                                                               *)
MarkRetryRaises(d) ==
    /\ "database" \in Faults
    /\ d \in Faulty
    /\ \/ At(d, "retry?") /\ UNCHANGED rows
       \/ At(d, "retry!") /\ (Retried(d) \/ UNCHANGED rows)
    /\ Take(d, {})
    /\ UNCHANGED <<prodVars, brokerVars>>
-----------------------------------------------------------------------------
(* requeue_dead, which reconcile calls before it dispatches.                *)

Dead == {i \in Ids : rows[i].status = "dead" /\ rows[i].attempts <= MaxDeadAttempts}

RequeueReads(d) ==
    /\ d \in Reconcilers
    /\ At(d, "idle")
    /\ Dead # {}
    /\ doomed' = [doomed EXCEPT ![d] = Dead]
    /\ pc' = [pc EXCEPT ![d] = "requeue"]
    /\ UNCHANGED <<rows, prodVars, brokerVars, item, rest, seen>>

(* claim_token and lease_until were read as NULL, so the session does not   *)
(* write them; attempts are kept.                                          *)
RequeueWrites(d) ==
    /\ At(d, "requeue")
    /\ rows' = [i \in Ids |-> IF i \in doomed[d]
                              THEN [rows[i] EXCEPT !.status = "retry", !.due = TRUE] ELSE rows[i]]
    /\ doomed' = [doomed EXCEPT ![d] = {}]
    /\ pc' = [pc EXCEPT ![d] = "idle"]
    /\ UNCHANGED <<prodVars, brokerVars, item, rest, seen>>
-----------------------------------------------------------------------------
(* The environment.                                                        *)

(* A process dies, or stop() cancels its loop, for good.                    *)
Crash(d) ==
    /\ "crash" \in Faults
    /\ d \in Faulty
    /\ pc[d] # "down"
    /\ pc' = [pc EXCEPT ![d] = "down"]
    /\ item' = [item EXCEPT ![d] = NoItem]
    /\ rest' = [rest EXCEPT ![d] = {}]
    /\ seen' = [seen EXCEPT ![d] = 0]
    /\ doomed' = [doomed EXCEPT ![d] = {}]
    /\ UNCHANGED <<rows, prodVars, brokerVars>>

Holds(d, i) == i = item[d] \/ i \in rest[d]

BackoffElapses(i) ==
    /\ ~rows[i].due
    /\ rows' = [rows EXCEPT ![i].due = TRUE]
    /\ UNCHANGED <<prodVars, brokerVars, dispVars>>

LeaseExpires(i) ==
    /\ rows[i].status = "processing" /\ ~rows[i].expired
    /\ Timely => \A d \in Dispatchers : ~Holds(d, i)
    /\ rows' = [rows EXCEPT ![i].expired = TRUE]
    /\ UNCHANGED <<prodVars, brokerVars, dispVars>>
-----------------------------------------------------------------------------
Enqueue(p) == Lookup(p) \/ Insert(p)

Dispatch(d) ==
    \/ ClaimPending(d)
    \/ Publish(d) \/ PublishIgnored(d) \/ PublishRaises(d)
    \/ MarkSentReads(d) \/ MarkSentWrites(d) \/ MarkSentRaises(d)
    \/ MarkRetryReads(d) \/ MarkRetryWrites(d) \/ MarkRetryRaises(d)
    \/ ClaimLost(d)

Next ==
    \/ \E p \in Producers : Enqueue(p)
    \/ \E d \in Dispatchers :
          Dispatch(d) \/ ClaimRaises(d) \/ RequeueReads(d) \/ RequeueWrites(d) \/ Crash(d)
    \/ \E i \in Ids : BackoffElapses(i) \/ LeaseExpires(i)

Spec == Init /\ [][Next]_vars

(* Dispatch loops run, one that tries to claim again and again gets a batch   *)
(* some time, and time passes.                                             *)
FairSpec ==
    /\ Spec
    /\ \A d \in Dispatchers :
          /\ WF_vars(Dispatch(d) \/ RequeueWrites(d))
          /\ SF_vars(ClaimPending(d))
    /\ \A i \in Ids : WF_vars(BackoffElapses(i)) /\ WF_vars(LeaseExpires(i))
-----------------------------------------------------------------------------
Statuses == {"absent", "pending", "processing", "retry", "sent", "dead"}
Row == [key : {NoKey} \cup {Key[p] : p \in Producers}, status : Statuses, attempts : Nat,
        due : BOOLEAN, token : Dispatchers \cup {NoToken}, expired : BOOLEAN]
Dispatching == {"publish", "sent?", "sent!", "retry?", "retry!"}

\* The variables have their types; a dispatcher has a row in hand exactly while
\* it dispatches.
TypeOK ==
    /\ rows \in [Ids -> Row]
    /\ ticket \in [Producers -> {Uncalled, Missing} \cup Ids]
    /\ published \subseteq Ids
    /\ dropped \subseteq Ids
    /\ pc \in [Dispatchers -> {"idle", "requeue", "down"} \cup Dispatching]
    /\ item \in [Dispatchers -> {NoItem} \cup Ids]
    /\ \A d \in Dispatchers : pc[d] \in Dispatching <=> item[d] # NoItem
    /\ rest \in [Dispatchers -> SUBSET Ids]
    /\ seen \in [Dispatchers -> Nat]
    /\ doomed \in [Dispatchers -> SUBSET Ids]

\* However producers race, one dedupe key gives one row, and every caller gets
\* the id of a row with its key.
OneRowPerKey ==
    /\ \A i, j \in Ids : rows[i].key = rows[j].key /\ rows[i].key # NoKey => i = j
    /\ \A p \in Producers : ticket[p] \in Ids => rows[ticket[p]].key = Key[p]

\* A row is marked sent only when its message was handed to the broker, or when
\* the broker was offline and ignored it; claims that changed hands included.
SentWasPublished ==
    \A i \in Ids : rows[i].status = "sent" => i \in published \cup dropped

\* When leases outlast the batches, no two dispatchers ever have the same row
\* in hand, so no message is published by two of them at once.
HeldByOne ==
    \A d, e \in Dispatchers : \A i \in Ids : Holds(d, i) /\ Holds(e, i) => d = e

\* When leases outlast the batches, a sent row stays sent: it is not claimed,
\* retried or requeued again.
SentIsFinal ==
    [][\A i \in Ids : rows[i].status = "sent" => rows'[i].status = "sent"]_vars

\* mark_retry updates a row only while the caller's claim is the row's claim.
RetryRequiresCurrentClaim ==
    [][\A d \in Dispatchers : At(d, "retry!") /\ pc'[d] # pc[d] =>
          rows[item[d]].token = d \/ rows' = rows]_vars

\* Every row is eventually sent or given up as dead, although dispatchers crash
\* in the middle of their batches, lose the answers of the database and fail to
\* publish, as long as one of them, whose database calls succeed, goes on.
EventuallySettled == \A i \in Ids : i \in Stored ~> rows[i].status \in {"sent", "dead"}
-----------------------------------------------------------------------------
(* What becomes of a row's message, whoever has claimed it.                 *)
Box(row) ==
    CASE row.status = "absent" -> "none"
      [] row.status \in {"sent", "dead"} -> row.status
      [] OTHER -> "waiting"

Delivery == INSTANCE KeyedDelivery WITH
    Callers <- Producers,
    KeyOf <- Key,
    Boxes <- Ids,
    box <- [i \in Ids |-> Box(rows[i])],
    key <- [i \in Ids |-> rows[i].key],
    given <- [p \in Producers |-> IF ticket[p] \in Ids THEN ticket[p] ELSE Missing],
    handed <- published \cup dropped

\* When leases outlast the batches, racing producers, claims that are taken over,
\* late updates and reconciliations keep what an outbox promises: one row per key,
\* nothing handed over but from a row that waits, nothing sent that was not handed
\* over, and nothing that was sent goes out again.
ImplementsKeyedDelivery == Delivery!ASpec
=============================================================================
