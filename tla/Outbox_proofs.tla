---------------------------- MODULE Outbox_proofs ----------------------------
(***************************************************************************)
(* For any number of rows, producers and dispatchers: no row is marked sent *)
(* unless its message was handed over, whatever leases expire, dispatchers  *)
(* crash and stale claimants write; and where leases outlast the batches,   *)
(* no two dispatchers have one row in hand, a sent row stays sent, and what  *)
(* becomes of the rows is a KeyedDelivery.                                   *)
(***************************************************************************)
EXTENDS Outbox, TLAPS

LEMMA RowUpdates ==
  ASSUME NEW row \in Row
  PROVE  /\ \A d \in Dispatchers :
               [row EXCEPT !.status = "processing", !.token = d, !.expired = FALSE] \in Row
         /\ [Released(row) EXCEPT !.status = "sent"] \in Row
         /\ \A n \in Nat, s \in Statuses, b \in BOOLEAN :
               [Released(row) EXCEPT !.attempts = n, !.status = s, !.due = b] \in Row
         /\ [row EXCEPT !.status = "retry", !.due = TRUE] \in Row
         /\ [row EXCEPT !.due = TRUE] \in Row
         /\ [row EXCEPT !.expired = TRUE] \in Row
<1> USE DEF Row, Statuses
<1>1. \A d \in Dispatchers :
         [row EXCEPT !.status = "processing", !.token = d, !.expired = FALSE] \in Row
  OBVIOUS
<1>2. [Released(row) EXCEPT !.status = "sent"] \in Row
  BY DEF Released
<1>3. \A n \in Nat, s \in Statuses, b \in BOOLEAN :
         [Released(row) EXCEPT !.attempts = n, !.status = s, !.due = b] \in Row
  BY DEF Released
<1>4. [row EXCEPT !.status = "retry", !.due = TRUE] \in Row
  OBVIOUS
<1>5. [row EXCEPT !.due = TRUE] \in Row
  OBVIOUS
<1>6. [row EXCEPT !.expired = TRUE] \in Row
  OBVIOUS
<1> QED
  BY <1>1, <1>2, <1>3, <1>4, <1>5, <1>6

LEMMA FailedTyped ==
  ASSUME NEW row \in Row, NEW n \in Nat
  PROVE  Failed(row, n) \in Row /\ Failed(row, n).status \in {"dead", "retry"}
<1>1. row.due \in BOOLEAN /\ n + 1 \in Nat
  BY DEF Row
<1>2. CASE n + 1 >= MaxAttempts
  BY <1>1, <1>2 DEF Failed, Released, Row, Statuses
<1>3. CASE ~(n + 1 >= MaxAttempts)
  BY <1>1, <1>3 DEF Failed, Released, Row, Statuses
<1> QED
  BY <1>2, <1>3

(* What each way of writing rows keeps of their type.                       *)
LEMMA RowsTyped ==
  ASSUME TypeOK, NEW d \in Dispatchers
  PROVE  /\ rows' = ClaimedBy(d) => rows' \in [Ids -> Row]
         /\ item[d] \in Ids /\ (Sent(d) \/ Retried(d)) => rows' \in [Ids -> Row]
         /\ RequeueWrites(d) => rows' \in [Ids -> Row]
<1>1. rows \in [Ids -> Row] /\ \A i \in Ids : rows[i] \in Row
  BY DEF TypeOK
<1>2. ASSUME rows' = ClaimedBy(d)
      PROVE  rows' \in [Ids -> Row]
  <2>1. ASSUME NEW i \in Ids PROVE ClaimedBy(d)[i] \in Row
    BY <1>1, RowUpdates DEF ClaimedBy
  <2> QED
    BY <1>2, <2>1 DEF ClaimedBy
<1>3. item[d] \in Ids /\ Sent(d) => rows' \in [Ids -> Row]
  BY <1>1, RowUpdates DEF Sent
<1>4. item[d] \in Ids /\ Retried(d) => rows' \in [Ids -> Row]
  BY <1>1, FailedTyped DEF TypeOK, Retried
<1>5. ASSUME RequeueWrites(d)
      PROVE  rows' \in [Ids -> Row]
  <2>1. ASSUME NEW i \in Ids PROVE rows'[i] \in Row
    BY <1>1, <1>5, RowUpdates DEF RequeueWrites
  <2> QED
    BY <1>5, <2>1 DEF RequeueWrites
<1> QED
  BY <1>2, <1>3, <1>4, <1>5
-----------------------------------------------------------------------------
TakeTyped(d) ==
    /\ pc' \in [Dispatchers -> {"idle", "requeue", "down"} \cup Dispatching]
    /\ item' \in [Dispatchers -> {NoItem} \cup Ids]
    /\ \A e \in Dispatchers : pc'[e] \in Dispatching <=> item'[e] # NoItem
    /\ rest' \in [Dispatchers -> SUBSET Ids]
    /\ seen' \in [Dispatchers -> Nat]
    /\ doomed' \in [Dispatchers -> SUBSET Ids]

LEMMA TakeTypes ==
  ASSUME TypeOK, NEW d \in Dispatchers, NEW left \in SUBSET Ids, Take(d, left)
  PROVE  TakeTyped(d)
<1>1. CASE left = {} /\ item' = [item EXCEPT ![d] = NoItem]
  BY <1>1 DEF TypeOK, Take, TakeTyped, Dispatching
<1>2. CASE \E i \in left :
             /\ pc' = [pc EXCEPT ![d] = "publish"]
             /\ item' = [item EXCEPT ![d] = i]
             /\ rest' = [rest EXCEPT ![d] = left \ {i}]
  <2>1. PICK i \in left :
             /\ pc' = [pc EXCEPT ![d] = "publish"]
             /\ item' = [item EXCEPT ![d] = i]
             /\ rest' = [rest EXCEPT ![d] = left \ {i}]
    BY <1>2
  <2>2. i \in Ids /\ i # NoItem
    BY OutboxAssumption DEF Ids, NoItem
  <2> QED
    BY <2>1, <2>2 DEF TypeOK, Take, TakeTyped, Dispatching
<1>3. (left = {} /\ item' = [item EXCEPT ![d] = NoItem]) \/
      (\E i \in left : /\ pc' = [pc EXCEPT ![d] = "publish"]
                       /\ item' = [item EXCEPT ![d] = i]
                       /\ rest' = [rest EXCEPT ![d] = left \ {i}])
  BY DEF Take
<1> QED
  BY <1>1, <1>2, <1>3

LEMMA InitTyped == Init => TypeOK
  BY OutboxAssumption DEF Init, TypeOK, Row, Blank, Statuses, Dispatching

LEMMA TypeStep == TypeOK /\ [Next]_vars => TypeOK'
<1> SUFFICES ASSUME TypeOK, [Next]_vars PROVE TypeOK'
  OBVIOUS
<1>1. ASSUME NEW p \in Producers, Enqueue(p)
      PROVE  TypeOK'
  <2>1. ASSUME NEW i \in Ids
        PROVE  [Blank EXCEPT !.status = "pending", !.key = Key[p]] \in Row
    BY DEF Blank, Row, Statuses
  <2>2. CASE NewRow(p) /\ UNCHANGED <<brokerVars, dispVars>>
    BY <2>1, <2>2 DEF NewRow, TypeOK, brokerVars, dispVars
  <2>3. CASE Found(p) /\ UNCHANGED <<rows, brokerVars, dispVars>>
    BY <2>3 DEF Found, SameKey, Stored, TypeOK, brokerVars, dispVars
  <2>4. CASE ticket' = [ticket EXCEPT ![p] = Missing] /\ UNCHANGED <<rows, brokerVars, dispVars>>
    BY <2>4 DEF TypeOK, brokerVars, dispVars
  <2> QED
    BY <1>1, <2>2, <2>3, <2>4 DEF Enqueue, Lookup, Insert
<1>2. ASSUME NEW d \in Dispatchers, Dispatch(d)
      PROVE  TypeOK'
  <2>1. pc[d] \in Dispatching => item[d] \in Ids
    BY DEF TypeOK
  <2>2. CASE ClaimPending(d)
    <3>1. rows' \in [Ids -> Row]
      BY <2>2, RowsTyped DEF ClaimPending
    <3>2. TakeTyped(d)
      BY <2>2, TakeTypes DEF ClaimPending, Batch
    <3> QED
      BY <2>2, <3>1, <3>2 DEF ClaimPending, TypeOK, TakeTyped, prodVars, brokerVars
  <2>3. CASE Publish(d) \/ PublishIgnored(d) \/ PublishRaises(d)
    <3>1. item[d] \in Ids
      BY <2>1, <2>3 DEF Publish, PublishIgnored, PublishRaises, At, Dispatching
    <3> QED
      BY <2>3, <3>1 DEF Publish, PublishIgnored, PublishRaises, Delivered, At, Goto, TypeOK,
         Dispatching, prodVars
  <2>4. CASE MarkSentReads(d)
    BY <2>4 DEF MarkSentReads, At, Goto, TypeOK, Dispatching, prodVars, brokerVars
  <2>5. CASE MarkRetryReads(d)
    <3>1. rows[item[d]].attempts \in Nat
      BY <2>1, <2>5 DEF MarkRetryReads, At, Dispatching, TypeOK, Row
    <3> QED
      BY <2>5, <3>1 DEF MarkRetryReads, At, TypeOK, Dispatching, prodVars, brokerVars
  <2>6. CASE ClaimLost(d)
    <3>1. TakeTyped(d)
      BY <2>6, TakeTypes DEF ClaimLost, TypeOK
    <3> QED
      BY <2>6, <3>1 DEF ClaimLost, TypeOK, TakeTyped, prodVars, brokerVars
  <2>7. CASE MarkSentWrites(d) \/ MarkRetryWrites(d)
    <3>1. TakeTyped(d)
      BY <2>7, TakeTypes DEF MarkSentWrites, MarkRetryWrites, TypeOK
    <3>2. rows' \in [Ids -> Row]
      BY <2>1, <2>7, RowsTyped DEF MarkSentWrites, MarkRetryWrites, At, Dispatching
    <3> QED
      BY <2>7, <3>1, <3>2 DEF MarkSentWrites, MarkRetryWrites, TypeOK, TakeTyped, prodVars, brokerVars
  <2>8. CASE MarkSentRaises(d)
    <3>1. rows' \in [Ids -> Row]
      BY <2>1, <2>8, RowsTyped DEF MarkSentRaises, At, Dispatching, TypeOK
    <3> QED
      BY <2>8, <3>1 DEF MarkSentRaises, At, Goto, TypeOK, Dispatching, prodVars, brokerVars
  <2>9. CASE MarkRetryRaises(d)
    <3>1. TakeTyped(d)
      BY <2>9, TakeTypes DEF MarkRetryRaises
    <3>2. rows' \in [Ids -> Row]
      BY <2>1, <2>9, RowsTyped DEF MarkRetryRaises, At, Dispatching, TypeOK
    <3> QED
      BY <2>9, <3>1, <3>2 DEF MarkRetryRaises, TypeOK, TakeTyped, prodVars, brokerVars
  <2> QED
    BY <1>2, <2>2, <2>3, <2>4, <2>5, <2>6, <2>7, <2>8, <2>9 DEF Dispatch
<1>3. ASSUME NEW d \in Dispatchers, ClaimRaises(d)
      PROVE  TypeOK'
  BY <1>3, RowsTyped DEF ClaimRaises, TypeOK, prodVars, brokerVars, dispVars
<1>4. ASSUME NEW d \in Dispatchers, RequeueReads(d)
      PROVE  TypeOK'
  BY <1>4 DEF RequeueReads, Dead, At, TypeOK, Dispatching, prodVars, brokerVars
<1>5. ASSUME NEW d \in Dispatchers, RequeueWrites(d)
      PROVE  TypeOK'
  <2>1. rows' \in [Ids -> Row]
    BY <1>5, RowsTyped
  <2> QED
    BY <1>5, <2>1 DEF RequeueWrites, At, TypeOK, Dispatching, prodVars, brokerVars
<1>6. ASSUME NEW d \in Dispatchers, Crash(d)
      PROVE  TypeOK'
  BY <1>6 DEF Crash, TypeOK, Dispatching, prodVars, brokerVars
<1>7. ASSUME NEW i \in Ids, BackoffElapses(i) \/ LeaseExpires(i)
      PROVE  TypeOK'
  <2>1. rows \in [Ids -> Row] /\ rows[i] \in Row
    BY DEF TypeOK
  <2>2. [rows[i] EXCEPT !.due = TRUE] \in Row /\ [rows[i] EXCEPT !.expired = TRUE] \in Row
    BY <2>1, RowUpdates
  <2>3. rows' \in [Ids -> Row]
    BY <1>7, <2>1, <2>2 DEF BackoffElapses, LeaseExpires
  <2> QED
    BY <1>7, <2>3 DEF BackoffElapses, LeaseExpires, TypeOK, prodVars, brokerVars, dispVars
<1>8. CASE UNCHANGED vars
  BY <1>8 DEF vars, TypeOK, prodVars, brokerVars, dispVars
<1> QED
  BY <1>1, <1>2, <1>3, <1>4, <1>5, <1>6, <1>7, <1>8 DEF Next

\* The variables have their types, and a dispatcher has a row in hand exactly
\* while it dispatches.
THEOREM TypeCorrect == Spec => []TypeOK
<1> QED
  BY InitTyped, TypeStep, PTL DEF Spec
-----------------------------------------------------------------------------
(* SentWasPublished.  A dispatcher that is about to mark its row has handed *)
(* the message over; the row may be another's by then, which does no harm.  *)

Over(i) == i \in published \/ i \in dropped

HandedOver == \A d \in Dispatchers : pc[d] \in {"sent?", "sent!"} => Over(item[d])

LEMMA OverIsForever ==
  ASSUME TypeOK, [Next]_vars, NEW i \in Ids, Over(i)
  PROVE  Over(i)'
<1>1. ASSUME NEW d \in Dispatchers, Delivered(d), dropped' = dropped
      PROVE  Over(i)'
  BY <1>1 DEF Over, Delivered, TypeOK
<1>2. CASE UNCHANGED brokerVars
  BY <1>2 DEF Over, brokerVars
<1>3. ASSUME NEW d \in Dispatchers, PublishIgnored(d)
      PROVE  Over(i)'
  BY <1>3 DEF Over, PublishIgnored
<1>4. UNCHANGED brokerVars \/ \E d \in Dispatchers :
          PublishIgnored(d) \/ (Delivered(d) /\ dropped' = dropped)
  BY DEF Next, Enqueue, Lookup, Insert, Dispatch, ClaimPending, Publish, PublishRaises,
     MarkSentReads, MarkSentWrites, MarkSentRaises, MarkRetryReads, MarkRetryWrites,
     MarkRetryRaises, ClaimLost, ClaimRaises, RequeueReads, RequeueWrites, Crash,
     BackoffElapses, LeaseExpires, vars, brokerVars
<1> QED
  BY <1>1, <1>2, <1>3, <1>4

(* How a row becomes sent.                                                 *)
LEMMA SentByDispatcher ==
  ASSUME TypeOK, [Next]_vars, NEW i \in Ids, rows[i].status # "sent", rows'[i].status = "sent"
  PROVE  \E d \in Dispatchers : pc[d] = "sent!" /\ item[d] = i
<1>1. rows \in [Ids -> Row] /\ rows[i] \in Row
  BY DEF TypeOK
<1>2. ASSUME NEW d \in Dispatchers, rows' = ClaimedBy(d)
      PROVE  FALSE
  BY <1>1, <1>2 DEF ClaimedBy, Row
<1>3. ASSUME NEW d \in Dispatchers, item[d] \in Ids, Retried(d)
      PROVE  FALSE
  <2>1. i # item[d]
    BY <1>1, <1>3, FailedTyped DEF Retried, TypeOK
  <2> QED
    BY <1>1, <1>3, <2>1 DEF Retried
<1>4. ASSUME NEW d \in Dispatchers, item[d] \in Ids, Sent(d)
      PROVE  i = item[d]
  BY <1>1, <1>4 DEF Sent
<1>5. ASSUME NEW d \in Dispatchers, RequeueWrites(d)
      PROVE  FALSE
  BY <1>1, <1>5 DEF RequeueWrites, Row
<1>6. ASSUME NEW p \in Producers, NewRow(p)
      PROVE  FALSE
  BY <1>1, <1>6 DEF NewRow, Blank
<1>7. ASSUME NEW j \in Ids, BackoffElapses(j) \/ LeaseExpires(j)
      PROVE  FALSE
  BY <1>1, <1>7 DEF BackoffElapses, LeaseExpires, Row
<1>8. ~UNCHANGED rows
  OBVIOUS
<1>9. CASE \E p \in Producers : Enqueue(p)
  BY <1>6, <1>8, <1>9 DEF Enqueue, Lookup, Insert
<1>10. ASSUME NEW d \in Dispatchers, Dispatch(d)
       PROVE  pc[d] = "sent!" /\ item[d] = i
  <2>1. pc[d] \in Dispatching => item[d] \in Ids
    BY DEF TypeOK
  <2> QED
    BY <1>2, <1>3, <1>4, <1>8, <1>10, <2>1 DEF Dispatch, ClaimPending, Publish, PublishIgnored,
       PublishRaises, MarkSentReads, MarkSentWrites, MarkSentRaises, MarkRetryReads,
       MarkRetryWrites, MarkRetryRaises, ClaimLost, Goto, At, Dispatching
<1> QED
  BY <1>2, <1>5, <1>7, <1>8, <1>9, <1>10 DEF Next, ClaimRaises, RequeueReads, Crash, vars

(* How a dispatcher comes to mark a row.                                   *)
LEMMA MarkerPublished ==
  ASSUME TypeOK, [Next]_vars, NEW d \in Dispatchers, pc'[d] \in {"sent?", "sent!"}
  PROVE  item'[d] = item[d] /\ (pc[d] \in {"sent?", "sent!"} \/ Over(item[d])')
<1> USE DEF TypeOK
<1>1. ASSUME NEW e \in Dispatchers, Dispatch(e), e # d
      PROVE  pc'[d] = pc[d] /\ item'[d] = item[d]
  BY <1>1 DEF Dispatch, ClaimPending, Publish, PublishIgnored, PublishRaises, MarkSentReads,
     MarkSentWrites, MarkSentRaises, MarkRetryReads, MarkRetryWrites, MarkRetryRaises, ClaimLost,
     Goto, Take
<1>2. CASE Dispatch(d)
  <2>1. ASSUME NEW left, Take(d, left)
        PROVE  pc'[d] \notin {"sent?", "sent!"}
    BY <2>1 DEF Take
  <2>2. MarkSentReads(d) \/ Publish(d) \/ PublishIgnored(d)
    BY <1>2, <2>1 DEF Dispatch, ClaimPending, PublishRaises, MarkSentWrites, MarkSentRaises,
       MarkRetryReads, MarkRetryWrites, MarkRetryRaises, ClaimLost, Goto
  <2>3. CASE MarkSentReads(d)
    BY <2>3 DEF MarkSentReads, At, Goto
  <2>4. CASE Publish(d) \/ PublishIgnored(d)
    <3>1. item[d] \in Ids
      BY <2>4 DEF Publish, PublishIgnored, At, Dispatching
    <3> QED
      BY <2>4, <3>1 DEF Publish, PublishIgnored, Delivered, Goto, Over
  <2> QED
    BY <2>2, <2>3, <2>4
<1>3. CASE UNCHANGED <<pc, item>>
  BY <1>3
<1>4. ASSUME NEW e \in Dispatchers, RequeueReads(e) \/ RequeueWrites(e) \/ Crash(e)
      PROVE  pc'[d] = pc[d] /\ item'[d] = item[d]
  BY <1>4 DEF RequeueReads, RequeueWrites, Crash
<1> QED
  BY <1>1, <1>2, <1>3, <1>4 DEF Next, Enqueue, Lookup, Insert, ClaimRaises, BackoffElapses,
     LeaseExpires, vars, dispVars

LEMMA HandedStep == TypeOK /\ HandedOver /\ SentWasPublished /\ [Next]_vars
                      => (HandedOver /\ SentWasPublished)'
<1> SUFFICES ASSUME TypeOK, HandedOver, SentWasPublished, [Next]_vars
             PROVE  HandedOver' /\ SentWasPublished'
  OBVIOUS
<1>1. \A d \in Dispatchers : pc[d] \in {"sent?", "sent!"} => item[d] \in Ids
  BY DEF TypeOK, Dispatching
<1>2. HandedOver'
  <2> SUFFICES ASSUME NEW d \in Dispatchers, pc'[d] \in {"sent?", "sent!"}
               PROVE  Over(item[d])'
    BY DEF HandedOver
  <2>1. item'[d] = item[d] /\ (pc[d] \in {"sent?", "sent!"} \/ Over(item[d])')
    BY MarkerPublished
  <2>2. CASE pc[d] \in {"sent?", "sent!"}
    <3>1. Over(item[d]) /\ item[d] \in Ids
      BY <1>1, <2>2 DEF HandedOver
    <3>2. item[d] \in published' \/ item[d] \in dropped'
      BY <3>1, OverIsForever DEF Over
    <3> QED
      BY <2>1, <3>2 DEF Over
  <2> QED
    BY <2>1, <2>2
<1>3. SentWasPublished'
  <2> SUFFICES ASSUME NEW i \in Ids, rows'[i].status = "sent"
               PROVE  Over(i)'
    BY DEF SentWasPublished, Over
  <2>1. Over(i)
    BY SentByDispatcher DEF HandedOver, SentWasPublished, Over
  <2> QED
    BY <2>1, OverIsForever
<1> QED
  BY <1>2, <1>3

\* A sent row's message was handed to the broker (or ignored by it, offline),
\* with any leases, crashes, database errors and concurrent reconciliations.
THEOREM NothingIsSentUnpublished == Spec => []SentWasPublished
<1>1. Init => HandedOver /\ SentWasPublished
  BY DEF Init, HandedOver, SentWasPublished, Blank
<1> QED
  BY <1>1, HandedStep, TypeCorrect, PTL DEF Spec
-----------------------------------------------------------------------------
(* HeldByOne and SentIsFinal, where leases outlast the batches and one      *)
(* caller at most reconciles.  A row in hand is being processed under its   *)
(* holder's claim, except while a mark_sent that raised had in fact been    *)
(* committed; and the rows that are about to be requeued are still dead.    *)

OneReconciler == \A a, b \in Reconcilers : a = b

Kept(d, i) ==
    \/ rows[i].status = "processing" /\ rows[i].token = d /\ ~rows[i].expired
    \/ i = item[d] /\ pc[d] = "retry?" /\ rows[i].status = "sent"

HoldInv ==
    /\ \A d \in Dispatchers : \A i \in Ids : Holds(d, i) => Kept(d, i)
    /\ \A d \in Dispatchers : item[d] \notin rest[d]
    /\ \A d \in Dispatchers : pc[d] \notin Dispatching => rest[d] = {}
    /\ HeldByOne

DoomedInv ==
    \A d \in Dispatchers :
        pc[d] = "requeue" => d \in Reconcilers /\ \A i \in doomed[d] : rows[i].status = "dead"

(* Dispatchers other than d are where they were.                            *)
Alone(d) ==
    \A e \in Dispatchers \ {d} : pc'[e] = pc[e] /\ item'[e] = item[e] /\ rest'[e] = rest[e]

LEMMA TakeHolds ==
  ASSUME TypeOK, NEW d \in Dispatchers, NEW left \in SUBSET Ids, Take(d, left)
  PROVE  /\ Alone(d)
         /\ \A i \in Ids : i = item'[d] \/ i \in rest'[d] <=> i \in left
         /\ item'[d] \notin rest'[d]
         /\ pc'[d] \notin Dispatching => rest'[d] = {}
         /\ pc'[d] \in {"idle", "publish"}
<1>1. NoItem \notin Ids
  BY DEF NoItem, Ids
<1>2. CASE /\ left = {}
           /\ pc' = [pc EXCEPT ![d] = "idle"]
           /\ item' = [item EXCEPT ![d] = NoItem]
           /\ rest' = [rest EXCEPT ![d] = {}]
  BY <1>1, <1>2 DEF TypeOK, Alone
<1>3. ASSUME NEW i \in left,
             /\ pc' = [pc EXCEPT ![d] = "publish"]
             /\ item' = [item EXCEPT ![d] = i]
             /\ rest' = [rest EXCEPT ![d] = left \ {i}]
      PROVE  /\ Alone(d)
             /\ \A j \in Ids : j = item'[d] \/ j \in rest'[d] <=> j \in left
             /\ item'[d] \notin rest'[d]
             /\ pc'[d] = "publish"
  BY <1>3 DEF TypeOK, Alone
<1> QED
  BY <1>2, <1>3 DEF Take, Dispatching

(* A step after which d holds only rows that it held, or that nobody held,  *)
(* and which touches no row in another's hand.                              *)
LEMMA HoldFrame ==
  ASSUME TypeOK, HoldInv, NEW d \in Dispatchers, Alone(d),
         \A i \in Ids : Holds(d, i)' => (Holds(d, i) \/ \A e \in Dispatchers : ~Holds(e, i)),
         \A i \in Ids : Holds(d, i)' => Kept(d, i)',
         \A e \in Dispatchers \ {d}, i \in Ids : Holds(e, i) => rows'[i] = rows[i],
         item'[d] \notin rest'[d], pc'[d] \notin Dispatching => rest'[d] = {}
  PROVE  HoldInv'
<1>1. \A e \in Dispatchers \ {d}, i \in Ids : Holds(e, i)' <=> Holds(e, i)
  BY DEF Alone, Holds
<1>2. \A e \in Dispatchers, i \in Ids : Holds(e, i)' => Kept(e, i)'
  BY <1>1 DEF HoldInv, Kept, Alone
<1>3. HeldByOne'
  BY <1>1 DEF HoldInv, HeldByOne
<1> QED
  BY <1>2, <1>3 DEF HoldInv, Alone

(* Rows that can be claimed are in nobody's hand.                           *)
LEMMA BatchIsFree ==
  ASSUME TypeOK, HoldInv, NEW i \in Batch, NEW e \in Dispatchers
  PROVE  i \in Ids /\ ~Holds(e, i)
<1>1. i \in Ids /\ Claimable(i)
  BY DEF Batch
<1> QED
  BY <1>1 DEF Claimable, HoldInv, Kept

LEMMA ClaimHolds ==
  ASSUME TypeOK, HoldInv, NEW d \in Dispatchers, ClaimPending(d)
  PROVE  HoldInv'
<1>1. Batch \in SUBSET Ids
  BY DEF Batch
<1>2. /\ Alone(d) /\ \A i \in Ids : Holds(d, i)' <=> i \in Batch
      /\ item'[d] \notin rest'[d]
      /\ pc'[d] \notin Dispatching => rest'[d] = {}
  BY <1>1, TakeHolds DEF ClaimPending, Holds
<1>3. \A i \in Batch : rows'[i].status = "processing" /\ rows'[i].token = d /\ ~rows'[i].expired
  BY <1>1 DEF ClaimPending, ClaimedBy, TypeOK, Row
<1>4. \A i \in Ids : i \notin Batch => rows'[i] = rows[i]
  BY DEF ClaimPending, ClaimedBy
<1>5. \A i \in Ids : Holds(d, i)' => Kept(d, i)'
  BY <1>2, <1>3 DEF Kept
<1> QED
  BY <1>2, <1>4, <1>5, BatchIsFree, HoldFrame

(* The steps of _dispatch_item that keep the row in hand.                   *)
LEMMA ItemHolds ==
  ASSUME TypeOK, HoldInv, NEW d \in Dispatchers,
         Publish(d) \/ PublishIgnored(d) \/ PublishRaises(d) \/ MarkSentReads(d)
             \/ MarkRetryReads(d) \/ MarkSentRaises(d)
  PROVE  HoldInv'
<1>1. /\ item' = item /\ rest' = rest /\ Alone(d) /\ pc[d] \in Dispatching /\ item[d] \in Ids
      /\ pc'[d] \in Dispatching
  BY DEF Publish, PublishIgnored, PublishRaises, MarkSentReads, MarkRetryReads, MarkSentRaises,
     Goto, At, TypeOK, Alone, Dispatching
<1>2. \A i \in Ids : Holds(d, i)' <=> Holds(d, i)
  BY <1>1 DEF Holds
<1>3. \A e \in Dispatchers \ {d} : ~Holds(e, item[d])
  BY <1>1 DEF HoldInv, HeldByOne, Holds
<1>4. CASE rows' = rows
  <2>1. ASSUME NEW i \in Ids, Holds(d, i) PROVE Kept(d, i)'
    <3>1. CASE rows[i].status = "processing" /\ rows[i].token = d /\ ~rows[i].expired
      BY <1>4, <3>1 DEF Kept
    <3>2. CASE i = item[d] /\ pc[d] = "retry?" /\ rows[i].status = "sent"
      BY <3>2 DEF Publish, PublishIgnored, PublishRaises, MarkSentReads, MarkRetryReads,
         MarkSentRaises, At, Owns
    <3> QED
      BY <2>1, <3>1, <3>2 DEF HoldInv, Kept
  <2> QED
    BY <1>1, <1>2, <1>4, <2>1, HoldFrame DEF HoldInv
<1>5. CASE rows' # rows
  <2>1. pc[d] = "sent!" /\ Sent(d) /\ pc'[d] = "retry?"
    BY <1>5 DEF Publish, PublishIgnored, PublishRaises, MarkSentReads, MarkRetryReads,
       MarkSentRaises, At, Goto, TypeOK
  <2>2. \A i \in Ids : i # item[d] => rows'[i] = rows[i]
    BY <1>1, <2>1 DEF Sent, TypeOK
  <2>3. rows'[item[d]].status = "sent"
    BY <1>1, <2>1 DEF Sent, Released, TypeOK, Row
  <2>4. \A i \in Ids : Holds(d, i) => Kept(d, i)'
    BY <1>1, <2>1, <2>2, <2>3 DEF HoldInv, Kept
  <2> QED
    BY <1>1, <1>2, <1>3, <2>2, <2>4, HoldFrame DEF HoldInv
<1> QED
  BY <1>4, <1>5

(* The steps that go on to the rest of the batch, or give it up.            *)
LEMMA NextHolds ==
  ASSUME TypeOK, HoldInv, NEW d \in Dispatchers,
         ClaimLost(d) \/ MarkSentWrites(d) \/ MarkRetryWrites(d) \/ MarkRetryRaises(d)
  PROVE  HoldInv'
<1>1. pc[d] \in Dispatching /\ item[d] \in Ids
  BY DEF ClaimLost, MarkSentWrites, MarkRetryWrites, MarkRetryRaises, At, TypeOK, Dispatching
<1>2. PICK left \in {rest[d], {}} : Take(d, left)
  BY DEF ClaimLost, MarkSentWrites, MarkRetryWrites, MarkRetryRaises
<1>3. left \in SUBSET Ids /\ left \subseteq rest[d] /\ item[d] \notin left
  BY <1>2 DEF TypeOK, HoldInv
<1>4. /\ Alone(d) /\ \A i \in Ids : Holds(d, i)' <=> i \in left
      /\ item'[d] \notin rest'[d]
      /\ pc'[d] \notin Dispatching => rest'[d] = {}
  BY <1>2, <1>3, TakeHolds DEF Holds
<1>5. \A i \in Ids : i # item[d] => rows'[i] = rows[i]
  BY <1>1 DEF ClaimLost, MarkSentWrites, MarkRetryWrites, MarkRetryRaises, Sent, Retried, TypeOK
<1>6. \A e \in Dispatchers \ {d} : ~Holds(e, item[d])
  BY <1>1 DEF HoldInv, HeldByOne, Holds
<1>7. ASSUME NEW i \in Ids, i \in left
      PROVE  Holds(d, i) /\ Kept(d, i)'
  <2>1. Holds(d, i) /\ Kept(d, i) /\ i # item[d]
    BY <1>3, <1>7 DEF Holds, HoldInv
  <2> QED
    BY <1>5, <2>1 DEF Kept
<1> QED
  BY <1>4, <1>5, <1>6, <1>7, HoldFrame

(* A new row is not one that is there.                                      *)
LEMMA NewRowFrame ==
  ASSUME TypeOK, NEW p \in Producers, NewRow(p), NEW i \in Ids, rows[i].status # "absent"
  PROVE  rows'[i] = rows[i]
<1>1. PICK j \in Ids : /\ Stored = 1 .. j - 1
                       /\ rows' = [rows EXCEPT ![j] = [Blank EXCEPT !.status = "pending",
                                                                    !.key = Key[p]]]
  BY DEF NewRow
<1>2. i # j
  BY <1>1 DEF Stored, Ids
<1> QED
  BY <1>1, <1>2 DEF TypeOK

LEMMA HoldStep ==
  ASSUME Timely, TypeOK, HoldInv, DoomedInv, [Next]_vars
  PROVE  HoldInv'
<1>1. ASSUME \A e \in Dispatchers, i \in Ids : Holds(e, i) => Kept(e, i)',
             UNCHANGED <<pc, item, rest>>
      PROVE  HoldInv'
  BY <1>1 DEF HoldInv, HeldByOne, Holds
<1>2. ASSUME NEW p \in Producers, Enqueue(p)
      PROVE  HoldInv'
  <2>1. ASSUME NEW e \in Dispatchers, NEW i \in Ids, Holds(e, i)
        PROVE  rows'[i] = rows[i]
    <3>1. rows[i].status # "absent"
      BY <2>1 DEF HoldInv, Kept
    <3>2. CASE NewRow(p)
      BY <3>1, <3>2, NewRowFrame
    <3> QED
      BY <1>2, <3>2 DEF Enqueue, Lookup, Insert
  <2>2. UNCHANGED <<pc, item, rest>>
    BY <1>2 DEF Enqueue, Lookup, Insert, dispVars
  <2> QED
    BY <1>1, <2>1, <2>2 DEF HoldInv, Kept
<1>3. ASSUME NEW d \in Dispatchers, Dispatch(d)
      PROVE  HoldInv'
  BY <1>3, ClaimHolds, ItemHolds, NextHolds DEF Dispatch
<1>4. ASSUME NEW d \in Dispatchers, ClaimRaises(d)
      PROVE  HoldInv'
  <2>1. ASSUME NEW e \in Dispatchers, NEW i \in Ids, Holds(e, i)
        PROVE  rows'[i] = rows[i]
    BY <1>4, <2>1, BatchIsFree DEF ClaimRaises, ClaimedBy
  <2> QED
    BY <1>1, <1>4, <2>1 DEF ClaimRaises, HoldInv, Kept, dispVars
<1>5. ASSUME NEW d \in Dispatchers, RequeueReads(d) \/ RequeueWrites(d)
      PROVE  HoldInv'
  <2>1. /\ Alone(d) /\ item' = item /\ rest' = rest
        /\ pc[d] \notin Dispatching /\ pc'[d] \notin Dispatching
    BY <1>5 DEF RequeueReads, RequeueWrites, At, Alone, TypeOK, Dispatching
  <2>2. \A i \in Ids : ~Holds(d, i) /\ ~Holds(d, i)'
    BY <2>1 DEF HoldInv, Holds, TypeOK, Ids, NoItem
  <2>3. ASSUME NEW e \in Dispatchers, NEW i \in Ids, Holds(e, i)
        PROVE  rows'[i] = rows[i]
    <3>1. rows[i].status # "dead"
      BY <2>3 DEF HoldInv, Kept
    <3> QED
      BY <1>5, <3>1 DEF RequeueReads, RequeueWrites, At, DoomedInv
  <2>4. item'[d] \notin rest'[d] /\ rest'[d] = {}
    BY <2>1 DEF HoldInv
  <2> QED
    BY <2>1, <2>2, <2>3, <2>4, HoldFrame
<1>6. ASSUME NEW d \in Dispatchers, Crash(d)
      PROVE  HoldInv'
  <2>1. Alone(d) /\ item'[d] = NoItem /\ rest'[d] = {} /\ pc'[d] = "down" /\ rows' = rows
    BY <1>6 DEF Crash, Alone, TypeOK
  <2>2. \A i \in Ids : ~Holds(d, i)'
    BY <2>1 DEF Holds, Ids, NoItem
  <2> QED
    BY <2>1, <2>2, HoldFrame
<1>7. ASSUME NEW j \in Ids, BackoffElapses(j) \/ LeaseExpires(j)
      PROVE  HoldInv'
  <2>1. ASSUME NEW e \in Dispatchers, NEW i \in Ids, Holds(e, i)
        PROVE  /\ rows'[i].status = rows[i].status
               /\ rows'[i].token = rows[i].token /\ rows'[i].expired = rows[i].expired
    <3>1. rows \in [Ids -> Row]
      BY DEF TypeOK
    <3>2. CASE BackoffElapses(j)
      BY <3>1, <3>2 DEF BackoffElapses, Row
    <3>3. CASE LeaseExpires(j)
      BY <2>1, <3>1, <3>3 DEF LeaseExpires
    <3> QED
      BY <1>7, <3>2, <3>3
  <2> QED
    BY <1>1, <1>7, <2>1 DEF BackoffElapses, LeaseExpires, HoldInv, Kept, dispVars
<1>8. CASE UNCHANGED vars
  BY <1>1, <1>8 DEF vars, dispVars, HoldInv, Kept
<1> QED
  BY <1>2, <1>3, <1>4, <1>5, <1>6, <1>7, <1>8 DEF Next

LEMMA HoldInit == Init => HoldInv /\ DoomedInv
<1> SUFFICES ASSUME Init PROVE HoldInv /\ DoomedInv
  OBVIOUS
<1>1. \A d \in Dispatchers : \A i \in Ids : ~Holds(d, i)
  BY DEF Init, Holds, Ids, NoItem
<1> QED
  BY <1>1 DEF Init, HoldInv, DoomedInv, HeldByOne, Dispatching

(* A dispatcher that writes its row has it in process.                      *)
LEMMA WriterHolds ==
  ASSUME TypeOK, HoldInv, NEW d \in Dispatchers, pc[d] \in {"sent!", "retry!"}
  PROVE  item[d] \in Ids /\ rows[item[d]].status = "processing"
<1>1. item[d] \in Ids /\ Holds(d, item[d])
  BY DEF TypeOK, Dispatching, Holds
<1> QED
  BY <1>1 DEF HoldInv, Kept

(* Only a reconciliation takes a row out of "sent" or "dead".               *)
LEMMA SettledStays ==
  ASSUME TypeOK, HoldInv, [Next]_vars, NEW i \in Ids, rows[i].status \in {"sent", "dead"},
         ~\E d \in Dispatchers : RequeueWrites(d) /\ i \in doomed[d]
  PROVE  rows'[i].status = rows[i].status
<1> USE DEF TypeOK
<1>1. i \notin Batch
  BY DEF Batch, Claimable
<1>2. ASSUME NEW d \in Dispatchers, Dispatch(d)
      PROVE  rows'[i] = rows[i]
  <2>1. CASE rows' = ClaimedBy(d)
    BY <1>1, <2>1 DEF ClaimedBy
  <2>2. CASE pc[d] \in {"sent!", "retry!"}
    <3>1. item[d] # i /\ item[d] \in Ids
      BY <2>2, WriterHolds
    <3>2. CASE Sent(d)
      BY <3>1, <3>2 DEF Sent
    <3>3. CASE Retried(d)
      BY <3>1, <3>3 DEF Retried
    <3> QED
      BY <1>2, <2>2, <3>2, <3>3 DEF Dispatch, ClaimPending, Publish, PublishIgnored,
         PublishRaises, MarkSentReads, MarkSentWrites, MarkSentRaises, MarkRetryReads,
         MarkRetryWrites, MarkRetryRaises, ClaimLost, At
  <2> QED
    BY <1>2, <2>1, <2>2 DEF Dispatch, ClaimPending, Publish, PublishIgnored, PublishRaises,
       MarkSentReads, MarkSentWrites, MarkSentRaises, MarkRetryReads, MarkRetryWrites,
       MarkRetryRaises, ClaimLost, At
<1>3. ASSUME NEW d \in Dispatchers, ClaimRaises(d)
      PROVE  rows'[i] = rows[i]
  BY <1>1, <1>3 DEF ClaimRaises, ClaimedBy
<1>4. ASSUME NEW d \in Dispatchers, RequeueReads(d) \/ RequeueWrites(d) \/ Crash(d)
      PROVE  rows'[i] = rows[i]
  BY <1>4 DEF RequeueReads, RequeueWrites, Crash
<1>5. ASSUME NEW p \in Producers, Enqueue(p)
      PROVE  rows'[i] = rows[i]
  <2>1. CASE NewRow(p)
    BY <2>1, NewRowFrame
  <2> QED
    BY <1>5, <2>1 DEF Enqueue, Lookup, Insert
<1>6. ASSUME NEW j \in Ids, BackoffElapses(j) \/ LeaseExpires(j)
      PROVE  rows'[i].status = rows[i].status
  BY <1>6 DEF BackoffElapses, LeaseExpires, Row
<1>7. CASE UNCHANGED vars
  BY <1>7 DEF vars
<1> QED
  BY <1>2, <1>3, <1>4, <1>5, <1>6, <1>7 DEF Next

(* Who is at "requeue" has just read the dead rows, or was there already.   *)
LEMMA AtRequeue ==
  ASSUME TypeOK, [Next]_vars, NEW d \in Dispatchers, pc'[d] = "requeue"
  PROVE  \/ RequeueReads(d)
         \/ /\ pc[d] = "requeue" /\ doomed'[d] = doomed[d]
            /\ \A e \in Dispatchers : RequeueWrites(e) => e # d
<1> USE DEF TypeOK
<1>1. ASSUME NEW e \in Dispatchers, Dispatch(e)
      PROVE  pc[d] = "requeue" /\ doomed'[d] = doomed[d]
  <2>1. ASSUME NEW left, Take(e, left)
        PROVE  pc[d] = "requeue" /\ doomed'[d] = doomed[d]
    BY <2>1 DEF Take
  <2>2. ASSUME NEW there \in Dispatching, Goto(e, there)
        PROVE  pc[d] = "requeue" /\ doomed'[d] = doomed[d]
    BY <2>2 DEF Goto, Dispatching
  <2>3. CASE MarkRetryReads(e)
    BY <2>3 DEF MarkRetryReads
  <2> QED
    BY <1>1, <2>1, <2>2, <2>3 DEF Dispatch, ClaimPending, Publish, PublishIgnored, PublishRaises,
       MarkSentReads, MarkSentWrites, MarkSentRaises, MarkRetryWrites, MarkRetryRaises, ClaimLost,
       Dispatching
<1>2. ASSUME NEW e \in Dispatchers, RequeueReads(e), e # d
      PROVE  pc[d] = "requeue" /\ doomed'[d] = doomed[d]
  BY <1>2 DEF RequeueReads
<1>3. ASSUME NEW e \in Dispatchers, RequeueWrites(e)
      PROVE  e # d /\ pc[d] = "requeue" /\ doomed'[d] = doomed[d]
  BY <1>3 DEF RequeueWrites
<1>4. ASSUME NEW e \in Dispatchers, Crash(e)
      PROVE  pc[d] = "requeue" /\ doomed'[d] = doomed[d]
  BY <1>4 DEF Crash
<1>5. CASE UNCHANGED <<pc, doomed>>
  BY <1>3, <1>5
<1> QED
  BY <1>1, <1>2, <1>3, <1>4, <1>5 DEF Next, Enqueue, Lookup, Insert, ClaimRaises, BackoffElapses,
     LeaseExpires, vars, dispVars

LEMMA DoomedStep ==
  ASSUME OneReconciler, TypeOK, HoldInv, DoomedInv, [Next]_vars
  PROVE  DoomedInv'
<1> SUFFICES ASSUME NEW d \in Dispatchers, pc'[d] = "requeue"
             PROVE  d \in Reconcilers /\ \A i \in doomed'[d] : rows'[i].status = "dead"
  BY DEF DoomedInv
<1>1. CASE RequeueReads(d)
  <2>1. d \in Reconcilers /\ doomed'[d] = Dead /\ rows' = rows
    BY <1>1 DEF RequeueReads, TypeOK
  <2> QED
    BY <2>1 DEF Dead
<1>2. CASE /\ pc[d] = "requeue" /\ doomed'[d] = doomed[d]
           /\ \A e \in Dispatchers : RequeueWrites(e) => e # d
  <2>1. d \in Reconcilers /\ doomed[d] \subseteq Ids
        /\ \A i \in doomed[d] : rows[i].status = "dead"
    BY <1>2 DEF DoomedInv, TypeOK
  <2>2. ASSUME NEW e \in Dispatchers, RequeueWrites(e)
        PROVE  FALSE
    <3>1. e \in Reconcilers
      BY <2>2 DEF RequeueWrites, At, DoomedInv
    <3> QED
      BY <1>2, <2>1, <2>2, <3>1 DEF OneReconciler
  <2> QED
    BY <1>2, <2>1, <2>2, SettledStays
<1> QED
  BY <1>1, <1>2, AtRequeue

\* Where leases outlast the batches and one caller at most reconciles, any number
\* of dispatchers crash, lose answers and fail without two of them ever having
\* one row in hand.
THEOREM OneHolder ==
  ASSUME Timely, OneReconciler
  PROVE  Spec => []HeldByOne
<1>1. TypeOK /\ HoldInv /\ DoomedInv /\ [Next]_vars => HoldInv' /\ DoomedInv'
  BY HoldStep, DoomedStep
<1>2. HoldInv => HeldByOne
  BY DEF HoldInv
<1> QED
  BY <1>1, <1>2, HoldInit, TypeCorrect, PTL DEF Spec

\* Under the same assumptions a sent row stays sent: no late mark_retry, no other
\* claim and no reconciliation writes over it.
THEOREM SentStaysSent ==
  ASSUME Timely, OneReconciler
  PROVE  Spec => SentIsFinal
<1>1. TypeOK /\ HoldInv /\ DoomedInv /\ [Next]_vars => HoldInv' /\ DoomedInv'
  BY HoldStep, DoomedStep
<1>2. TypeOK /\ HoldInv /\ DoomedInv /\ [Next]_vars
         => [\A i \in Ids : rows[i].status = "sent" => rows'[i].status = "sent"]_vars
  <2> SUFFICES ASSUME TypeOK, HoldInv, DoomedInv, [Next]_vars,
                      NEW i \in Ids, rows[i].status = "sent"
               PROVE  rows'[i].status = "sent"
    OBVIOUS
  <2>1. ASSUME NEW d \in Dispatchers, RequeueWrites(d), i \in doomed[d]
        PROVE  FALSE
    BY <2>1 DEF RequeueWrites, At, DoomedInv
  <2> QED
    BY <2>1, SettledStays
<1> QED
  BY <1>1, <1>2, HoldInit, TypeCorrect, PTL DEF Spec, SentIsFinal
-----------------------------------------------------------------------------
(* OneRowPerKey.  Rows are only added, and keep their keys.                 *)

KeyInv ==
    /\ OneRowPerKey
    /\ \A i \in Ids : rows[i].status = "absent" => rows[i].key = NoKey
    /\ \A p \in Producers : ticket[p] \in Ids => rows[ticket[p]].status # "absent"

KeysStay ==
    \A i \in Ids : /\ rows'[i].key = rows[i].key
                   /\ rows'[i].status = "absent" => rows[i].status = "absent"

LEMMA DispatchKeepsKeys ==
  ASSUME TypeOK, NEW d \in Dispatchers,
         Dispatch(d) \/ ClaimRaises(d) \/ RequeueReads(d) \/ RequeueWrites(d) \/ Crash(d)
  PROVE  KeysStay /\ ticket' = ticket
<1>1. rows \in [Ids -> Row] /\ \A i \in Ids : rows[i] \in Row
  BY DEF TypeOK
<1>2. ASSUME rows' = ClaimedBy(d)
      PROVE  KeysStay
  <2> SUFFICES ASSUME NEW i \in Ids
               PROVE  /\ rows'[i].key = rows[i].key
                      /\ rows'[i].status = "absent" => rows[i].status = "absent"
    BY DEF KeysStay
  <2>1. rows[i] \in Row
    BY <1>1
  <2>2. CASE i \in Batch
    BY <1>2, <2>1, <2>2 DEF ClaimedBy, Row
  <2>3. CASE i \notin Batch
    BY <1>2, <2>3 DEF ClaimedBy
  <2> QED
    BY <2>2, <2>3
<1>3. ASSUME item[d] \in Ids, Sent(d)
      PROVE  KeysStay
  BY <1>1, <1>3 DEF Sent, Released, Row, KeysStay
<1>4. ASSUME item[d] \in Ids, Retried(d)
      PROVE  KeysStay
  <2>1. Failed(rows[item[d]], seen[d]).key = rows[item[d]].key
    BY <1>1, <1>4 DEF Failed, Released, Row
  <2>2. Failed(rows[item[d]], seen[d]).status # "absent"
    BY <1>1, <1>4, FailedTyped DEF TypeOK
  <2> QED
    BY <1>1, <1>4, <2>1, <2>2 DEF Retried, KeysStay
<1>5. ASSUME RequeueWrites(d)
      PROVE  KeysStay
  <2> SUFFICES ASSUME NEW i \in Ids
               PROVE  /\ rows'[i].key = rows[i].key
                      /\ rows'[i].status = "absent" => rows[i].status = "absent"
    BY DEF KeysStay
  <2>1. rows[i] \in Row
    BY <1>1
  <2> QED
    BY <1>5, <2>1 DEF RequeueWrites, Row
<1>6. pc[d] \in Dispatching => item[d] \in Ids
  BY DEF TypeOK
<1>7. ASSUME rows' = rows
      PROVE  KeysStay
  BY <1>7 DEF KeysStay
<1>8. ticket' = ticket
  BY DEF Dispatch, ClaimPending, Publish, PublishIgnored, PublishRaises, MarkSentReads,
     MarkSentWrites, MarkSentRaises, MarkRetryReads, MarkRetryWrites, MarkRetryRaises, ClaimLost,
     ClaimRaises, RequeueReads, RequeueWrites, Crash, prodVars
<1> QED
  BY <1>2, <1>3, <1>4, <1>5, <1>6, <1>7, <1>8 DEF Dispatch, ClaimPending, Publish, PublishIgnored,
     PublishRaises, MarkSentReads, MarkSentWrites, MarkSentRaises, MarkRetryReads,
     MarkRetryWrites, MarkRetryRaises, ClaimLost, ClaimRaises, RequeueReads, Crash, At, Dispatching

LEMMA KeyStep == TypeOK /\ KeyInv /\ [Next]_vars => KeyInv'
<1> SUFFICES ASSUME TypeOK, KeyInv, [Next]_vars PROVE KeyInv'
  OBVIOUS
<1> USE DEF TypeOK
<1>1. ASSUME KeysStay, ticket' = ticket
      PROVE  KeyInv'
  BY <1>1 DEF KeysStay, KeyInv, OneRowPerKey
<1>2. ASSUME NEW p \in Producers, Found(p), rows' = rows
      PROVE  KeyInv'
  BY <1>2 DEF Found, SameKey, Stored, KeyInv, OneRowPerKey
<1>3. ASSUME NEW p \in Producers, rows' = rows, ticket' = [ticket EXCEPT ![p] = Missing]
      PROVE  KeyInv'
  <2>1. Missing \notin Ids
    BY DEF Missing, Ids
  <2> QED
    BY <1>3, <2>1 DEF KeyInv, OneRowPerKey
<1>4. ASSUME NEW p \in Producers, SameKey(p) = {}, NewRow(p)
      PROVE  KeyInv'
  <2>1. PICK j \in Ids :
          /\ Stored = 1 .. j - 1
          /\ rows' = [rows EXCEPT ![j] = [Blank EXCEPT !.status = "pending", !.key = Key[p]]]
          /\ ticket' = [ticket EXCEPT ![p] = j]
    BY <1>4 DEF NewRow
  <2>2. rows[j].status = "absent"
    BY <2>1 DEF Stored, Ids
  <2>3. rows'[j].status = "pending" /\ rows'[j].key = Key[p]
    BY <2>1 DEF Blank
  <2>4. \A i \in Ids : i # j => rows'[i] = rows[i]
    BY <2>1
  <2>5. \A i \in Ids : i # j /\ rows[i].key = Key[p] => Key[p] = NoKey
    BY <1>4 DEF SameKey, Stored, KeyInv
  <2>6. \A q \in Producers : q # p => ticket'[q] = ticket[q] /\ ticket[q] # j
    BY <2>1, <2>2 DEF KeyInv
  <2>7. OneRowPerKey'
    <3>1. \A i, k \in Ids : rows'[i].key = rows'[k].key /\ rows'[i].key # NoKey => i = k
      BY <2>3, <2>4, <2>5 DEF KeyInv, OneRowPerKey
    <3>2. \A q \in Producers : ticket'[q] \in Ids => rows'[ticket'[q]].key = Key[q]
      BY <2>1, <2>3, <2>4, <2>6 DEF KeyInv, OneRowPerKey
    <3> QED
      BY <3>1, <3>2 DEF OneRowPerKey
  <2>8. \A i \in Ids : rows'[i].status = "absent" => rows'[i].key = NoKey
    BY <2>3, <2>4 DEF KeyInv
  <2>9. \A q \in Producers : ticket'[q] \in Ids => rows'[ticket'[q]].status # "absent"
    BY <2>1, <2>3, <2>4, <2>6 DEF KeyInv
  <2> QED
    BY <2>7, <2>8, <2>9 DEF KeyInv
<1>5. ASSUME NEW i \in Ids, BackoffElapses(i) \/ LeaseExpires(i)
      PROVE  KeyInv'
  <2>1. CASE BackoffElapses(i)
    BY <1>1, <2>1 DEF BackoffElapses, KeysStay, Row, prodVars
  <2>2. CASE LeaseExpires(i)
    BY <1>1, <2>2 DEF LeaseExpires, KeysStay, Row, prodVars
  <2> QED
    BY <1>5, <2>1, <2>2
<1>6. ASSUME NEW p \in Producers, Enqueue(p)
      PROVE  KeyInv'
  BY <1>2, <1>3, <1>4, <1>6 DEF Enqueue, Lookup, Insert
<1>7. CASE UNCHANGED vars
  BY <1>1, <1>7 DEF KeysStay, vars, prodVars
<1> QED
  BY <1>1, <1>5, <1>6, <1>7, DispatchKeepsKeys DEF Next

\* However many calls of enqueue race for one dedupe key, there is one row for it,
\* and each of them answers with the id of a row that has its key.
THEOREM OneRowForOneKey == Spec => []OneRowPerKey
<1>1. Init => KeyInv
  BY DEF Init, KeyInv, OneRowPerKey, Blank, Uncalled, Ids
<1>2. KeyInv => OneRowPerKey
  BY DEF KeyInv
<1> QED
  BY <1>1, <1>2, KeyStep, TypeCorrect, PTL DEF Spec
-----------------------------------------------------------------------------
(* Every step is a step of KeyedDelivery, or none.  That a message goes out   *)
(* only while its row waits is HoldInv, that a row is sent only after that is *)
(* HandedOver, that a key has one box KeyInv, and that a reconciliation takes *)
(* up what is still dead DoomedInv.                                         *)

BoxMap == [i \in Ids |-> Box(rows[i])]
KeyMap == [i \in Ids |-> rows[i].key]
Given == [p \in Producers |-> IF ticket[p] \in Ids THEN ticket[p] ELSE Missing]
Handed == published \cup dropped

Refines == [Delivery!ANext]_(Delivery!avars)

Inv == TypeOK /\ HoldInv /\ DoomedInv /\ HandedOver /\ KeyInv

LEMMA Unmoved ==
  ASSUME \A i \in Ids : Box(rows'[i]) = Box(rows[i]) /\ rows'[i].key = rows[i].key,
         Given' = Given, Handed' = Handed
  PROVE  Refines
<1>1. BoxMap' = BoxMap /\ KeyMap' = KeyMap
  BY DEF BoxMap, KeyMap
<1>2. UNCHANGED Delivery!avars
  BY <1>1 DEF Delivery!avars, BoxMap, KeyMap, Given, Handed
<1>3. QED
  BY <1>2 DEF Refines

LEMMA BoxOfStatus ==
  ASSUME NEW row, NEW other, row.status = other.status
  PROVE  Box(row) = Box(other)
BY DEF Box

LEMMA SameStatuses ==
  ASSUME \A i \in Ids : rows'[i].status = rows[i].status /\ rows'[i].key = rows[i].key,
         UNCHANGED <<prodVars, brokerVars>>
  PROVE  Refines
<1>1. Given' = Given /\ Handed' = Handed
  BY DEF Given, Handed, prodVars, brokerVars
<1>2. \A i \in Ids : Box(rows'[i]) = Box(rows[i])
  BY BoxOfStatus
<1>3. QED
  BY <1>1, <1>2, Unmoved

(* The callers.                                                            *)

LEMMA GivenStep ==
  ASSUME TypeOK, NEW p \in Producers, ticket[p] \in {Uncalled, Missing}, NEW i \in Ids,
         ticket' = [ticket EXCEPT ![p] = i]
  PROVE  Given[p] = Missing /\ Given' = [Given EXCEPT ![p] = i]
<1>1. Uncalled \notin Ids /\ Missing \notin Ids
  BY DEF Uncalled, Missing, Ids
<1>2. \A q \in Producers : ticket'[q] = IF q = p THEN i ELSE ticket[q]
  BY DEF TypeOK
<1>3. QED
  BY <1>1, <1>2 DEF Given

LEMMA FoundRefines ==
  ASSUME Inv, NEW p \in Producers, ticket[p] \in {Uncalled, Missing}, Found(p),
         UNCHANGED <<rows, brokerVars>>
  PROVE  Refines
<1>1. PICK i \in SameKey(p) : ticket' = [ticket EXCEPT ![p] = i]
  BY DEF Found
<1>2. /\ i \in Ids /\ rows[i].status # "absent"
      /\ Key[p] # NoKey /\ rows[i].key = Key[p]
  BY DEF SameKey, Stored
<1>3. Given[p] = Missing /\ Given' = [Given EXCEPT ![p] = i]
  BY <1>1, <1>2, GivenStep DEF Inv
<1>4. Box(rows[i]) # "none"
  BY <1>2 DEF Box
<1>5. Handed' = Handed /\ BoxMap' = BoxMap /\ KeyMap' = KeyMap
  BY DEF Handed, BoxMap, KeyMap, brokerVars
<1>6. Delivery!Reuse(p, i)
  BY <1>2, <1>3, <1>4, <1>5
     DEF Delivery!Reuse, Delivery!Give, Delivery!NoBox, BoxMap, KeyMap, Given, Handed, Missing
<1>7. QED
  BY <1>2, <1>6 DEF Refines, Delivery!ANext

LEMMA NewRowRefines ==
  ASSUME Inv, NEW p \in Producers, ticket[p] \in {Uncalled, Missing}, SameKey(p) = {}, NewRow(p),
         UNCHANGED brokerVars
  PROVE  Refines
<1> DEFINE new == [Blank EXCEPT !.status = "pending", !.key = Key[p]]
<1>1. PICK i \in Ids : /\ Stored = 1 .. i - 1
                       /\ rows' = [rows EXCEPT ![i] = new]
                       /\ ticket' = [ticket EXCEPT ![p] = i]
  BY DEF NewRow
<1>2. rows[i].status = "absent"
  BY <1>1 DEF Stored, Ids
<1>3. new.status = "pending" /\ new.key = Key[p]
  BY DEF Blank
<1>4. Box(rows[i]) = "none" /\ Box(new) = "waiting"
  BY <1>2, <1>3 DEF Box
<1>5. \A j \in Ids : rows'[j] = IF j = i THEN new ELSE rows[j]
  BY <1>1 DEF Inv, TypeOK
<1>6. BoxMap' = [BoxMap EXCEPT ![i] = "waiting"] /\ KeyMap' = [KeyMap EXCEPT ![i] = Key[p]]
  BY <1>3, <1>4, <1>5 DEF BoxMap, KeyMap
<1>7. \A j \in Ids : rows[j].key = Key[p] => Key[p] = NoKey
  BY DEF SameKey, Stored, Inv, KeyInv
<1>8. Given[p] = Missing /\ Given' = [Given EXCEPT ![p] = i]
  BY <1>1, GivenStep DEF Inv
<1>9. Handed' = Handed
  BY DEF Handed, brokerVars
<1>10. Delivery!Fill(p, i)
  BY <1>4, <1>6, <1>7, <1>8, <1>9
     DEF Delivery!Fill, Delivery!Give, Delivery!NoBox, BoxMap, KeyMap, Given, Handed, Missing
<1>11. QED
  BY <1>10 DEF Refines, Delivery!ANext

LEMMA EnqueueRefines ==
  ASSUME Inv, NEW p \in Producers, Enqueue(p)
  PROVE  Refines
<1>1. ticket[p] \in {Uncalled, Missing} /\ UNCHANGED brokerVars
  BY DEF Enqueue, Lookup, Insert, Inserting
<1>2. CASE rows' = rows /\ Found(p)
  BY <1>1, <1>2, FoundRefines
<1>3. CASE rows' = rows /\ ticket' = [ticket EXCEPT ![p] = Missing]
  <2>1. Uncalled \notin Ids /\ Missing \notin Ids
    BY DEF Uncalled, Missing, Ids
  <2>2. Given' = Given /\ Handed' = Handed
    BY <1>1, <1>3, <2>1 DEF Given, Handed, brokerVars, Inv, TypeOK
  <2>3. QED
    BY <1>3, <2>2, Unmoved
<1>4. CASE SameKey(p) = {} /\ NewRow(p)
  BY <1>1, <1>4, NewRowRefines
<1>5. QED
  BY <1>2, <1>3, <1>4 DEF Enqueue, Lookup, Insert

(* The dispatchers.                                                        *)

LEMMA ClaimRefines ==
  ASSUME Inv, NEW d \in Dispatchers, rows' = ClaimedBy(d), UNCHANGED <<prodVars, brokerVars>>
  PROVE  Refines
<1>1. Given' = Given /\ Handed' = Handed
  BY DEF Given, Handed, prodVars, brokerVars
<1>2. ASSUME NEW i \in Ids
      PROVE  Box(rows'[i]) = Box(rows[i]) /\ rows'[i].key = rows[i].key
  <2>1. CASE i \in Batch
    <3>1. rows[i] \in Row /\ rows[i].status \in {"pending", "retry", "processing"}
      BY <2>1 DEF Inv, TypeOK, Batch, Claimable
    <3>2. rows'[i].status = "processing" /\ rows'[i].key = rows[i].key
      BY <2>1, <3>1 DEF ClaimedBy, Row
    <3>3. QED
      BY <3>1, <3>2 DEF Box
  <2>2. CASE i \notin Batch
    BY <2>2 DEF ClaimedBy
  <2>3. QED
    BY <2>1, <2>2
<1>3. QED
  BY <1>1, <1>2, Unmoved

LEMMA PublishRefines ==
  ASSUME Inv, NEW d \in Dispatchers, At(d, "publish"), Handed' = Handed \cup {item[d]},
         UNCHANGED <<rows, prodVars>>
  PROVE  Refines
<1>1. item[d] \in Ids /\ Holds(d, item[d])
  BY DEF Inv, TypeOK, At, Dispatching, Holds
<1>2. rows[item[d]].status = "processing"
  BY <1>1 DEF Inv, HoldInv, Kept, At
<1>3. Box(rows[item[d]]) = "waiting"
  BY <1>2 DEF Box
<1>4. BoxMap' = BoxMap /\ KeyMap' = KeyMap /\ Given' = Given
  BY DEF BoxMap, KeyMap, Given, prodVars
<1>5. Delivery!HandOver(item[d])
  BY <1>1, <1>3, <1>4 DEF Delivery!HandOver, BoxMap, KeyMap, Given, Handed
<1>6. QED
  BY <1>1, <1>5 DEF Refines, Delivery!ANext

LEMMA SentRefines ==
  ASSUME Inv, NEW d \in Dispatchers, At(d, "sent!"), Sent(d), UNCHANGED <<prodVars, brokerVars>>
  PROVE  Refines
<1> DEFINE i == item[d]
<1>1. i \in Ids /\ rows[i].status = "processing" /\ i \in Handed
  BY WriterHolds DEF Inv, At, HandedOver, Over, Handed
<1>2. rows[i] \in Row
  BY <1>1 DEF Inv, TypeOK
<1>3. \A j \in Ids : rows'[j] = IF j = i THEN [Released(rows[i]) EXCEPT !.status = "sent"] ELSE rows[j]
  BY <1>1 DEF Sent, Inv, TypeOK
<1>4. rows'[i].status = "sent" /\ rows'[i].key = rows[i].key
  BY <1>1, <1>2, <1>3 DEF Released, Row
<1>5. Box(rows[i]) = "waiting" /\ Box(rows'[i]) = "sent"
  BY <1>1, <1>4 DEF Box
<1>6. BoxMap' = [BoxMap EXCEPT ![i] = "sent"] /\ KeyMap' = KeyMap
  BY <1>1, <1>3, <1>4, <1>5 DEF BoxMap, KeyMap
<1>7. Given' = Given /\ Handed' = Handed
  BY DEF Given, Handed, prodVars, brokerVars
<1>8. Delivery!Settle(i)
  BY <1>1, <1>5, <1>6, <1>7 DEF Delivery!Settle, BoxMap, KeyMap, Given, Handed
<1>9. QED
  BY <1>1, <1>8 DEF Refines, Delivery!ANext

LEMMA RetriedRefines ==
  ASSUME Inv, NEW d \in Dispatchers, At(d, "retry!"), Retried(d), UNCHANGED <<prodVars, brokerVars>>
  PROVE  Refines
<1> DEFINE i == item[d]
<1>1. i \in Ids /\ rows[i].status = "processing" /\ seen[d] \in Nat
  BY WriterHolds DEF Inv, At, TypeOK
<1>2. rows[i] \in Row
  BY <1>1 DEF Inv, TypeOK
<1>3. \A j \in Ids : rows'[j] = IF j = i THEN Failed(rows[i], seen[d]) ELSE rows[j]
  BY <1>1 DEF Retried, Inv, TypeOK
<1>4. rows'[i].status \in {"dead", "retry"} /\ rows'[i].key = rows[i].key
  <2>1. Failed(rows[i], seen[d]).key = rows[i].key
    BY <1>2 DEF Failed, Released, Row
  <2>2. QED
    BY <1>1, <1>2, <1>3, <2>1, FailedTyped
<1>5. Given' = Given /\ Handed' = Handed
  BY DEF Given, Handed, prodVars, brokerVars
<1>6. Box(rows[i]) = "waiting"
  BY <1>1 DEF Box
<1>7. CASE rows'[i].status = "retry"
  <2>1. Box(rows'[i]) = "waiting"
    BY <1>7 DEF Box
  <2>2. QED
    BY <1>3, <1>4, <1>5, <1>6, <2>1, Unmoved
<1>8. CASE rows'[i].status = "dead"
  <2>1. Box(rows'[i]) = "dead"
    BY <1>8 DEF Box
  <2>2. BoxMap' = [BoxMap EXCEPT ![i] = "dead"] /\ KeyMap' = KeyMap
    BY <1>1, <1>3, <1>4, <2>1 DEF BoxMap, KeyMap
  <2>3. Delivery!Settle(i)
    BY <1>1, <1>5, <1>6, <2>2 DEF Delivery!Settle, BoxMap, KeyMap, Given, Handed
  <2>4. QED
    BY <1>1, <2>3 DEF Refines, Delivery!ANext
<1>9. QED
  BY <1>4, <1>7, <1>8

LEMMA RequeueRefines ==
  ASSUME Inv, NEW d \in Dispatchers, RequeueWrites(d)
  PROVE  Refines
<1> DEFINE bs == doomed[d]
<1>1. bs \subseteq Ids /\ \A i \in bs : rows[i].status = "dead"
  BY DEF RequeueWrites, At, Inv, DoomedInv, TypeOK
<1>2. ASSUME NEW i \in Ids
      PROVE  /\ Box(rows'[i]) = IF i \in bs THEN "waiting" ELSE Box(rows[i])
             /\ rows'[i].key = rows[i].key
  <2>1. rows[i] \in Row
    BY DEF Inv, TypeOK
  <2>2. rows'[i] = IF i \in bs THEN [rows[i] EXCEPT !.status = "retry", !.due = TRUE] ELSE rows[i]
    BY DEF RequeueWrites
  <2>3. i \in bs => rows'[i].status = "retry" /\ rows'[i].key = rows[i].key
    BY <2>1, <2>2 DEF Row
  <2>4. QED
    BY <2>2, <2>3 DEF Box
<1>3. BoxMap' = [i \in Ids |-> IF i \in bs THEN "waiting" ELSE BoxMap[i]] /\ KeyMap' = KeyMap
  BY <1>2 DEF BoxMap, KeyMap
<1>4. Given' = Given /\ Handed' = Handed
  BY DEF RequeueWrites, Given, Handed, prodVars, brokerVars
<1>5. \A i \in bs : BoxMap[i] = "dead"
  BY <1>1 DEF BoxMap, Box
<1>6. Delivery!Revive(bs)
  BY <1>3, <1>4, <1>5 DEF Delivery!Revive, BoxMap, KeyMap, Given, Handed
<1>7. QED
  BY <1>1, <1>6 DEF Refines, Delivery!ANext

LEMMA DispatchRefines ==
  ASSUME Inv, NEW d \in Dispatchers, Dispatch(d)
  PROVE  Refines
<1>1. CASE UNCHANGED <<rows, prodVars, brokerVars>>
  BY <1>1, SameStatuses
<1>2. CASE ClaimPending(d)
  BY <1>2, ClaimRefines DEF ClaimPending
<1>3. CASE Publish(d) \/ PublishIgnored(d) \/ PublishRaises(d)
  <2>1. At(d, "publish") /\ UNCHANGED <<rows, prodVars>>
        /\ (Handed' = Handed \cup {item[d]} \/ UNCHANGED brokerVars)
    BY <1>3 DEF Publish, PublishIgnored, PublishRaises, Delivered, Handed, brokerVars
  <2>2. QED
    BY <1>1, <2>1, PublishRefines
<1>4. CASE MarkSentWrites(d) \/ MarkSentRaises(d)
  BY <1>1, <1>4, SentRefines DEF MarkSentWrites, MarkSentRaises
<1>5. CASE MarkRetryWrites(d) \/ MarkRetryRaises(d)
  BY <1>1, <1>5, RetriedRefines DEF MarkRetryWrites, MarkRetryRaises
<1>6. QED
  BY <1>1, <1>2, <1>3, <1>4, <1>5 DEF Dispatch, MarkSentReads, MarkRetryReads, ClaimLost

LEMMA NextRefines ==
  ASSUME Inv, [Next]_vars
  PROVE  Refines
<1>1. ASSUME NEW d \in Dispatchers, ClaimRaises(d) PROVE Refines
  BY <1>1, ClaimRefines DEF ClaimRaises
<1>2. ASSUME NEW d \in Dispatchers, RequeueReads(d) \/ Crash(d) PROVE Refines
  BY <1>2, SameStatuses DEF RequeueReads, Crash
<1>3. ASSUME NEW i \in Ids, BackoffElapses(i) \/ LeaseExpires(i) PROVE Refines
  <2>1. \A j \in Ids : rows[j] \in Row
    BY DEF Inv, TypeOK
  <2>2. ASSUME NEW j \in Ids
        PROVE  rows'[j].status = rows[j].status /\ rows'[j].key = rows[j].key
    <3>1. rows[j] \in Row
      BY <2>1
    <3>2. rows'[j] \in {rows[j], [rows[j] EXCEPT !.due = TRUE], [rows[j] EXCEPT !.expired = TRUE]}
      BY <1>3 DEF BackoffElapses, LeaseExpires, Inv, TypeOK
    <3>3. QED
      BY <3>1, <3>2 DEF Row
  <2>3. QED
    BY <1>3, <2>2, SameStatuses DEF BackoffElapses, LeaseExpires
<1>4. CASE UNCHANGED vars
  BY <1>4, SameStatuses DEF vars
<1>5. QED
  BY <1>1, <1>2, <1>3, <1>4, EnqueueRefines, DispatchRefines, RequeueRefines DEF Next

LEMMA InitRefines == Init => Delivery!AInit
<1> SUFFICES ASSUME Init PROVE Delivery!AInit
  OBVIOUS
<1>1. BoxMap = [i \in Ids |-> "none"] /\ KeyMap = [i \in Ids |-> NoKey]
  BY DEF Init, BoxMap, KeyMap, Box, Blank
<1>2. Given = [p \in Producers |-> 0] /\ Handed = {}
  <2>1. Uncalled \notin Ids
    BY DEF Uncalled, Ids
  <2>2. QED
    BY <2>1 DEF Init, Given, Handed, Missing
<1>3. QED
  BY <1>1, <1>2 DEF Delivery!AInit, Delivery!NoBox, BoxMap, KeyMap, Given, Handed

\* Where leases outlast the batches and one caller at most reconciles, the table, its
\* racing producers and its dispatchers, which crash, lose answers and fail to publish,
\* implement the delivery that an outbox promises.
THEOREM OutboxDelivers ==
  ASSUME Timely, OneReconciler
  PROVE  Spec => ImplementsKeyedDelivery
<1>1. TypeOK /\ HoldInv /\ DoomedInv /\ [Next]_vars => HoldInv' /\ DoomedInv'
  BY HoldStep, DoomedStep
<1>2. Init => HandedOver /\ SentWasPublished /\ KeyInv
  BY DEF Init, HandedOver, SentWasPublished, Blank, KeyInv, OneRowPerKey, Uncalled, Ids
<1>3. Inv /\ [Next]_vars => [Delivery!ANext]_(Delivery!avars)
  BY NextRefines DEF Refines
<1>4. TypeOK /\ HoldInv /\ DoomedInv /\ HandedOver /\ KeyInv => Inv
  BY DEF Inv
<1>5. QED
  BY <1>1, <1>2, <1>3, <1>4, HoldInit, HandedStep, KeyStep, TypeCorrect, InitRefines, PTL
     DEF Spec, ImplementsKeyedDelivery, Delivery!ASpec
=============================================================================
