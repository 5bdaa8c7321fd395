--------------------- MODULE ChatStreamRefinement_proofs ---------------------
(* ChatStreamRun implements DurableStream: for every number of requests and *)
(* processes, each step of the rows, threads and handlers is a step of the   *)
(* abstract stream or none.                                                *)
EXTENDS ChatStreamRun_proofs

(***************************************************************************)
(* The refinement mapping of Stream, by name.                              *)
(***************************************************************************)
EventAt(i) == CHOOSE e \in events : e.seq = i
Executed == {r \in Requests : task[r]["produce"] # "none"}
Log == [i \in 1 .. run.seq |-> (CHOOSE e \in events : e.seq = i).kind]
Outcome == IF run.status \in TerminalStatus \cup {"deleted"} THEN run.status ELSE "open"
Sent == [r \in Requests |-> [i \in 1 .. Len(got[r]) |-> got[r][i].kind]]
State == [r \in Requests |-> CASE pc[r] = "idle" -> "out"
                               [] pc[r] = "closed" -> "ended"
                               [] pc[r] \in Gone \ {"closed"} -> "left"
                               [] OTHER -> "in"]

(* What the steps of ChatStreamRun rely on.                                *)
Inv ==
    /\ TypeOK /\ LedgerContiguous /\ ClaimInv /\ DeliveryInv /\ FinalInv
    /\ OutcomeInLedger

(* The log holds the kinds of the events, by their numbers.                *)
LEMMA EventsByNumber ==
    ASSUME TypeOK, LedgerContiguous
    PROVE  /\ run.seq \in Nat
           /\ \A i \in 1 .. run.seq : EventAt(i) \in events /\ EventAt(i).seq = i
           /\ \A e \in events : e.seq \in 1 .. run.seq /\ EventAt(e.seq) = e
           /\ Log \in Seq(Kinds) /\ Len(Log) = run.seq
           /\ \A i \in 1 .. run.seq : Log[i] = EventAt(i).kind
<1>1. run.seq \in Nat
  BY DEF TypeOK, RunRow
<1>2. ASSUME NEW i \in 1 .. run.seq PROVE EventAt(i) \in events /\ EventAt(i).seq = i
  <2>1. \E e \in events : e.seq = i
    BY DEF LedgerContiguous
  <2>2. QED
    BY <2>1 DEF EventAt
<1>3. ASSUME NEW e \in events PROVE e.seq \in 1 .. run.seq /\ EventAt(e.seq) = e
  <2>1. e.seq \in 1 .. run.seq
    BY DEF LedgerContiguous
  <2>2. QED
    BY <1>2, <2>1 DEF LedgerContiguous
<1>4. Log = [i \in 1 .. run.seq |-> EventAt(i).kind]
  BY DEF Log, EventAt
<1>5. \A i \in 1 .. run.seq : EventAt(i).kind \in Kinds
  BY <1>2 DEF TypeOK, Event
<1>6. QED
  BY <1>1, <1>2, <1>3, <1>4, <1>5

LEMMA LogKept ==
    ASSUME events' = events, run'.seq = run.seq
    PROVE  Log' = Log
  BY DEF Log

LEMMA LogGrows ==
    ASSUME TypeOK, TypeOK', LedgerContiguous, LedgerContiguous', NEW k \in Kinds, Added(k)
    PROVE  Log' = Append(Log, k)
<1>1. run'.seq = run.seq + 1 /\ run.seq \in Nat /\ events \subseteq events'
  BY EventsByNumber DEF Added
<1>2. ASSUME NEW i \in 1 .. run.seq, NEW e \in events', e.seq = i
      PROVE  e.kind = EventAt(i).kind
  <2>1. EventAt(i) \in events' /\ EventAt(i).seq = i
    BY <1>1, EventsByNumber
  <2>2. QED
    BY <1>2, <2>1 DEF LedgerContiguous
<1>3. ASSUME NEW e \in events', e.seq = run.seq + 1
      PROVE  e.kind = k
  <2>1. [seq |-> run.seq + 1, kind |-> k] \in events'
    BY DEF Added
  <2>2. QED
    BY <1>3, <2>1 DEF LedgerContiguous
<1>4. /\ Log' = [i \in 1 .. run.seq + 1 |-> EventAt(i)'.kind]
      /\ \A i \in 1 .. run.seq + 1 : EventAt(i)' \in events' /\ EventAt(i)'.seq = i
  <2>1. Log' = [i \in 1 .. run.seq + 1 |-> EventAt(i)'.kind]
    BY <1>1 DEF Log, EventAt
  <2>2. ASSUME NEW i \in 1 .. run.seq + 1
        PROVE  EventAt(i)' \in events' /\ EventAt(i)'.seq = i
    <3>1. \E e \in events' : e.seq = i
      BY <1>1 DEF LedgerContiguous
    <3>2. QED
      BY <3>1 DEF EventAt
  <2>3. QED
    BY <2>1, <2>2
<1>5. Log \in Seq(Kinds) /\ Len(Log) = run.seq
      /\ \A i \in 1 .. run.seq : Log[i] = EventAt(i).kind
  BY EventsByNumber
<1>6. /\ Append(Log, k) \in Seq(Kinds) /\ Len(Append(Log, k)) = run.seq + 1
      /\ \A i \in 1 .. run.seq + 1 :
            Append(Log, k)[i] = IF i = run.seq + 1 THEN k ELSE Log[i]
  BY <1>1, <1>5
<1>7. Append(Log, k) = [i \in 1 .. run.seq + 1 |-> Append(Log, k)[i]]
  <2>1. \A s \in Seq(Kinds) : s = [i \in 1 .. Len(s) |-> s[i]]
    OBVIOUS
  <2>2. QED
    BY <1>6, <2>1
<1>8. ASSUME NEW i \in 1 .. run.seq + 1 PROVE EventAt(i)'.kind = Append(Log, k)[i]
  <2>1. CASE i = run.seq + 1
    BY <1>3, <1>4, <1>6, <2>1
  <2>2. CASE i # run.seq + 1
    <3>1. i \in 1 .. run.seq
      BY <1>1, <2>2
    <3>2. QED
      BY <1>2, <1>4, <1>5, <1>6, <2>2, <3>1
  <2>3. QED
    BY <2>1, <2>2
<1>9. QED
  BY <1>4, <1>7, <1>8

(* What a subscriber was sent.                                             *)
KindsOf(rows) == [i \in 1 .. Len(rows) |-> rows[i].kind]

LEMMA KindsOfAppend ==
    ASSUME NEW rows \in Seq(Event), NEW e \in Event
    PROVE  KindsOf(Append(rows, e)) = Append(KindsOf(rows), e.kind)
<1>1. /\ Len(rows) \in Nat /\ \A i \in 1 .. Len(rows) : rows[i].kind \in Kinds
      /\ e.kind \in Kinds
  <2>1. Len(rows) \in Nat /\ \A i \in 1 .. Len(rows) : rows[i] \in Event
    OBVIOUS
  <2>2. QED
    BY <2>1 DEF Event
<1>2. KindsOf(rows) \in Seq(Kinds) /\ Len(KindsOf(rows)) = Len(rows)
      /\ \A i \in 1 .. Len(rows) : KindsOf(rows)[i] = rows[i].kind
  <2>1. KindsOf(rows) \in [1 .. Len(rows) -> Kinds]
        /\ \A i \in 1 .. Len(rows) : KindsOf(rows)[i] = rows[i].kind
    BY <1>1 DEF KindsOf
  <2>2. \A n \in Nat : \A s \in [1 .. n -> Kinds] : s \in Seq(Kinds) /\ Len(s) = n
    OBVIOUS
  <2>3. QED
    BY <1>1, <2>1, <2>2
<1>3. /\ Append(KindsOf(rows), e.kind) \in Seq(Kinds)
      /\ Len(Append(KindsOf(rows), e.kind)) = Len(rows) + 1
      /\ \A i \in 1 .. Len(rows) + 1 :
            Append(KindsOf(rows), e.kind)[i] = IF i = Len(rows) + 1 THEN e.kind ELSE rows[i].kind
  BY <1>1, <1>2
<1>4. /\ Len(Append(rows, e)) = Len(rows) + 1
      /\ \A i \in 1 .. Len(rows) + 1 :
            Append(rows, e)[i] = IF i = Len(rows) + 1 THEN e ELSE rows[i]
  OBVIOUS
<1>5. KindsOf(Append(rows, e)) = [i \in 1 .. Len(rows) + 1 |-> Append(rows, e)[i].kind]
  BY <1>4 DEF KindsOf
<1>6. \A s \in Seq(Kinds) : s = [i \in 1 .. Len(s) |-> s[i]]
  OBVIOUS
<1>7. Append(KindsOf(rows), e.kind) =
        [i \in 1 .. Len(rows) + 1 |-> Append(KindsOf(rows), e.kind)[i]]
  BY <1>3, <1>6
<1>8. QED
  BY <1>3, <1>4, <1>5, <1>7

LEMMA SentGrows ==
    ASSUME TypeOK, NEW r \in Requests, NEW e \in Event,
           got' = [got EXCEPT ![r] = Append(@, e)]
    PROVE  Sent' = [Sent EXCEPT ![r] = Append(@, e.kind)]
<1>1. Sent = [x \in Requests |-> KindsOf(got[x])] /\ Sent' = [x \in Requests |-> KindsOf(got'[x])]
  BY DEF Sent, KindsOf
<1>2. got[r] \in Seq(Event) /\ got'[r] = Append(got[r], e)
      /\ \A x \in Requests \ {r} : got'[x] = got[x]
  BY DEF TypeOK
<1>3. Sent'[r] = Append(Sent[r], e.kind)
  BY <1>1, <1>2, KindsOfAppend
<1>4. \A x \in Requests \ {r} : Sent'[x] = Sent[x]
  BY <1>1, <1>2
<1>5. QED
  BY <1>1, <1>3, <1>4

LEMMA Unmoved ==
    ASSUME UNCHANGED <<Executed, Log, Outcome, after, Sent, State>>
    PROVE  UNCHANGED Stream!avars
  BY DEF Stream!avars, Executed, Log, Outcome, Sent, State

(* A handler that is in stays in, wherever it goes.                        *)
Inside == Places \ (Gone \cup {"idle"})

LEMMA StateKept ==
    ASSUME TypeOK,
           \A r \in Requests : pc'[r] = pc[r] \/ (pc[r] \in Inside /\ pc'[r] \in Inside)
    PROVE  State' = State
  BY DEF State, Inside, Gone, Places

(* Handlers that are refused or dropped.                                   *)
LEMMA Leaves ==
    ASSUME TypeOK, NEW fs \in SUBSET {r \in Requests : pc[r] \in Inside}, NEW lost \in SUBSET fs,
           \A r \in Requests : pc'[r] = IF r \in fs THEN pc'[r] ELSE pc[r],
           \A r \in fs : pc'[r] \in Gone \ {"closed"},
           \A r \in Requests : got'[r] = IF r \in lost THEN <<>> ELSE got[r],
           UNCHANGED <<Executed, Log, Outcome, after>>
    PROVE  Stream!Leave
<1>1. fs \in SUBSET {r \in Requests : State[r] = "in"}
  BY DEF State, Inside, Gone, Places
<1>2. State' = [r \in Requests |-> IF r \in fs THEN "left" ELSE State[r]]
  BY DEF State, Gone
<1>3. Sent' = [r \in Requests |-> IF r \in lost THEN <<>> ELSE Sent[r]]
  <2>1. \A r \in lost : [i \in 1 .. Len(got'[r]) |-> got'[r][i].kind] = <<>>
    OBVIOUS
  <2>2. QED
    BY <2>1 DEF Sent
<1>4. \E x \in SUBSET fs : Sent' = [r \in Requests |-> IF r \in x THEN <<>> ELSE Sent[r]]
  BY <1>3
<1>5. \E y \in SUBSET {r \in Requests : State[r] = "in"} :
         /\ State' = [r \in Requests |-> IF r \in y THEN "left" ELSE State[r]]
         /\ \E x \in SUBSET y :
               Sent' = [r \in Requests |-> IF r \in x THEN <<>> ELSE Sent[r]]
  BY <1>1, <1>2, <1>4
<1>6. QED
  BY <1>5 DEF Stream!Leave, Executed, Log, Outcome, Sent, State

Refines == [Stream!ANext]_(Stream!avars)

LEMMA HandlerMoves ==
    ASSUME TypeOK, NEW r \in Requests, NEW there \in Inside \cup (Gone \ {"closed"}),
           pc[r] \in Inside, pc' = [pc EXCEPT ![r] = there],
           UNCHANGED <<Executed, Log, Outcome, after, got>>
    PROVE  Refines
<1>1. pc'[r] = there /\ \A x \in Requests \ {r} : pc'[x] = pc[x]
  BY DEF TypeOK
<1>2. CASE there \in Inside
  <2>1. State' = State
    BY <1>1, <1>2, StateKept
  <2>2. QED
    BY <2>1, Unmoved DEF Sent, Refines
<1>3. CASE there \in Gone \ {"closed"}
  <2>1. Stream!Leave
    <3>1. {r} \in SUBSET {x \in Requests : pc[x] \in Inside} /\ {} \in SUBSET {r}
      OBVIOUS
    <3>2. QED
      BY <1>1, <1>3, <3>1, Leaves
  <2>2. QED
    BY <2>1 DEF Refines, Stream!ANext
<1>4. QED
  BY <1>2, <1>3

(* Attaching enters the stream, starts its source or leaves it.            *)
LEMMA AttachRefines ==
    ASSUME Inv, Inv', NEW r \in Requests, Attach(r)
    PROVE  Refines
<1> USE DEF Inv
<1>1. /\ Log' = Log /\ got' = got
      /\ run' = run \/ (/\ run.status \in {"absent", "pending"}
                        /\ run'.status \in {"pending", "running"})
      /\ UNCHANGED task \/ TrackProducer(r)
  BY AttachMoves, AttachFrame, LogKept
<1>2. Outcome' = Outcome
  BY <1>1 DEF Outcome, TerminalStatus
<1>3. UNCHANGED task => Executed' = Executed
  BY DEF Executed
<1>4. CASE Arrive(r)
  <2>1. /\ pc[r] = "idle" /\ pc' = [pc EXCEPT ![r] = "begin"] /\ after' \in [Requests -> Nat]
        /\ after' = [after EXCEPT ![r] = after'[r]] /\ UNCHANGED task
    BY <1>4 DEF Arrive, Goto, prodVars, TypeOK
  <2>2. State[r] = "out" /\ State' = [State EXCEPT ![r] = "in"]
    BY <2>1 DEF State, TypeOK, Gone
  <2>3. Stream!Enter(r)
    BY <1>1, <1>2, <1>3, <2>1, <2>2 DEF Stream!Enter, Executed, Log, Outcome, Sent, State
  <2>4. QED
    BY <2>3 DEF Refines, Stream!ANext
<1>5. CASE ~Arrive(r) /\ UNCHANGED task
  <2>1. after' = after
    BY <1>5, AttachFrame
  <2>2. Found(r) \in Inside \cup (Gone \ {"closed"})
    BY DEF Found, Inside, Gone, Places
  <2>3. \E there \in Inside \cup (Gone \ {"closed"}) :
            pc[r] \in Inside /\ pc' = [pc EXCEPT ![r] = there]
    <3>1. CASE BeginOrGet(r)
      BY <2>2, <3>1 DEF BeginOrGet, Goto, Inside, Gone, Places
    <3>2. CASE InsertPending(r) \/ InsertConflicts(r)
      BY <2>2, <3>2 DEF InsertPending, InsertConflicts, Goto, Inside, Gone, Places
    <3>3. CASE ClaimPending(r) \/ ClaimTaken(r) \/ TrackProducer(r)
      BY <3>3 DEF ClaimPending, ClaimTaken, TrackProducer, Goto, Inside, Gone, Places
    <3>4. QED
      BY <1>5, <3>1, <3>2, <3>3 DEF Attach
  <2>4. QED
    BY <1>1, <1>2, <1>3, <1>5, <2>1, <2>3, HandlerMoves
<1>6. CASE TrackProducer(r) /\ task' # task
  <2> DEFINE started == [c \in Coroutines |-> CASE c = "produce" -> "waiting"
                                                [] c = "consumer" -> "reading"
                                                [] OTHER -> "sleeping"]
  <2>1. /\ pc[r] = "track" /\ pc' = [pc EXCEPT ![r] = "poll"]
        /\ UNCHANGED <<run, after, got>>
        /\ task' = [task EXCEPT ![r] = started]
    BY <1>6 DEF TrackProducer, Goto, rowVars, readVars
  <2>2. Executed = {}
    BY <2>1 DEF ClaimInv, Executed, Started
  <2>3. Executed' = {r}
    <3>1. task'[r] = started /\ \A x \in Requests \ {r} : task'[x] = task[x]
      BY <2>1 DEF TypeOK
    <3>2. started["produce"] = "waiting"
      BY DEF Coroutines
    <3>3. QED
      BY <2>2, <3>1, <3>2 DEF Executed
  <2>4. State' = State
    <3>1. \A x \in Requests : pc'[x] = pc[x] \/ (pc[x] \in Inside /\ pc'[x] \in Inside)
      BY <2>1 DEF TypeOK, Inside, Gone, Places
    <3>2. QED
      BY <3>1, StateKept
  <2>5. Stream!Execute(r)
    BY <1>1, <1>2, <2>1, <2>2, <2>3, <2>4
       DEF Stream!Execute, Executed, Log, Outcome, Sent, State
  <2>6. QED
    BY <2>5 DEF Refines, Stream!ANext
<1>7. QED
  BY <1>1, <1>4, <1>5, <1>6

LEMMA EndsAs ==
    ASSUME NEW r \in Requests, State[r] = "in", Outcome # "open",
           after[r] + Len(Sent[r]) >= Len(Log), State' = [State EXCEPT ![r] = "ended"],
           UNCHANGED <<Executed, Log, Outcome, after, Sent>>
    PROVE  Stream!End(r)
  BY DEF Stream!End, Executed, Log, Outcome, Sent, State

(* Following moves the handler, sends it the next event or ends it; a stale *)
(* run is closed by the error event that says so.                          *)
LEMMA FollowRefines ==
    ASSUME Inv, Inv', NEW r \in Requests, Follow(r)
    PROVE  Refines
<1> USE DEF Inv
<1>1. UNCHANGED <<task, after>>
  BY DEF Follow, GetRun, InterruptStaleRun, NotStale, List, Yield, prodVars
<1>2. Executed' = Executed
  BY <1>1 DEF Executed
<1>3. CASE GetRun(r) \/ NotStale(r)
  <2>1. UNCHANGED <<run, events, got>>
    BY <1>3 DEF GetRun, NotStale, rowVars
  <2>2. UNCHANGED <<Log, Outcome>>
    BY <2>1, LogKept DEF Outcome
  <2>3. \E there \in Inside \cup (Gone \ {"closed"}) :
            pc[r] \in Inside /\ pc' = [pc EXCEPT ![r] = there]
    BY <1>3 DEF GetRun, NotStale, Goto, Inside, Gone, Places
  <2>4. QED
    BY <1>1, <1>2, <2>1, <2>2, <2>3, HandlerMoves
<1>4. CASE InterruptStaleRun(r)
  <2>1. /\ Added("error") /\ run.status = "running" /\ run'.status = "failed"
        /\ pc[r] = "interrupt" /\ pc' = [pc EXCEPT ![r] = "poll"] /\ got' = got
    BY <1>4 DEF InterruptStaleRun, Stale, Goto, Added, TypeOK, RunRow
  <2>2. Log' = Append(Log, "error") /\ "error" \in Kinds
    BY <2>1, LogGrows DEF Kinds, TerminalKinds
  <2>3. Outcome = "open" /\ Outcome' = "failed" /\ "failed" \in TerminalStatus
    BY <2>1 DEF Outcome, TerminalStatus
  <2>4. State' = State
    <3>1. \A x \in Requests : pc'[x] = pc[x] \/ (pc[x] \in Inside /\ pc'[x] \in Inside)
      BY <2>1 DEF TypeOK, Inside, Gone, Places
    <3>2. QED
      BY <3>1, StateKept
  <2>5. Stream!Write
    BY <1>1, <1>2, <2>1, <2>2, <2>3, <2>4
       DEF Stream!Write, Executed, Log, Outcome, Sent, State
  <2>6. QED
    BY <2>5 DEF Refines, Stream!ANext
<1>5. CASE List(r)
  <2>1. UNCHANGED <<run, events, got>> /\ pc[r] = "list"
    BY <1>5 DEF List, rowVars
  <2>2. UNCHANGED <<Log, Outcome>>
    BY <2>1, LogKept DEF Outcome
  <2>3. CASE pc' = [pc EXCEPT ![r] = "closed"]
    <3>1. Outcome # "open" /\ cursor[r] >= run.seq
      <4>1. pc'[r] = "closed" /\ UNCHANGED cursor
        BY <1>5, <2>3 DEF TypeOK, List
      <4>2. run'.status \in TerminalStatus \cup {"deleted"} /\ cursor'[r] >= run'.seq
        BY <4>1 DEF FinalInv
      <4>3. QED
        BY <2>1, <4>1, <4>2 DEF Outcome, TerminalStatus
    <3>2. State[r] = "in" /\ State' = [State EXCEPT ![r] = "ended"]
      BY <2>1, <2>3 DEF State, TypeOK, Gone
    <3>3. after[r] + Len(Sent[r]) >= Len(Log)
      <4>1. Len(got[r]) \in Nat
        BY DEF TypeOK
      <4>2. Len(Sent[r]) = Len(got[r])
        BY <4>1 DEF Sent
      <4>3. Len(Log) = run.seq
        BY EventsByNumber
      <4>4. QED
        BY <3>1, <4>2, <4>3 DEF DeliveryInv, DeliveredTo
    <3>4. Stream!End(r)
      <4>1. UNCHANGED <<Executed, Log, Outcome, after, Sent>>
        BY <1>1, <1>2, <2>1, <2>2 DEF Sent
      <4>2. QED
        BY <3>1, <3>2, <3>3, <4>1, EndsAs
    <3>5. QED
      BY <3>4 DEF Refines, Stream!ANext
  <2>4. CASE pc' # [pc EXCEPT ![r] = "closed"]
    <3>1. \E there \in Inside \cup (Gone \ {"closed"}) :
              pc[r] \in Inside /\ pc' = [pc EXCEPT ![r] = there]
      BY <1>5, <2>4 DEF List, Inside, Gone, Places
    <3>2. QED
      BY <1>1, <1>2, <2>1, <2>2, <3>1, HandlerMoves
  <2>5. QED
    BY <2>3, <2>4
<1>6. CASE Yield(r)
  <2>1. PICK e \in batch[r] :
          /\ \A f \in batch[r] : e.seq <= f.seq
          /\ got' = [got EXCEPT ![r] = Append(@, e)]
          /\ pc' = [pc EXCEPT ![r] = IF batch[r] = {e} THEN "poll" ELSE "yield"]
    BY <1>6 DEF Yield
  <2>2. pc[r] = "yield" /\ UNCHANGED <<run, events>>
    BY <1>6 DEF Yield, rowVars
  <2>3. e \in events /\ e \in Event /\ e.seq = cursor[r] + 1
    BY <2>1, NextRow DEF DeliveryInv, TypeOK
  <2>4. UNCHANGED <<Log, Outcome>>
    BY <2>2, LogKept DEF Outcome
  <2>5. Sent' = [Sent EXCEPT ![r] = Append(@, e.kind)]
    BY <2>1, <2>3, SentGrows
  <2>6. State' = State /\ State[r] = "in"
    <3>1. \A x \in Requests : pc'[x] = pc[x] \/ (pc[x] \in Inside /\ pc'[x] \in Inside)
      BY <2>1, <2>2 DEF TypeOK, Inside, Gone, Places
    <3>2. QED
      BY <2>2, <3>1, StateKept DEF State, Gone
  <2>7. after[r] + Len(Sent[r]) + 1 = e.seq
    <3>1. Len(got[r]) \in Nat
      BY DEF TypeOK
    <3>2. Len(Sent[r]) = Len(got[r])
      BY <3>1 DEF Sent
    <3>3. QED
      BY <2>3, <3>2 DEF DeliveryInv, DeliveredTo
  <2>8. e.seq <= Len(Log) /\ Log[e.seq] = e.kind
    BY <2>3, EventsByNumber
  <2>9. Stream!Send(r)
    BY <1>1, <1>2, <2>4, <2>5, <2>6, <2>7, <2>8
       DEF Stream!Send, Executed, Log, Outcome, Sent, State
  <2>10. QED
    BY <2>9 DEF Refines, Stream!ANext
<1>7. QED
  BY <1>3, <1>4, <1>5, <1>6 DEF Follow

(* The coroutines of a producer start no other.                            *)
LEMMA ProducerExecutes ==
    ASSUME TypeOK, ClaimInv, ProducerStep
    PROVE  Executed' = Executed
<1>1. CASE OrphanCommits \/ OrphanRaises
  BY <1>1 DEF OrphanCommits, OrphanRaises, Executed
<1>2. ASSUME NEW r \in Requests, Consume(r) \/ FailOwnedRun(r) \/ Heartbeat(r)
      PROVE  \E c \in Coroutines, there \in TaskStates \ {"none"} :
                task[r][c] # "none" /\ Becomes(r, c, there)
  <2>1. {"reading", "sleeping", "ended", "appending", "finishing", "reporting", "failing",
         "renewing"} \subseteq TaskStates \ {"none"}
    BY DEF TaskStates, Calling
  <2>2. CASE Consume(r)
    BY <2>1, <2>2 DEF Consume, SourceYields, SourceEnds, SourceRaises, AppendReturns,
       FinishReturns, ConsumerRaises, At, Coroutines
  <2>3. CASE FailOwnedRun(r)
    BY <2>1, <2>3 DEF FailOwnedRun, ReportReturns, FailReturns, FailOwnedRunRaises, At,
       Coroutines
  <2>4. CASE Heartbeat(r)
    BY <2>1, <2>4 DEF Heartbeat, HeartbeatWakes, RenewReturns, RenewRaises, At, Coroutines
  <2>5. QED
    BY <1>2, <2>2, <2>3, <2>4
<1>3. ASSUME NEW r \in Requests, Consume(r) \/ FailOwnedRun(r) \/ Heartbeat(r)
      PROVE  Executed' = Executed
  <2>1. \A x \in Requests : Started(x)' = Started(x)
    BY <1>2, <1>3, BecomesStarted
  <2>2. QED
    BY <2>1 DEF Executed, Started
<1>4. QED
  BY <1>1, <1>3 DEF ProducerStep

(* Its transactions write the log or close it.                             *)
LEMMA ProducerRefines ==
    ASSUME Inv, Inv', ProducerStep
    PROVE  Refines
<1> USE DEF Inv
<1>1. UNCHANGED <<Executed, after, Sent, State>>
  BY ProducerExecutes, ProducerFrame DEF reqVars, readVars, Sent, State
<1>2. CASE UNCHANGED rowVars
  BY <1>1, <1>2, Unmoved, LogKept DEF rowVars, Outcome, Refines
<1>3. ASSUME NEW call \in Calls, Commit(call) PROVE Refines
  <2>1. CASE ~Owns(call.tok)
    BY <1>2, <1>3, <2>1 DEF Commit
  <2>2. CASE Owns(call.tok) /\ call.op = "append" /\ AppendEvent(call.arg)
    <3>1. /\ call.arg \in Kinds /\ Added(call.arg) /\ run.status = "running"
          /\ run'.status = "running"
      BY <2>2 DEF Calls, AppendEvent, Added, Owns, TypeOK, RunRow
    <3>2. Log' = Append(Log, call.arg)
      BY <3>1, LogGrows
    <3>3. Outcome = "open" /\ Outcome' = "open"
      BY <3>1 DEF Outcome, TerminalStatus
    <3>4. Stream!Write
      BY <1>1, <3>1, <3>2, <3>3 DEF Stream!Write, Executed, Log, Outcome, Sent, State
    <3>5. QED
      BY <3>4 DEF Refines, Stream!ANext
  <2>3. CASE Owns(call.tok) /\ call.op = "finish" /\ Finish(call.arg)
    <3>1. /\ call.arg \in TerminalStatus /\ run.status = "running" /\ run'.status = call.arg
          /\ events' = events /\ run'.seq = run.seq
      BY <2>3 DEF Calls, Finish, Owns, TypeOK, RunRow
    <3>2. Log' = Log
      BY <3>1, LogKept
    <3>3. Log # <<>>
      <4>1. PICK e \in events : TRUE
        BY <3>1 DEF OutcomeInLedger, TerminalStatus
      <4>2. Len(Log) = run.seq /\ run.seq \in Nat /\ e.seq \in 1 .. run.seq
        BY EventsByNumber
      <4>3. QED
        BY <4>2
    <3>4. Outcome = "open" /\ Outcome' \in TerminalStatus
      BY <3>1 DEF Outcome, TerminalStatus
    <3>5. Stream!Close
      BY <1>1, <3>2, <3>3, <3>4 DEF Stream!Close, Executed, Log, Outcome, Sent, State
    <3>6. QED
      BY <3>5 DEF Refines, Stream!ANext
  <2>4. CASE Owns(call.tok) /\ call.op = "renew" /\ RenewLease
    <3>1. events' = events /\ run'.seq = run.seq /\ run'.status = run.status
      BY <2>4 DEF RenewLease, TypeOK, RunRow
    <3>2. UNCHANGED <<Log, Outcome>>
      BY <3>1, LogKept DEF Outcome
    <3>3. QED
      BY <1>1, <3>2, Unmoved DEF Refines
  <2>5. QED
    BY <1>3, <2>1, <2>2, <2>3, <2>4 DEF Commit
<1>4. QED
  BY <1>2, <1>3, ProducerStepCommits

(* A crash or a shutdown ends what was started, and starts nothing.          *)
LEMMA DropsExecute ==
    ASSUME TypeOK, ClaimInv,
           \/ \E r \in Requests : Disconnect(r) \/ ProduceStops(r)
           \/ \E p \in Processes : Crash(p) \/ Shutdown(p)
    PROVE  Executed' = Executed
<1>1. CASE \E r \in Requests : Disconnect(r)
  BY <1>1 DEF Disconnect, prodVars, Executed
<1>2. ASSUME NEW r \in Requests, ProduceStops(r) PROVE Executed' = Executed
  <2>1. task[r]["produce"] = "waiting" /\ task' = [task EXCEPT ![r] = [c \in Coroutines |-> "ended"]]
    BY <1>2 DEF ProduceStops, At
  <2>2. task'[r]["produce"] = "ended" /\ \A x \in Requests \ {r} : task'[x] = task[x]
    BY <2>1 DEF TypeOK, Coroutines
  <2>3. QED
    BY <2>1, <2>2 DEF Executed
<1>3. ASSUME NEW p \in Processes, Crash(p) PROVE Executed' = Executed
  <2>1. ASSUME NEW r \in Requests
        PROVE  (task'[r]["produce"] = "none") <=> (task[r]["produce"] = "none")
    <3>1. CASE r \in Producing(p)
      <4>1. task[r]["produce"] # "none"
        BY <3>1 DEF Producing, Idle, ClaimInv, Started, Coroutines
      <4>2. task'[r]["produce"] = "ended"
        BY <1>3, <3>1 DEF Crash, Coroutines
      <4>3. QED
        BY <4>1, <4>2
    <3>2. CASE r \notin Producing(p)
      BY <1>3, <3>2 DEF Crash
    <3>3. QED
      BY <3>1, <3>2
  <2>2. QED
    BY <2>1 DEF Executed
<1>4. ASSUME NEW p \in Processes, Shutdown(p) PROVE Executed' = Executed
  <2>1. ASSUME NEW r \in Requests
        PROVE  (task'[r]["produce"] = "none") <=> (task[r]["produce"] = "none")
    <3>1. CASE r \in Waiting(p)
      <4>1. task[r]["produce"] = "waiting"
        BY <3>1 DEF Waiting, At
      <4>2. task'[r]["produce"] = "reporting"
        BY <1>4, <3>1 DEF Shutdown, Coroutines
      <4>3. QED
        BY <4>1, <4>2
    <3>2. CASE r \notin Waiting(p)
      BY <1>4, <3>2 DEF Shutdown
    <3>3. QED
      BY <3>1, <3>2
  <2>2. QED
    BY <2>1 DEF Executed
<1>5. QED
  BY <1>1, <1>2, <1>3, <1>4

(* A client or a process that goes away takes its handlers with it.         *)
LEMMA DropsRefine ==
    ASSUME Inv,
           \/ \E r \in Requests : Disconnect(r)
           \/ \E p \in Processes : Crash(p) \/ Shutdown(p)
    PROVE  Refines
<1> USE DEF Inv
<1>1. PICK rs \in SUBSET {r \in Requests : pc[r] \in Inside} : Forget(rs)
  <2>1. ASSUME NEW r \in Requests, Disconnect(r)
        PROVE  {r} \in SUBSET {x \in Requests : pc[x] \in Inside} /\ Forget({r})
    BY <2>1 DEF Disconnect, Inside, Gone, Places
  <2>2. ASSUME NEW p \in Processes, Crash(p) \/ Shutdown(p)
        PROVE  /\ Handled(p) \in SUBSET {x \in Requests : pc[x] \in Inside}
               /\ Forget(Handled(p))
    <3>1. \A x \in Requests : pc[x] \in Places
      BY DEF TypeOK
    <3>2. QED
      BY <2>2, <3>1 DEF Crash, Shutdown, Handled, Served, Inside
  <2>3. QED
    BY <2>1, <2>2
<1>2. UNCHANGED <<Executed, Log, Outcome, after>>
  BY DropFrame, DropsExecute, LogKept DEF DropsHandlers, rowVars, Outcome
<1>3. Stream!Leave
  <2>1. /\ \A r \in Requests : pc'[r] = IF r \in rs THEN pc'[r] ELSE pc[r]
        /\ \A r \in rs : pc'[r] \in Gone \ {"closed"}
        /\ \A r \in Requests : got'[r] = IF r \in rs THEN <<>> ELSE got[r]
    BY <1>1 DEF Forget, Gone
  <2>2. QED
    BY <1>1, <1>2, <2>1, Leaves
<1>4. QED
  BY <1>3 DEF Refines, Stream!ANext

LEMMA NextRefines ==
    ASSUME Inv, Inv', [Next]_vars
    PROVE  Refines
<1> USE DEF Inv
<1>1. ASSUME NEW r \in Requests, Attach(r) \/ Follow(r) PROVE Refines
  BY <1>1, AttachRefines, FollowRefines
<1>2. CASE ProducerStep
  BY <1>2, ProducerRefines
<1>3. CASE \/ \E r \in Requests : Disconnect(r)
           \/ \E p \in Processes : Crash(p) \/ Shutdown(p)
  BY <1>3, DropsRefine
<1>4. ASSUME NEW r \in Requests, ProduceStops(r) PROVE Refines
  <2>1. Executed' = Executed
    BY <1>4, DropsExecute
  <2>2. UNCHANGED <<run, events, pc, after, got>>
    BY <1>4 DEF ProduceStops, rowVars, reqVars, readVars
  <2>3. QED
    BY <2>1, <2>2, LogKept, Unmoved DEF Outcome, Sent, State, Refines
<1>5. CASE DeleteConversation
  <2>1. /\ run'.status = "deleted" /\ run'.seq = run.seq
        /\ UNCHANGED <<events, pc, after, got, task>>
    BY <1>5 DEF DeleteConversation, reqVars, readVars, prodVars, TypeOK, RunRow
  <2>2. Outcome' = "deleted" /\ Log' = Log
    BY <2>1, LogKept DEF Outcome
  <2>3. Stream!Delete
    BY <2>1, <2>2 DEF Stream!Delete, Executed, Log, Outcome, Sent, State
  <2>4. QED
    BY <2>3 DEF Refines, Stream!ANext
<1>6. CASE Tick \/ UNCHANGED vars
  <2>1. /\ run'.status = run.status /\ run'.seq = run.seq
        /\ UNCHANGED <<events, pc, after, got, task>>
    BY <1>6 DEF Tick, vars, rowVars, reqVars, readVars, prodVars, TypeOK, RunRow
  <2>2. QED
    BY <2>1, LogKept, Unmoved DEF Executed, Outcome, Sent, State, Refines
<1>7. QED
  BY <1>1, <1>2, <1>3, <1>4, <1>5, <1>6 DEF Next, ProducerStep

LEMMA InitRefines == Init => Stream!AInit
<1> SUFFICES ASSUME Init PROVE Stream!AInit
  OBVIOUS
<1>1. Executed = {}
  BY DEF Init, Executed, Coroutines
<1>2. Log = <<>>
  BY DEF Init, Log
<1>3. Outcome = "open" /\ after = [r \in Requests |-> 0]
  BY DEF Init, Outcome, TerminalStatus
<1>4. Sent = [r \in Requests |-> <<>>]
  <2>1. \A r \in Requests : [i \in 1 .. Len(got[r]) |-> got[r][i].kind] = <<>>
    BY DEF Init
  <2>2. QED
    BY <2>1 DEF Sent
<1>5. State = [r \in Requests |-> "out"]
  <2>1. \A r \in Requests : pc[r] = "idle"
    BY DEF Init
  <2>2. QED
    BY <2>1 DEF State, Gone
<1>6. QED
  BY <1>1, <1>2, <1>3, <1>4, <1>5 DEF Stream!AInit, Executed, Log, Outcome, Sent, State

(* Whatever is retried, cancelled, expired, lost or deleted, a client sees   *)
(* one execution, one log that is closed once, and follows it in order.     *)
THEOREM StreamIsDurable == Spec => ImplementsDurableStream
<1>1. Inv /\ Inv' /\ [Next]_vars => [Stream!ANext]_(Stream!avars)
  BY NextRefines DEF Refines
<1>2. Spec => []Inv
  BY TypeCorrect, LedgerIsContiguous, ClaimIsExclusive, DeliveryIsExact, SnapshotsAreFinal,
     OutcomeIsInLedger, PTL DEF Inv
<1>3. QED
  BY <1>1, <1>2, InitRefines, PTL DEF Spec, ImplementsDurableStream, Stream!ASpec
=============================================================================
