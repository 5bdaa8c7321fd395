----------------------- MODULE DocumentIngestion_proofs -----------------------
(***************************************************************************)
(* For any documents, workers and numbers of batches: the types, whatever    *)
(* goes wrong; and as long as channels hold and each row is published once,  *)
(* no two workers handle one document.                                       *)
(***************************************************************************)
EXTENDS DocumentIngestion, TLAPS

(* The manifest rows that the handler and the upload write.                 *)
LEMMA ManifestRows ==
  ASSUME NEW row \in Manifest
  PROVE  /\ \A s \in {"queued", "processing", "failed"} : [row EXCEPT !.status = s] \in Manifest
         /\ \A n \in 0 .. Batches : [row EXCEPT !.total = Batches, !.indexed = n] \in Manifest
<1>1. Batches \in 0 .. Batches
  BY IngestionAssumption
<1> QED
  BY <1>1 DEF Manifest

LEMMA FreshRows ==
  /\ \A n \in 0 .. Batches : [status |-> "indexed", total |-> n, indexed |-> n] \in Manifest
  /\ \A n \in {0, Batches} : [status |-> "failed", total |-> n, indexed |-> 0] \in Manifest
<1>1. 0 \in 0 .. Batches /\ Batches \in 0 .. Batches
  BY IngestionAssumption
<1> QED
  BY <1>1 DEF Manifest

LEMMA InitTyped == Init => TypeOK
<1>1. 0 \in 0 .. Batches /\ 0 \in 0 .. MaxSends /\ 0 \in 0 .. MaxFaults
  BY IngestionAssumption
<1> QED
  BY <1>1 DEF Init, TypeOK, Manifest, Handling

(* The types of what the client and the broker do.                          *)
LEMMA ClientTypes ==
  ASSUME TypeOK, NEW d \in Docs, Upload(d) \/ Publish(d) \/ Delete(d)
  PROVE  TypeOK'
<1>1. \A s \in {"queued", "failed"} : [manifest EXCEPT ![d].status = s] \in [Docs -> Manifest]
  <2>1. manifest[d] \in Manifest
    BY DEF TypeOK
  <2> QED
    BY <2>1, ManifestRows DEF TypeOK
<1>2. CASE CreateManifest(d) \/ WriteFails(d)
  BY <1>1, <1>2 DEF TypeOK, CreateManifest, WriteFails, brokerVars, workerVars, poisonVars
<1>3. CASE WriteFile(d) \/ Enqueue(d) \/ UploadAborts(d)
  BY <1>3 DEF TypeOK, WriteFile, Enqueue, UploadAborts, brokerVars, workerVars, poisonVars
<1>4. CASE Publish(d)
  <2>1. sends[d] + 1 \in 0 .. MaxSends /\ queue[d] + 1 \in Nat
    BY <1>4, IngestionAssumption DEF Publish, TypeOK
  <2> QED
    BY <1>4, <2>1 DEF TypeOK, Publish, clientVars, workerVars, poisonVars
<1>5. CASE DeletePoints(d)
  BY <1>5 DEF TypeOK, DeletePoints, brokerVars, workerVars, poisonVars
<1>6. CASE DeleteRest(d)
  BY <1>6 DEF TypeOK, DeleteRest, brokerVars, workerVars, poisonVars
<1> QED
  BY <1>2, <1>3, <1>4, <1>5, <1>6 DEF Upload, Delete

LEMMA ReceiveTypes ==
  ASSUME TypeOK, NEW w \in Workers, NEW d \in Docs, Receive(w, d)
  PROVE  TypeOK'
<1>1. queue[d] - 1 \in Nat
  BY DEF Receive, TypeOK
<1>2. queue' \in [Docs -> Nat]
  BY <1>1 DEF Receive, TypeOK
<1>3. pc' \in [Workers -> {"idle"} \cup Handling] /\ pc'[w] \in {"ack", "load"}
  BY DEF Receive, TypeOK, Handling
<1>4. doc' \in [Workers -> Docs \cup {NoDoc}] /\ held' \in [Workers -> BOOLEAN]
  BY DEF Receive, TypeOK
<1>5. \A v \in Workers : pc'[v] \in Handling => doc'[v] \in Docs
  BY DEF Receive, TypeOK
<1>6. \A v \in Workers : pc'[v] \in {"upsert", "progress"} => done'[v] < Batches
  BY <1>3 DEF Receive, TypeOK
<1> QED
  BY <1>2, <1>3, <1>4, <1>5, <1>6 DEF Receive, TypeOK, clientVars, poisonVars

(* What moves a worker keeps its types.                                     *)
LEMMA GotoTypes ==
  ASSUME TypeOK, NEW w \in Workers, pc[w] \in Handling,
         NEW there \in Handling \ {"upsert", "progress"}, Goto(w, there)
  PROVE  /\ pc' \in [Workers -> {"idle"} \cup Handling]
         /\ \A v \in Workers : pc'[v] \in Handling => doc'[v] \in Docs
         /\ \A v \in Workers : pc'[v] \in {"upsert", "progress"} => done'[v] < Batches
         /\ UNCHANGED <<doc, seen, done, held>>
  BY DEF TypeOK, Goto

LEMMA IdleTypes ==
  ASSUME TypeOK, NEW w \in Workers, Idle(w)
  PROVE  /\ pc' \in [Workers -> {"idle"} \cup Handling]
         /\ doc' \in [Workers -> Docs \cup {NoDoc}]
         /\ \A v \in Workers : pc'[v] \in Handling => doc'[v] \in Docs
         /\ seen' \in [Workers -> 0 .. Batches]
         /\ done' \in [Workers -> 0 .. Batches]
         /\ \A v \in Workers : pc'[v] \in {"upsert", "progress"} => done'[v] < Batches
         /\ held' \in [Workers -> BOOLEAN]
<1>1. 0 \in 0 .. Batches /\ "idle" \notin Handling
  BY IngestionAssumption DEF Handling
<1> QED
  BY <1>1 DEF TypeOK, Idle

LEMMA RecordTypes ==
  ASSUME TypeOK, NEW w \in Workers, doc[w] \in Docs, Succeeds(w) \/ Fails(w)
  PROVE  failures' \in [Workers -> [Docs -> Nat]] /\ quarantine' \in [Workers -> SUBSET Docs]
<1>1. failures[w] \in [Docs -> Nat] /\ failures[w][doc[w]] + 1 \in Nat
  BY DEF TypeOK
<1>2. \A n \in Nat : [failures EXCEPT ![w][doc[w]] = n] \in [Workers -> [Docs -> Nat]]
  BY <1>1 DEF TypeOK
<1>3. CASE Succeeds(w)
  BY <1>2, <1>3 DEF Succeeds, TypeOK
<1>4. CASE Fails(w)
  <2>1. failures' = [failures EXCEPT ![w][doc[w]] = failures[w][doc[w]] + 1]
    BY <1>4 DEF Fails
  <2>2. quarantine' = quarantine \/ quarantine' = [quarantine EXCEPT ![w] = @ \cup {doc[w]}]
    BY <1>4 DEF Fails
  <2> QED
    BY <1>1, <1>2, <2>1, <2>2 DEF TypeOK
<1> QED
  BY <1>3, <1>4

(* The handler's steps that only go on, or record the outcome.              *)
LEMMA StepTypes ==
  ASSUME TypeOK, NEW w \in Workers,
         Load(w) \/ FindsNoFile(w) \/ FindsFile(w) \/ MarkRaises(w) \/ Read(w) \/ Cleanup(w)
  PROVE  TypeOK'
<1>1. pc[w] \in Handling /\ doc[w] \in Docs
  BY DEF TypeOK, Load, FindsNoFile, FindsFile, MarkRaises, Read, Cleanup, At, Handling
<1>2. CASE FindsFile(w) \/ Read(w)
  <2>1. PICK there \in Handling \ {"upsert", "progress"} : Goto(w, there)
    BY <1>2 DEF FindsFile, Read, Handling
  <2>2. UNCHANGED <<manifest, staged, points, clientVars, brokerVars, poisonVars, faults>>
    BY <1>2 DEF FindsFile, Read
  <2> QED
    BY <1>1, <2>1, <2>2, GotoTypes DEF TypeOK, clientVars, brokerVars, poisonVars
<1>3. ASSUME NEW there \in {"recover", "nack", "ack"}, Goto(w, there),
             Succeeds(w) \/ Fails(w) \/ UNCHANGED poisonVars,
             staged' = staged \/ staged' = staged \ {doc[w]},
             UNCHANGED <<manifest, points, clientVars, brokerVars, faults>>
      PROVE  TypeOK'
  <2>1. there \in Handling \ {"upsert", "progress"}
    BY DEF Handling
  <2>2. failures' \in [Workers -> [Docs -> Nat]] /\ quarantine' \in [Workers -> SUBSET Docs]
    BY <1>1, <1>3, RecordTypes DEF poisonVars, TypeOK
  <2> QED
    BY <1>1, <1>3, <2>1, <2>2, GotoTypes DEF TypeOK, clientVars, brokerVars
<1>4. CASE Load(w)
  <2>1. CASE Old(w).status = "absent"
    BY <1>3, <1>4, <2>1 DEF Load
  <2>2. CASE Old(w).status # "absent"
    <3>1. manifest[doc[w]].indexed \in 0 .. Batches
      BY <1>1 DEF TypeOK, Manifest
    <3>2. seen' \in [Workers -> 0 .. Batches]
      BY <1>4, <2>2, <3>1 DEF Load, Old, TypeOK
    <3>3. pc' = [pc EXCEPT ![w] = "look"] /\ UNCHANGED <<doc, done, held, poisonVars>>
      BY <1>4, <2>2 DEF Load
    <3> QED
      BY <1>1, <1>4, <3>2, <3>3 DEF Load, TypeOK, Handling, clientVars, brokerVars, poisonVars
  <2> QED
    BY <2>1, <2>2
<1>5. CASE FindsNoFile(w) \/ MarkRaises(w) \/ Cleanup(w)
  BY <1>3, <1>5 DEF FindsNoFile, MarkRaises, Cleanup
<1> QED
  BY <1>2, <1>4, <1>5

(* The steps that write the manifest.                                       *)
LEMMA WriteTypes ==
  ASSUME TypeOK, NEW w \in Workers,
         Recover(w) \/ MarkProcessing(w) \/ Reject(w) \/ Complete(w) \/ MarkFailed(w)
  PROVE  TypeOK'
<1>1. pc[w] \in Handling /\ doc[w] \in Docs
  BY DEF TypeOK, Recover, MarkProcessing, Reject, Complete, MarkFailed, At, Handling
<1>2. Old(w) \in Manifest /\ seen[w] \in 0 .. Batches /\ Batches \in 0 .. Batches
  BY <1>1, IngestionAssumption DEF TypeOK, Old
<1>3. ASSUME NEW row \in Manifest, SetManifest(w, row)
      PROVE  manifest' \in [Docs -> Manifest]
  BY <1>1, <1>3 DEF SetManifest, TypeOK
<1>4. manifest' \in [Docs -> Manifest]
  <2>1. \A s \in {"queued", "processing", "failed"} : [Old(w) EXCEPT !.status = s] \in Manifest
    BY <1>2, ManifestRows
  <2>2. CASE Recover(w) \/ Reject(w) \/ Complete(w)
    BY <1>2, <1>3, <2>2, FreshRows DEF Recover, Reject, Complete
  <2>3. CASE MarkProcessing(w)
    BY <1>3, <2>1, <2>3 DEF MarkProcessing
  <2>4. CASE MarkFailed(w)
    BY <1>3, <2>1, <2>4 DEF MarkFailed, TypeOK
  <2> QED
    BY <2>2, <2>3, <2>4
<1>5. PICK there \in Handling \ {"upsert", "progress"} : Goto(w, there)
  BY DEF Recover, MarkProcessing, Reject, Complete, MarkFailed, Handling
<1>6. failures' \in [Workers -> [Docs -> Nat]] /\ quarantine' \in [Workers -> SUBSET Docs]
  BY <1>1, RecordTypes DEF Recover, MarkProcessing, Reject, Complete, MarkFailed, poisonVars,
     TypeOK
<1>7. UNCHANGED <<staged, points, clientVars, brokerVars, faults>>
  BY DEF Recover, MarkProcessing, Reject, Complete, MarkFailed
<1> QED
  BY <1>1, <1>4, <1>5, <1>6, <1>7, GotoTypes DEF TypeOK, clientVars, brokerVars

(* The steps on the points, and the loop over the batches.                  *)
LEMMA PointTypes ==
  ASSUME TypeOK, NEW w \in Workers,
         Clear(w) \/ Start(w) \/ Upsert(w) \/ Progress(w) \/ Raises(w) \/ Withdraw(w)
  PROVE  TypeOK'
<1>1. pc[w] \in Handling /\ doc[w] \in Docs
  BY DEF TypeOK, Clear, Start, Upsert, Progress, Raises, Withdraw, At, Handling
<1>2. Cleared(w) => points' \in [Docs -> SUBSET All]
  BY DEF Cleared, TypeOK
<1>3. pc[w] = "upsert" /\ Upserted(w) => points' \in [Docs -> SUBSET All]
  <2>1. ASSUME pc[w] = "upsert" PROVE done[w] + 1 \in All
    BY <2>1, IngestionAssumption DEF TypeOK, All
  <2> QED
    BY <1>1, <2>1 DEF Upserted, TypeOK
<1>4. CASE Clear(w) \/ Raises(w) \/ Withdraw(w)
  <2>1. PICK there \in Handling \ {"upsert", "progress"} : Goto(w, there)
    BY <1>4 DEF Clear, Raises, Withdraw, Handling
  <2>2. points' \in [Docs -> SUBSET All]
    BY <1>2, <1>3, <1>4 DEF Clear, Raises, Withdraw, At, TypeOK
  <2>3. UNCHANGED <<manifest, staged, clientVars, brokerVars, poisonVars, faults>>
    BY <1>4 DEF Clear, Raises, Withdraw
  <2> QED
    BY <1>1, <2>1, <2>2, <2>3, GotoTypes DEF TypeOK, clientVars, brokerVars, poisonVars
<1>5. CASE Upsert(w)
  <2>1. points' \in [Docs -> SUBSET All]
    BY <1>3, <1>5 DEF Upsert, At
  <2>2. pc' \in [Workers -> {"idle"} \cup Handling]
    BY <1>5 DEF Upsert, Goto, TypeOK, Handling
  <2>3. \A v \in Workers : pc'[v] \in {"upsert", "progress"} => done'[v] < Batches
    BY <1>5 DEF Upsert, Goto, At, TypeOK
  <2>4. \A v \in Workers : pc'[v] \in Handling => doc'[v] \in Docs
    BY <1>1, <1>5 DEF Upsert, Goto, TypeOK
  <2> QED
    BY <1>5, <2>1, <2>2, <2>3, <2>4 DEF Upsert, Goto, TypeOK, clientVars, brokerVars, poisonVars
<1>6. CASE Start(w) \/ Progress(w)
  <2>1. PICK n \in 0 .. Batches :
           /\ SetManifest(w, [Old(w) EXCEPT !.total = Batches, !.indexed = n])
           /\ done' = [done EXCEPT ![w] = n]
           /\ \/ pc' = [pc EXCEPT ![w] = "complete"]
              \/ n < Batches /\ pc' = [pc EXCEPT ![w] = "upsert"]
    <3>1. CASE Start(w)
      <4>1. 0 \in 0 .. Batches /\ 0 < Batches
        BY IngestionAssumption
      <4> QED
        BY <3>1, <4>1 DEF Start
    <3>2. CASE Progress(w)
      <4>1. done[w] + 1 \in 0 .. Batches /\ (done[w] + 1 # Batches => done[w] + 1 < Batches)
        BY <3>2, IngestionAssumption DEF Progress, At, TypeOK
      <4> QED
        BY <3>2, <4>1 DEF Progress
    <3> QED
      BY <1>6, <3>1, <3>2
  <2>2. [Old(w) EXCEPT !.total = Batches, !.indexed = n] \in Manifest
    <3>1. Old(w) \in Manifest
      BY <1>1 DEF Old, TypeOK
    <3> QED
      BY <3>1, ManifestRows
  <2>3. manifest' \in [Docs -> Manifest]
    BY <1>1, <2>1, <2>2 DEF SetManifest, TypeOK
  <2>4. pc' \in [Workers -> {"idle"} \cup Handling] /\ done' \in [Workers -> 0 .. Batches]
    BY <2>1 DEF TypeOK, Handling
  <2>5. \A v \in Workers : pc'[v] \in {"upsert", "progress"} => done'[v] < Batches
    BY <2>1 DEF TypeOK
  <2>6. \A v \in Workers : pc'[v] \in Handling => doc'[v] \in Docs
    BY <1>1, <1>6, <2>1 DEF Start, Progress, TypeOK
  <2> QED
    BY <1>6, <2>3, <2>4, <2>5, <2>6 DEF Start, Progress, TypeOK, clientVars, brokerVars, poisonVars
<1> QED
  BY <1>4, <1>5, <1>6

(* What gives up the message.                                               *)
LEMMA EndTypes ==
  ASSUME TypeOK, NEW w \in Workers, Settle(w) \/ Crash(w) \/ ChannelLost(w) \/ Cancel(w)
  PROVE  TypeOK'
<1>1. doc[w] \in Docs \/ ~held[w] => (Redelivered(w) => queue' \in [Docs -> Nat])
  BY DEF Redelivered, TypeOK
<1>2. CASE Settle(w)
  BY <1>2, IdleTypes DEF Settle, TypeOK, clientVars, brokerVars, poisonVars
<1>3. Crash(w) \/ ChannelLost(w) \/ Cancel(w) => faults' \in 0 .. MaxFaults
  <2>1. ASSUME faults < MaxFaults PROVE faults + 1 \in 0 .. MaxFaults
    BY <2>1, IngestionAssumption DEF TypeOK
  <2> QED
    BY <2>1 DEF Crash, ChannelLost, Cancel, Fault
<1>4. CASE Crash(w)
  <2>1. doc[w] \in Docs
    BY <1>4 DEF Crash, At, TypeOK
  <2>2. queue' \in [Docs -> Nat]
    BY <1>1, <1>4, <2>1 DEF Crash
  <2>3. failures' \in [Workers -> [Docs -> Nat]] /\ quarantine' \in [Workers -> SUBSET Docs]
    BY <1>4 DEF Crash, TypeOK
  <2> QED
    BY <1>3, <1>4, <2>2, <2>3, IdleTypes DEF Crash, TypeOK, clientVars
<1>5. CASE Cancel(w)
  <2>1. pc[w] \in Handling
    BY <1>5 DEF Cancel, At, Handling
  <2>2. queue' \in [Docs -> Nat]
    BY <1>1, <1>5, <2>1 DEF Cancel, TypeOK
  <2>3. staged' \subseteq Docs
    BY <1>5 DEF Cancel, TypeOK
  <2>4. points' \in [Docs -> SUBSET All]
    <3>1. ASSUME pc[w] = "upsert" PROVE done[w] + 1 \in All
      BY <3>1, IngestionAssumption DEF TypeOK, All
    <3> QED
      BY <1>5, <2>1, <3>1 DEF Cancel, Cleared, Upserted, At, TypeOK
  <2> QED
    <3>1. UNCHANGED <<manifest, clientVars, sends, poisonVars>> /\ Idle(w)
      BY <1>5 DEF Cancel
    <3>2. faults' \in 0 .. MaxFaults
      BY <1>3, <1>5
    <3> QED
      BY <2>2, <2>3, <2>4, <3>1, <3>2, IdleTypes DEF TypeOK, clientVars, poisonVars
<1>6. CASE ChannelLost(w)
  <2>1. queue' \in [Docs -> Nat]
    <3>1. CASE doc[w] \in Docs
      BY <1>1, <1>6, <3>1 DEF ChannelLost
    <3>2. CASE doc[w] \notin Docs
      BY <1>6, <3>2 DEF ChannelLost, Redelivered, TypeOK
    <3> QED
      BY <3>1, <3>2
  <2>2. held' \in [Workers -> BOOLEAN]
    BY <1>6 DEF ChannelLost, TypeOK
  <2> QED
    BY <1>3, <1>6, <2>1, <2>2 DEF ChannelLost, TypeOK, clientVars, poisonVars
<1> QED
  BY <1>2, <1>4, <1>5, <1>6

LEMMA TypeStep == TypeOK /\ [Next]_vars => TypeOK'
<1> SUFFICES ASSUME TypeOK, [Next]_vars PROVE TypeOK'
  OBVIOUS
<1>1. CASE UNCHANGED vars
  BY <1>1 DEF TypeOK, vars, clientVars, brokerVars, workerVars, poisonVars
<1>2. CASE Next
  BY <1>2, ClientTypes, ReceiveTypes, StepTypes, WriteTypes, PointTypes, EndTypes
     DEF Next, Handle
<1> QED
  BY <1>1, <1>2

\* The types are right, whatever goes wrong.
THEOREM TypeCorrect == Spec => []TypeOK
<1> QED
  BY InitTyped, TypeStep, PTL DEF Spec
-----------------------------------------------------------------------------
(* A document's one message is in the queue, or with one worker, or gone.   *)
OneMessage ==
    /\ \A w \in Workers : pc[w] = "idle" <=> doc[w] = NoDoc
    /\ \A w \in Workers : doc[w] # NoDoc => held[w]
    /\ \A d \in Docs : queue[d] <= sends[d]
    /\ \A w \in Workers : doc[w] # NoDoc => queue[doc[w]] = 0 /\ sends[doc[w]] = 1

HandlerInv == TypeOK /\ OneMessage /\ OneHandler

(* Steps of a worker that keep its message.                                 *)
LEMMA KeepsMessage ==
  ASSUME HandlerInv, NEW w \in Workers, pc[w] # "idle",
         pc' = [pc EXCEPT ![w] = pc'[w]], pc'[w] # "idle",
         UNCHANGED <<doc, held, queue, sends>>
  PROVE  OneMessage' /\ OneHandler'
  BY DEF HandlerInv, OneMessage, OneHandler, TypeOK

LEMMA HandleKeepsMessage ==
  ASSUME HandlerInv, NEW w \in Workers, Handle(w), ~Settle(w)
  PROVE  OneMessage' /\ OneHandler'
<1>1. pc[w] # "idle"
  BY DEF Handle, Load, FindsNoFile, Recover, FindsFile, MarkProcessing, MarkRaises, Read, Reject,
         Clear, Start, Upsert, Progress, Complete, Raises, Withdraw, MarkFailed, Cleanup, At
<1>2. UNCHANGED <<doc, held, queue, sends>>
  BY DEF Handle, Load, FindsNoFile, Recover, FindsFile, MarkProcessing, MarkRaises, Read, Reject,
         Clear, Start, Upsert, Progress, Complete, Raises, Withdraw, MarkFailed, Cleanup, Goto,
         brokerVars
<1>3. \E there \in Handling : pc' = [pc EXCEPT ![w] = there]
  <2>1. CASE Load(w) \/ FindsNoFile(w) \/ Recover(w) \/ FindsFile(w) \/ MarkProcessing(w)
             \/ MarkRaises(w) \/ Read(w) \/ Reject(w) \/ Clear(w)
    BY <2>1 DEF Load, FindsNoFile, Recover, FindsFile, MarkProcessing, MarkRaises, Read, Reject,
                Clear, Goto, Handling
  <2>2. CASE Start(w) \/ Upsert(w) \/ Progress(w) \/ Complete(w) \/ Raises(w) \/ Withdraw(w)
             \/ MarkFailed(w) \/ Cleanup(w)
    BY <2>2 DEF Start, Upsert, Progress, Complete, Raises, Withdraw, MarkFailed, Cleanup, Goto,
                Handling
  <2> QED
    BY <2>1, <2>2 DEF Handle
<1>4. pc'[w] # "idle" /\ pc' = [pc EXCEPT ![w] = pc'[w]]
  BY <1>3 DEF HandlerInv, TypeOK, Handling
<1> QED
  BY <1>1, <1>2, <1>4, KeepsMessage

(* Steps that end a worker's work on its message.                           *)
LEMMA LetsGoOfMessage ==
  ASSUME HandlerInv, NEW w \in Workers, pc[w] # "idle", Idle(w),
         Redelivered(w) \/ UNCHANGED queue, UNCHANGED sends
  PROVE  OneMessage' /\ OneHandler'
<1>1. doc[w] \in Docs /\ held[w] /\ queue[doc[w]] = 0 /\ sends[doc[w]] = 1
  BY DEF HandlerInv, OneMessage, TypeOK
<1>2. \A v \in Workers : v # w => doc'[v] = doc[v] /\ doc[v] # doc[w] /\ pc'[v] = pc[v] /\ held'[v] = held[v]
  BY <1>1, IngestionAssumption DEF HandlerInv, OneHandler, Idle, TypeOK
<1>3. doc'[w] = NoDoc /\ pc'[w] = "idle"
  BY DEF Idle, HandlerInv, TypeOK
<1>4. queue' = queue \/ queue' = [queue EXCEPT ![doc[w]] = 1]
  BY <1>1 DEF Redelivered, HandlerInv, TypeOK
<1>5. \A d \in Docs : d # doc[w] => queue'[d] = queue[d]
  BY <1>4 DEF HandlerInv, TypeOK
<1>6. \A d \in Docs : queue'[d] <= sends'[d]
  BY <1>1, <1>4, <1>5 DEF HandlerInv, OneMessage, TypeOK
<1>7. \A v \in Workers : doc'[v] # NoDoc => queue'[doc'[v]] = 0 /\ sends'[doc'[v]] = 1
  BY <1>2, <1>3, <1>5 DEF HandlerInv, OneMessage, TypeOK
<1> QED
  BY <1>2, <1>3, <1>6, <1>7 DEF HandlerInv, OneMessage, OneHandler

LEMMA TakesMessage ==
  ASSUME HandlerInv, MaxSends = 1, NEW w \in Workers, NEW d \in Docs, Receive(w, d)
  PROVE  OneMessage' /\ OneHandler'
<1>1. queue[d] = 1 /\ sends[d] = 1 /\ queue'[d] = 0
  BY DEF HandlerInv, OneMessage, TypeOK, Receive
<1>2. \A v \in Workers : doc[v] # d
  BY <1>1, IngestionAssumption DEF HandlerInv, OneMessage
<1>3. /\ \A v \in Workers : v # w => doc'[v] = doc[v] /\ pc'[v] = pc[v] /\ held'[v] = held[v]
      /\ doc'[w] = d /\ pc'[w] # "idle" /\ held'[w] = TRUE
      /\ \A e \in Docs : e # d => queue'[e] = queue[e]
      /\ sends' = sends
  BY DEF Receive, HandlerInv, TypeOK
<1>4. \A v \in Workers : doc[v] # NoDoc => doc[v] \in Docs
  BY DEF HandlerInv, TypeOK
<1>5. \A e \in Docs : queue'[e] <= sends'[e]
  BY <1>1, <1>3 DEF HandlerInv, OneMessage
<1>6. d # NoDoc
  BY IngestionAssumption
<1>7. \A v \in Workers : doc'[v] # NoDoc => queue'[doc'[v]] = 0 /\ sends'[doc'[v]] = 1
  BY <1>1, <1>2, <1>3, <1>4 DEF HandlerInv, OneMessage
<1> QED
  BY <1>2, <1>3, <1>5, <1>6, <1>7 DEF HandlerInv, OneMessage, OneHandler

LEMMA HandlerStep ==
  ASSUME HandlerInv, [Next]_vars, MaxSends = 1, "channel" \notin Faults
  PROVE  HandlerInv'
<1>1. TypeOK'
  BY TypeStep DEF HandlerInv
<1>2. ASSUME UNCHANGED <<pc, doc, held, queue, sends>> PROVE OneMessage' /\ OneHandler'
  BY <1>2 DEF HandlerInv, OneMessage, OneHandler
<1>3. CASE UNCHANGED vars
  BY <1>1, <1>2, <1>3 DEF HandlerInv, vars, brokerVars, workerVars
<1>4. ASSUME NEW d \in Docs, Upload(d) \/ Delete(d) PROVE OneMessage' /\ OneHandler'
  BY <1>2, <1>4 DEF Upload, Delete, CreateManifest, WriteFile, WriteFails, Enqueue, UploadAborts,
                    DeletePoints, DeleteRest, brokerVars, workerVars
<1>5. ASSUME NEW d \in Docs, Publish(d) PROVE OneMessage' /\ OneHandler'
  <2>1. sends[d] = 0 /\ queue[d] = 0 /\ sends'[d] = 1 /\ queue'[d] = 1
    BY <1>5 DEF HandlerInv, OneMessage, TypeOK, Publish
  <2>2. \A e \in Docs : e # d => queue'[e] = queue[e] /\ sends'[e] = sends[e]
    BY <1>5 DEF Publish, HandlerInv, TypeOK
  <2>3. UNCHANGED <<pc, doc, held>>
    BY <1>5 DEF Publish, workerVars
  <2>4. \A v \in Workers : doc[v] # d
    BY <2>1, IngestionAssumption DEF HandlerInv, OneMessage
  <2>5. \A v \in Workers : doc[v] # NoDoc => doc[v] \in Docs
    BY DEF HandlerInv, TypeOK
  <2>6. \A e \in Docs : queue'[e] <= sends'[e]
    BY <2>1, <2>2 DEF HandlerInv, OneMessage
  <2> QED
    BY <2>2, <2>3, <2>4, <2>5, <2>6 DEF HandlerInv, OneMessage, OneHandler
<1>6. ASSUME NEW w \in Workers, Handle(w) PROVE OneMessage' /\ OneHandler'
  <2>1. CASE Settle(w)
    BY <2>1, LetsGoOfMessage DEF Settle, At, brokerVars
  <2> QED
    BY <1>6, <2>1, HandleKeepsMessage
<1>7. ASSUME NEW w \in Workers, Crash(w) \/ Cancel(w) PROVE OneMessage' /\ OneHandler'
  BY <1>7, LetsGoOfMessage DEF Crash, Cancel, At
<1>8. \A w \in Workers : ~ChannelLost(w)
  BY DEF ChannelLost, Fault
<1> QED
  BY <1>1, <1>3, <1>4, <1>5, <1>6, <1>7, <1>8, TakesMessage DEF HandlerInv, Next

\* As long as channels hold and the outbox publishes each row once, no two
\* workers ever handle one document: a message that is redelivered after a
\* crash or a cancellation has been let go of before.
THEOREM OneWorkerPerDocument ==
  ASSUME MaxSends = 1, "channel" \notin Faults
  PROVE  Spec => []OneHandler
<1>1. Init => HandlerInv
  BY InitTyped DEF Init, HandlerInv, OneMessage, OneHandler
<1>2. HandlerInv /\ [Next]_vars => HandlerInv'
  BY HandlerStep
<1>3. HandlerInv => OneHandler
  BY DEF HandlerInv
<1> QED
  BY <1>1, <1>2, <1>3, PTL DEF Spec
-----------------------------------------------------------------------------
(***************************************************************************)
(* What becomes of a document.  It takes that one worker at most is at it:   *)
(* there is one worker, or messages are neither repeated nor delivered anew  *)
(* while they are worked on.                                                *)
(***************************************************************************)
Alone == (\A v, w \in Workers : v = w) \/ (MaxSends = 1 /\ "channel" \notin Faults)

Undecided == {"queued", "processing"}

(* A worker at a document has a message of it, which was published after the *)
(* upload; while the channel it came on is lost, the message waits as well.  *)
MessageInv ==
    /\ \A w \in Workers : (pc[w] = "idle" <=> doc[w] = NoDoc) /\ (held[w] => doc[w] # NoDoc)
    /\ \A d \in Docs : queue[d] > 0 => sends[d] > 0
    /\ \A d \in Docs : sends[d] > 0 => upload[d] = "queued"
    /\ \A d \in Docs : upload[d] # "none" => manifest[d].status # "absent"
    /\ \A w \in Workers : doc[w] # NoDoc => sends[doc[w]] > 0
    /\ \A w \in Workers : doc[w] # NoDoc /\ ~held[w] => queue[doc[w]] > 0

(* From mark_processing to the outcome the row says "processing".           *)
Working == {"read", "reject", "clear", "start", "upsert", "progress", "complete", "except", "fail"}

WorkInv ==
    /\ \A w \in Workers : pc[w] \in Working => manifest[doc[w]].status = "processing"
    /\ \A w \in Workers : pc[w] = "reject" => "reject" \in Faults

(* Points are withdrawn before a document is called failed.                 *)
PointInv ==
    /\ FailedLeavesNoPoints
    /\ \A w \in Workers : pc[w] = "fail" => points[doc[w]] = {}
    /\ \A d \in Docs : upload[d] \in {"none", "writing"} => points[d] = {}

(* The file is there until the document is decided, and who has left it      *)
(* behind has seen that happen.                                             *)
FileInv ==
    /\ \A d \in Docs : deletion[d] = "none"
    /\ \A d \in Docs : upload[d] \in {"staged", "queued"} /\ manifest[d].status \in Undecided =>
          d \in staged
    /\ \A w \in Workers : pc[w] \in Working \cup {"mark"} => doc[w] \in staged
    /\ \A w \in Workers : pc[w] \in {"recover", "ack", "nack"} => doc[w] \notin staged
    /\ \A w \in Workers : pc[w] \in {"clean", "drop"} => manifest[doc[w]].status \notin Undecided
    /\ \A w \in Workers : \A d \in quarantine[w] : d \notin staged /\ upload[d] = "queued"

(* The batches counted so far are stored, and the count that a worker has    *)
(* read is the one in the row.                                             *)
CountInv ==
    /\ \A w \in Workers : pc[w] = "upsert" => 1 .. done[w] \subseteq points[doc[w]]
    /\ \A w \in Workers : pc[w] = "progress" => 1 .. done[w] + 1 \subseteq points[doc[w]]
    /\ \A w \in Workers : pc[w] = "complete" => points[doc[w]] = All
    /\ \A w \in Workers : pc[w] \in {"look", "recover"} => seen[w] = manifest[doc[w]].indexed

(* What a worker at a document touches is that document and itself.          *)
Elsewhere(w) ==
    /\ pc[w] \in Handling /\ doc[w] \in Docs
    /\ \A v \in Workers \ {w} :
          /\ doc[v] # doc[w]
          /\ pc'[v] = pc[v] /\ doc'[v] = doc[v] /\ held'[v] = held[v]
          /\ seen'[v] = seen[v] /\ done'[v] = done[v] /\ quarantine'[v] = quarantine[v]
    /\ \A d \in Docs \ {doc[w]} :
          /\ manifest'[d] = manifest[d] /\ points'[d] = points[d] /\ queue'[d] = queue[d]
          /\ d \in staged' <=> d \in staged
    /\ UNCHANGED <<upload, sends>>

LEMMA HandleIsLocal ==
  ASSUME TypeOK, MessageInv, OneHandler, NEW w \in Workers,
         Handle(w) \/ Crash(w) \/ ChannelLost(w) \/ Cancel(w)
  PROVE  Elsewhere(w)
<1>1. pc[w] \in Handling /\ doc[w] \in Docs
  <2>1. pc[w] # "idle"
    <3>1. ASSUME held[w] PROVE pc[w] # "idle"
      BY <3>1 DEF MessageInv
    <3> QED
      BY <3>1 DEF Handle, Load, FindsNoFile, Recover, FindsFile, MarkProcessing, MarkRaises, Read,
         Reject, Clear, Start, Upsert, Progress, Complete, Raises, Withdraw, MarkFailed, Cleanup,
         Settle, Crash, ChannelLost, Cancel, At
  <2> QED
    BY <2>1 DEF TypeOK
<1>2. \A v \in Workers \ {w} : doc[v] # doc[w]
  BY <1>1, IngestionAssumption DEF OneHandler
<1> USE DEF Elsewhere, TypeOK, Goto, poisonVars, clientVars, brokerVars
<1>3. CASE Load(w) \/ FindsNoFile(w) \/ FindsFile(w) \/ MarkRaises(w) \/ Read(w) \/ Cleanup(w)
  BY <1>1, <1>2, <1>3 DEF Load, FindsNoFile, FindsFile, MarkRaises, Read, Cleanup, Fails, Succeeds
<1>4. CASE Recover(w) \/ MarkProcessing(w) \/ Reject(w) \/ Complete(w) \/ MarkFailed(w)
  BY <1>1, <1>2, <1>4 DEF Recover, MarkProcessing, Reject, Complete, MarkFailed, SetManifest, Succeeds
<1>5. CASE Clear(w) \/ Upsert(w) \/ Raises(w) \/ Withdraw(w)
  BY <1>1, <1>2, <1>5 DEF Clear, Upsert, Raises, Withdraw, Cleared, Upserted
<1>6. CASE Start(w) \/ Progress(w)
  BY <1>1, <1>2, <1>6 DEF Start, Progress, SetManifest
<1>7. CASE Settle(w) \/ Crash(w)
  BY <1>1, <1>2, <1>7 DEF Settle, Crash, Idle, Redelivered
<1>8. CASE ChannelLost(w)
  BY <1>1, <1>2, <1>8 DEF ChannelLost, Redelivered
<1>9. CASE Cancel(w)
  BY <1>1, <1>2, <1>9 DEF Cancel, Idle, Redelivered, Cleared, Upserted
<1> QED
  BY <1>3, <1>4, <1>5, <1>6, <1>7, <1>8, <1>9 DEF Handle

(* What the steps that keep some of a row make of it.                        *)
LEMMA RowWritten ==
  ASSUME TypeOK, NEW w \in Workers, doc[w] \in Docs
  PROVE  LET old == manifest[doc[w]]
             new == manifest'[doc[w]]
         IN  /\ MarkProcessing(w) => new.status = "processing" /\ new.indexed = old.indexed
             /\ MarkFailed(w) => new = old \/ new.status = "failed"
             /\ Start(w) => new.status = old.status /\ new.indexed = 0
             /\ Progress(w) => new.status = old.status /\ new.indexed = done[w] + 1
<1>1. manifest[doc[w]] \in Manifest
  BY DEF TypeOK
<1>2. ASSUME NEW row, SetManifest(w, row)
      PROVE  manifest'[doc[w]] = row
  BY <1>2 DEF TypeOK, SetManifest
<1>3. ASSUME MarkProcessing(w)
      PROVE  manifest'[doc[w]].status = "processing" /\ manifest'[doc[w]].indexed = manifest[doc[w]].indexed
  <2>1. manifest'[doc[w]] = [manifest[doc[w]] EXCEPT !.status = "processing"]
    BY <1>2, <1>3 DEF MarkProcessing, Old
  <2> QED
    BY <1>1, <2>1 DEF Manifest
<1>4. ASSUME MarkFailed(w)
      PROVE  manifest'[doc[w]] = manifest[doc[w]] \/ manifest'[doc[w]].status = "failed"
  <2>1. manifest' = manifest \/ manifest'[doc[w]] = [manifest[doc[w]] EXCEPT !.status = "failed"]
    BY <1>2, <1>4 DEF MarkFailed, Old
  <2> QED
    BY <1>1, <2>1 DEF Manifest
<1>5. ASSUME NEW n, manifest'[doc[w]] = [manifest[doc[w]] EXCEPT !.total = Batches, !.indexed = n]
      PROVE  manifest'[doc[w]].status = manifest[doc[w]].status /\ manifest'[doc[w]].indexed = n
  BY <1>1, <1>5 DEF Manifest
<1>6. Start(w) => manifest'[doc[w]] = [manifest[doc[w]] EXCEPT !.total = Batches, !.indexed = 0]
  BY <1>2 DEF Start, Old
<1>7. Progress(w) => manifest'[doc[w]] = [manifest[doc[w]] EXCEPT !.total = Batches, !.indexed = done[w] + 1]
  BY <1>2 DEF Progress, Old
<1> QED
  BY <1>3, <1>4, <1>5, <1>6, <1>7

LEMMA MessageStep ==
  ASSUME TypeOK, MessageInv, OneHandler, TypeOK', OneHandler', [Next]_vars
  PROVE  MessageInv'
<1>1. CASE UNCHANGED vars
  BY <1>1 DEF MessageInv, vars, clientVars, brokerVars, workerVars
<1>2. ASSUME NEW d \in Docs, Upload(d) \/ Delete(d) PROVE MessageInv'
  <2>1. UNCHANGED <<brokerVars, workerVars>>
    BY <1>2 DEF Upload, Delete, CreateManifest, WriteFile, WriteFails, Enqueue, UploadAborts,
       DeletePoints, DeleteRest
  <2>2. \A e \in Docs : sends[e] > 0 => upload'[e] = "queued"
    BY <1>2 DEF Upload, Delete, CreateManifest, WriteFile, WriteFails, Enqueue, UploadAborts,
       DeletePoints, DeleteRest, MessageInv, TypeOK
  <2>3. \A e \in Docs : upload'[e] # "none" => manifest'[e].status # "absent"
    BY <1>2 DEF Upload, Delete, CreateManifest, WriteFile, WriteFails, Enqueue, UploadAborts,
       DeletePoints, DeleteRest, MessageInv, TypeOK, Manifest
  <2> QED
    BY <2>1, <2>2, <2>3 DEF MessageInv, brokerVars, workerVars
<1>3. ASSUME NEW d \in Docs, Publish(d) PROVE MessageInv'
  BY <1>3 DEF Publish, MessageInv, TypeOK, clientVars, workerVars
<1>4. ASSUME NEW w \in Workers, NEW d \in Docs, Receive(w, d) PROVE MessageInv'
  <2>1. \A v \in Workers \ {w} : doc[v] # d /\ doc'[v] = doc[v] /\ pc'[v] = pc[v] /\ held'[v] = held[v]
    BY <1>4, IngestionAssumption DEF Receive, OneHandler, TypeOK
  <2>2. doc'[w] = d /\ pc'[w] # "idle" /\ held'[w] /\ d # NoDoc
    BY <1>4, IngestionAssumption DEF Receive, TypeOK
  <2>3. \A e \in Docs : (e # d => queue'[e] = queue[e]) /\ (queue'[e] > 0 => queue[e] > 0)
    BY <1>4 DEF Receive, TypeOK
  <2>4. sends[d] > 0 /\ UNCHANGED <<manifest, upload, sends>>
    BY <1>4 DEF Receive, MessageInv, clientVars
  <2>5. \A v \in Workers \ {w} : doc[v] # NoDoc => doc[v] \in Docs
    BY DEF TypeOK
  <2> QED
    BY <2>1, <2>2, <2>3, <2>4, <2>5 DEF MessageInv
<1>5. ASSUME NEW w \in Workers, Handle(w) \/ Crash(w) \/ ChannelLost(w) \/ Cancel(w)
      PROVE  MessageInv'
  <2>1. Elsewhere(w) /\ sends[doc[w]] > 0 /\ upload[doc[w]] = "queued"
    <3>1. Elsewhere(w)
      BY <1>5, HandleIsLocal
    <3> QED
      BY <3>1, IngestionAssumption DEF Elsewhere, MessageInv
  <2>2. /\ pc'[w] = "idle" <=> doc'[w] = NoDoc
        /\ held'[w] => doc'[w] # NoDoc
        /\ doc'[w] # NoDoc => doc'[w] = doc[w]
        /\ doc'[w] # NoDoc /\ ~held'[w] => queue'[doc[w]] > 0
    <3>1. doc[w] # NoDoc /\ pc[w] # "idle" /\ (~held[w] => queue[doc[w]] > 0)
      BY <2>1, IngestionAssumption DEF Elsewhere, MessageInv
    <3>2. CASE Handle(w) /\ ~Settle(w)
      <4>1. UNCHANGED <<doc, held, queue>>
        BY <3>2 DEF Handle, Load, FindsNoFile, Recover, FindsFile, MarkProcessing, MarkRaises, Read,
           Reject, Clear, Start, Upsert, Progress, Complete, Raises, Withdraw, MarkFailed, Cleanup,
           Goto, brokerVars
      <4>2. pc'[w] # "idle"
        BY <3>2 DEF Handle, Load, FindsNoFile, Recover, FindsFile, MarkProcessing, MarkRaises, Read,
           Reject, Clear, Start, Upsert, Progress, Complete, Raises, Withdraw, MarkFailed, Cleanup,
           Goto, TypeOK
      <4> QED
        BY <3>1, <4>1, <4>2
    <3>3. CASE Idle(w)
      BY <3>3 DEF Idle, TypeOK
    <3>4. CASE ChannelLost(w)
      BY <2>1, <3>1, <3>4 DEF ChannelLost, Redelivered, TypeOK
    <3> QED
      BY <1>5, <3>2, <3>3, <3>4 DEF Settle, Crash, Cancel
  <2>3. manifest'[doc[w]].status # "absent"
    <3>1. manifest[doc[w]].status # "absent" /\ manifest[doc[w]] \in Manifest
      BY <2>1 DEF Elsewhere, MessageInv, TypeOK
    <3>2. CASE UNCHANGED manifest
      BY <3>1, <3>2
    <3>3. CASE \E row : SetManifest(w, row) /\ row.status # "absent"
      BY <2>1, <3>3 DEF Elsewhere, SetManifest, TypeOK
    <3>4. CASE Recover(w) \/ Reject(w) \/ Complete(w)
      BY <3>3, <3>4 DEF Recover, Reject, Complete
    <3>5. doc[w] \in Docs
      BY <2>1 DEF Elsewhere
    <3>7. CASE MarkProcessing(w) \/ MarkFailed(w)
      BY <3>1, <3>5, <3>7, RowWritten
    <3>8. CASE Start(w) \/ Progress(w)
      BY <3>1, <3>5, <3>8, RowWritten
    <3> QED
      BY <1>5, <3>2, <3>4, <3>7, <3>8 DEF Handle, Load, FindsNoFile, FindsFile, MarkRaises, Read, Clear,
         Upsert, Raises, Withdraw, Cleanup, Settle, Crash, ChannelLost, Cancel
  <2>4. queue'[doc[w]] > 0 => sends'[doc[w]] > 0
    BY <2>1 DEF Elsewhere
  <2>5. \A v \in Workers \ {w} : doc[v] # NoDoc => doc[v] \in Docs
    BY DEF TypeOK
  <2> QED
    BY <2>1, <2>2, <2>3, <2>4, <2>5 DEF MessageInv, Elsewhere
<1> QED
  BY <1>1, <1>2, <1>3, <1>4, <1>5 DEF Next

LEMMA WorkStep ==
  ASSUME TypeOK, MessageInv, OneHandler, WorkInv, TypeOK', [Next]_vars
  PROVE  WorkInv'
<1>1. CASE UNCHANGED vars
  BY <1>1 DEF WorkInv, vars, workerVars
<1>2. ASSUME NEW d \in Docs, Upload(d) \/ Publish(d) \/ Delete(d) PROVE WorkInv'
  <2>1. UNCHANGED <<pc, doc>>
    BY <1>2 DEF Upload, Publish, Delete, CreateManifest, WriteFile, WriteFails, Enqueue,
       UploadAborts, DeletePoints, DeleteRest, workerVars
  <2>2. \A e \in Docs : upload[e] = "queued" => manifest'[e] = manifest[e]
    BY <1>2 DEF Upload, Publish, Delete, CreateManifest, WriteFile, WriteFails, Enqueue,
       UploadAborts, DeletePoints, DeleteRest, TypeOK
  <2>3. \A v \in Workers : pc[v] \in Working => doc[v] \in Docs /\ upload[doc[v]] = "queued"
    BY IngestionAssumption DEF TypeOK, Working, Handling, MessageInv
  <2> QED
    BY <2>1, <2>2, <2>3 DEF WorkInv
<1>3. ASSUME NEW w \in Workers, NEW d \in Docs, Receive(w, d) PROVE WorkInv'
  <2>1. \A v \in Workers : pc'[v] \in Working => pc'[v] = pc[v] /\ doc'[v] = doc[v]
    BY <1>3 DEF Receive, Working, TypeOK
  <2>2. "reject" \in Working
    BY DEF Working
  <2> QED
    BY <1>3, <2>1, <2>2 DEF Receive, WorkInv
<1>4. ASSUME NEW w \in Workers, Handle(w) \/ Crash(w) \/ ChannelLost(w) \/ Cancel(w)
      PROVE  WorkInv'
  <2>1. Elsewhere(w)
    BY <1>4, HandleIsLocal
  <2>2. pc'[w] \in Working => doc'[w] = doc[w] /\ manifest'[doc[w]].status = "processing"
    <3>1. manifest[doc[w]] \in Manifest
      BY <2>1 DEF Elsewhere, TypeOK
    <3> USE DEF TypeOK, Goto, Working, WorkInv, At
    <3>2. CASE Load(w) \/ FindsNoFile(w) \/ FindsFile(w) \/ MarkRaises(w) \/ Cleanup(w)
               \/ Recover(w) \/ Reject(w) \/ Complete(w) \/ MarkFailed(w)
      BY <3>2 DEF Load, FindsNoFile, FindsFile, MarkRaises, Cleanup, Recover, Reject, Complete,
         MarkFailed
    <3>3. CASE Read(w) \/ Clear(w) \/ Upsert(w) \/ Raises(w) \/ Withdraw(w)
      <4>1. pc[w] \in Working /\ UNCHANGED <<manifest, doc>>
        BY <3>3 DEF Read, Clear, Upsert, Raises, Withdraw
      <4> QED
        BY <4>1
    <3>4. CASE MarkProcessing(w) \/ Start(w) \/ Progress(w)
      <4>1. doc[w] \in Docs /\ UNCHANGED doc
        BY <2>1, <3>4 DEF Elsewhere, MarkProcessing, Start, Progress
      <4> QED
        BY <3>4, <4>1, RowWritten DEF Start, Progress
    <3>5. CASE Settle(w) \/ Crash(w) \/ Cancel(w)
      BY <3>5 DEF Settle, Crash, Cancel, Idle
    <3>6. CASE ChannelLost(w)
      BY <3>6 DEF ChannelLost
    <3> QED
      BY <1>4, <3>2, <3>3, <3>4, <3>5, <3>6 DEF Handle
  <2>3. \A v \in Workers \ {w} : pc[v] \in Working => doc[v] \in Docs
    BY DEF TypeOK, Working, Handling
  <2>4. pc'[w] = "reject" => pc[w] = "reject" \/ "reject" \in Faults
    BY <1>4 DEF Handle, Load, FindsNoFile, Recover, FindsFile, MarkProcessing, MarkRaises, Read,
       Reject, Clear, Start, Upsert, Progress, Complete, Raises, Withdraw, MarkFailed, Cleanup,
       Settle, Crash, ChannelLost, Cancel, Goto, Idle, TypeOK
  <2> QED
    BY <2>1, <2>2, <2>3, <2>4 DEF WorkInv, Elsewhere
<1> QED
  BY <1>1, <1>2, <1>3, <1>4 DEF Next

(* Points only come by the batches of a document that is being processed.    *)
LEMMA PointStep ==
  ASSUME TypeOK, MessageInv, OneHandler, WorkInv, PointInv, TypeOK', [Next]_vars,
         "qdrant" \notin Faults, "reject" \notin Faults
  PROVE  PointInv'
<1>1. CASE UNCHANGED vars
  BY <1>1 DEF PointInv, FailedLeavesNoPoints, vars, clientVars, workerVars
<1>2. ASSUME NEW d \in Docs, Upload(d) \/ Publish(d) \/ Delete(d) PROVE PointInv'
  <2>1. UNCHANGED <<pc, doc>>
    BY <1>2 DEF Upload, Publish, Delete, CreateManifest, WriteFile, WriteFails, Enqueue,
       UploadAborts, DeletePoints, DeleteRest, workerVars
  <2>2. \A e \in Docs : /\ points'[e] = points[e] \/ points'[e] = {}
                        /\ upload'[e] \in {"none", "writing"} => upload[e] \in {"none", "writing"}
    BY <1>2 DEF Upload, Publish, Delete, CreateManifest, WriteFile, WriteFails, Enqueue,
       UploadAborts, DeletePoints, DeleteRest, TypeOK, clientVars
  <2>3. \A e \in Docs : manifest'[e] = manifest[e] \/ upload[e] \in {"none", "writing"}
    BY <1>2 DEF Upload, Publish, Delete, CreateManifest, WriteFile, WriteFails, Enqueue,
       UploadAborts, DeletePoints, DeleteRest, TypeOK
  <2>4. \A v \in Workers : pc[v] = "fail" => doc[v] \in Docs
    BY DEF TypeOK, Handling
  <2> QED
    BY <2>1, <2>2, <2>3, <2>4 DEF PointInv, FailedLeavesNoPoints
<1>3. ASSUME NEW w \in Workers, NEW d \in Docs, Receive(w, d) PROVE PointInv'
  <2>1. \A v \in Workers : pc'[v] = "fail" => pc[v] = "fail" /\ doc'[v] = doc[v]
    BY <1>3 DEF Receive, TypeOK
  <2> QED
    BY <1>3, <2>1 DEF Receive, PointInv, FailedLeavesNoPoints, clientVars
<1>4. ASSUME NEW w \in Workers, Handle(w) \/ Crash(w) \/ ChannelLost(w) \/ Cancel(w)
      PROVE  PointInv'
  <2>1. Elsewhere(w)
    BY <1>4, HandleIsLocal
  <2>2. doc[w] \in Docs /\ upload[doc[w]] = "queued" /\ upload' = upload
    BY <2>1, IngestionAssumption DEF Elsewhere, MessageInv
  <2>3. /\ manifest'[doc[w]].status = "failed" => points'[doc[w]] = {}
        /\ pc'[w] = "fail" => doc'[w] = doc[w] /\ points'[doc[w]] = {}
    <3> DEFINE d == doc[w]
    <3>1. pc[w] \in Working => manifest[d].status = "processing"
      BY DEF WorkInv
    <3>2. /\ manifest[d].status = "failed" => points[d] = {}
          /\ pc[w] = "fail" => points[d] = {}
      BY <2>2 DEF PointInv, FailedLeavesNoPoints
    <3> USE DEF Goto, At
    <3>3. CASE Load(w) \/ FindsNoFile(w) \/ FindsFile(w) \/ MarkRaises(w) \/ Cleanup(w)
      <4>1. pc' = [pc EXCEPT ![w] = pc'[w]] /\ pc'[w] # "fail" /\ UNCHANGED <<manifest, points>>
        BY <3>3 DEF Load, FindsNoFile, FindsFile, MarkRaises, Cleanup, TypeOK
      <4> QED
        BY <3>2, <4>1
    <3>4. CASE Read(w)
      BY <3>1, <3>2, <3>4 DEF Read, TypeOK
    <3>5. CASE Recover(w) \/ Complete(w)
      <4>1. manifest'[d].status = "indexed" /\ pc'[w] # "fail"
        BY <2>2, <3>5 DEF Recover, Complete, SetManifest, TypeOK
      <4> QED
        BY <4>1
    <3>6. CASE Reject(w)
      BY <3>6 DEF Reject, WorkInv, PointInv
    <3>7. CASE MarkProcessing(w) \/ Start(w) \/ Progress(w)
      <4>1. manifest'[d].status = "processing"
        BY <2>2, <3>1, <3>7, RowWritten DEF Start, Progress, Working
      <4>2. pc'[w] # "fail"
        BY <3>7 DEF MarkProcessing, Start, Progress, TypeOK
      <4> QED
        BY <4>1, <4>2
    <3>8. CASE Clear(w) \/ Upsert(w) \/ Raises(w)
      <4>1. manifest'[d].status = "processing" /\ pc'[w] # "fail"
        BY <3>1, <3>8 DEF Clear, Upsert, Raises, Working, TypeOK
      <4> QED
        BY <4>1
    <3>9. CASE Withdraw(w)
      <4>1. points'[d] = {} /\ doc' = doc
        BY <2>2, <3>9 DEF Withdraw, Cleared, TypeOK
      <4> QED
        BY <4>1
    <3>10. CASE MarkFailed(w)
      BY <3>2, <3>10 DEF MarkFailed, TypeOK
    <3>11. CASE Settle(w) \/ Crash(w)
      BY <3>2, <3>11 DEF Settle, Crash, Idle, TypeOK
    <3>12. CASE ChannelLost(w)
      BY <3>2, <3>12 DEF ChannelLost
    <3>13. CASE Cancel(w)
      <4>1. manifest'[d] = manifest[d] /\ pc'[w] = "idle"
        BY <3>13 DEF Cancel, Idle, TypeOK
      <4>2. points'[d] = points[d] \/ manifest[d].status = "processing"
        BY <3>1, <3>13 DEF Cancel, Working
      <4> QED
        BY <3>2, <4>1, <4>2
    <3> QED
      BY <1>4, <3>3, <3>4, <3>5, <3>6, <3>7, <3>8, <3>9, <3>10, <3>11, <3>12, <3>13 DEF Handle
  <2>4. \A v \in Workers \ {w} : pc[v] = "fail" => doc[v] \in Docs
    BY DEF TypeOK, Handling
  <2>5. \A d \in Docs : manifest'[d].status = "failed" => points'[d] = {}
    BY <2>1, <2>3 DEF PointInv, FailedLeavesNoPoints, Elsewhere
  <2>6. \A v \in Workers : pc'[v] = "fail" => points'[doc'[v]] = {}
    BY <2>1, <2>3, <2>4 DEF PointInv, Elsewhere
  <2>7. \A d \in Docs : upload'[d] \in {"none", "writing"} => points'[d] = {}
    BY <2>1, <2>2 DEF PointInv, Elsewhere
  <2> QED
    BY <2>5, <2>6, <2>7 DEF PointInv, FailedLeavesNoPoints
<1> QED
  BY <1>1, <1>2, <1>3, <1>4 DEF Next

(* What FileInv says of one document, and of one worker.                    *)
FileOf(d) ==
    /\ deletion[d] = "none"
    /\ upload[d] \in {"staged", "queued"} /\ manifest[d].status \in Undecided => d \in staged

FileAt(w) ==
    /\ pc[w] \in Working \cup {"mark"} => doc[w] \in staged
    /\ pc[w] \in {"recover", "ack", "nack"} => doc[w] \notin staged
    /\ pc[w] \in {"clean", "drop"} => manifest[doc[w]].status \notin Undecided
    /\ \A d \in quarantine[w] : d \notin staged /\ upload[d] = "queued"

LEMMA FileStep ==
  ASSUME TypeOK, MessageInv, OneHandler, WorkInv, FileInv, TypeOK', [Next]_vars,
         Faults \cap {"cancel", "delete", "database", "qdrant"} = {}
  PROVE  FileInv'
<1>1. CASE UNCHANGED vars
  BY <1>1 DEF FileInv, vars, clientVars, workerVars, poisonVars
<1>2. ASSUME NEW d \in Docs, Upload(d) \/ Publish(d) \/ Delete(d) PROVE FileInv'
  <2>1. CreateManifest(d) \/ WriteFile(d) \/ WriteFails(d) \/ Enqueue(d) \/ UploadAborts(d) \/ Publish(d)
    BY <1>2 DEF Upload, Delete, DeletePoints, DeleteRest, FileInv
  <2>2. UNCHANGED <<pc, doc, quarantine, deletion>>
    BY <2>1 DEF Publish, CreateManifest, WriteFile, WriteFails, Enqueue, UploadAborts, workerVars,
       poisonVars, clientVars
  <2>3. \A e \in Docs : FileOf(e)'
    <3>1. CASE CreateManifest(d) \/ WriteFails(d) \/ UploadAborts(d)
      <4>1. upload'[d] \in {"writing", "raised"} /\ staged' = staged
        BY <3>1 DEF CreateManifest, WriteFails, UploadAborts, TypeOK
      <4>2. \A e \in Docs \ {d} : upload'[e] = upload[e] /\ manifest'[e] = manifest[e]
        BY <3>1 DEF CreateManifest, WriteFails, UploadAborts, TypeOK
      <4> QED
        BY <2>2, <4>1, <4>2 DEF FileInv, FileOf
    <3>2. CASE WriteFile(d)
      BY <2>2, <3>2 DEF WriteFile, FileInv, FileOf, TypeOK
    <3>3. CASE Enqueue(d) \/ Publish(d)
      <4>1. UNCHANGED <<manifest, staged>>
        BY <3>3 DEF Enqueue, Publish
      <4>2. \A e \in Docs : upload'[e] \in {"staged", "queued"} => upload[e] \in {"staged", "queued"}
        BY <3>3 DEF Enqueue, Publish, clientVars, TypeOK
      <4> QED
        BY <2>2, <4>1, <4>2 DEF FileInv, FileOf
    <3> QED
      BY <2>1, <3>1, <3>2, <3>3
  <2>4. \A e \in Docs : upload[e] = "queued" =>
           (e \in staged' <=> e \in staged) /\ upload'[e] = "queued" /\ manifest'[e] = manifest[e]
    BY <2>1 DEF Publish, CreateManifest, WriteFile, WriteFails, Enqueue, UploadAborts, TypeOK,
       clientVars
  <2>5. \A v \in Workers : FileAt(v)'
    <3>1. \A v \in Workers : pc[v] # "idle" => doc[v] \in Docs /\ upload[doc[v]] = "queued"
      BY IngestionAssumption DEF TypeOK, MessageInv
    <3>2. \A v \in Workers : quarantine[v] \subseteq Docs
      BY DEF TypeOK
    <3> QED
      BY <2>2, <2>4, <3>1, <3>2 DEF FileInv, FileAt, Working
  <2> QED
    BY <2>3, <2>5 DEF FileInv, FileOf, FileAt
<1>3. ASSUME NEW w \in Workers, NEW d \in Docs, Receive(w, d) PROVE FileInv'
  <2>1. UNCHANGED <<manifest, staged, upload, deletion, quarantine>>
    BY <1>3 DEF Receive, clientVars, poisonVars
  <2>2. pc'[w] = IF d \in quarantine[w] THEN "ack" ELSE "load"
    BY <1>3 DEF Receive, TypeOK
  <2>3. doc'[w] = d /\ \A v \in Workers \ {w} : pc'[v] = pc[v] /\ doc'[v] = doc[v]
    BY <1>3 DEF Receive, TypeOK
  <2>4. \A v \in Workers : FileAt(v)'
    BY <2>1, <2>2, <2>3 DEF FileInv, FileAt, Working
  <2> QED
    BY <2>1, <2>4 DEF FileInv, FileAt
<1>4. ASSUME NEW w \in Workers, Handle(w) \/ Crash(w) \/ ChannelLost(w) \/ Cancel(w)
      PROVE  FileInv'
  <2>1. Elsewhere(w)
    BY <1>4, HandleIsLocal
  <2>2. doc[w] \in Docs /\ upload[doc[w]] = "queued" /\ UNCHANGED <<upload, deletion>>
    <3>1. UNCHANGED deletion
      BY <1>4 DEF Handle, Load, FindsNoFile, Recover, FindsFile, MarkProcessing, MarkRaises, Read,
         Reject, Clear, Start, Upsert, Progress, Complete, Raises, Withdraw, MarkFailed, Cleanup,
         Settle, Crash, ChannelLost, Cancel, clientVars
    <3> QED
      BY <2>1, <3>1, IngestionAssumption DEF Elsewhere, MessageInv
  <2>3. (manifest'[doc[w]].status \in Undecided => doc[w] \in staged') /\ FileAt(w)'
    <3> DEFINE d == doc[w]
    <3>1. /\ manifest[d].status \in Undecided => d \in staged
          /\ pc[w] \in Working => manifest[d].status = "processing"
          /\ FileAt(w)
      BY <2>2 DEF FileInv, FileAt, WorkInv
    <3>2. \A e \in quarantine[w] : e \notin staged /\ upload[e] = "queued"
      BY <3>1 DEF FileAt
    <3>3. ASSUME UNCHANGED <<manifest, staged, upload, poisonVars>>, doc'[w] = d,
                 /\ pc'[w] \in Working \cup {"mark"} => d \in staged
                 /\ pc'[w] \in {"recover", "ack", "nack"} => d \notin staged
                 /\ pc'[w] \in {"clean", "drop"} => manifest[d].status \notin Undecided
          PROVE  (manifest'[d].status \in Undecided => d \in staged') /\ FileAt(w)'
      BY <3>1, <3>2, <3>3 DEF FileAt, poisonVars
    <3>4. ASSUME staged' = staged, manifest' = manifest, upload' = upload, Fails(w), d \notin staged,
                 doc'[w] = d, pc'[w] = "nack"
          PROVE  (manifest'[d].status \in Undecided => d \in staged') /\ FileAt(w)'
      <4>1. quarantine'[w] \subseteq quarantine[w] \cup {d}
        BY <3>4 DEF Fails, TypeOK
      <4> QED
        BY <2>2, <3>1, <3>2, <3>4, <4>1 DEF FileAt, Working
    <3>5. CASE Load(w)
      <4>1. manifest[d].status # "absent"
        BY <2>2 DEF MessageInv
      <4>2. pc'[w] = "look" /\ doc' = doc /\ UNCHANGED poisonVars
        BY <3>5, <4>1 DEF Load, Old, TypeOK
      <4> QED
        BY <2>2, <3>3, <3>5, <4>2 DEF Load, Working
    <3>6. CASE FindsNoFile(w)
      BY <2>2, <3>3, <3>4, <3>6 DEF FindsNoFile, Goto, TypeOK, Working
    <3>7. CASE FindsFile(w)
      BY <2>2, <3>3, <3>7 DEF FindsFile, Goto, TypeOK
    <3>8. CASE Read(w)
      BY <2>2, <3>1, <3>3, <3>8 DEF Read, Goto, TypeOK, At, FileAt, Working
    <3>9. CASE Clear(w) \/ Upsert(w) \/ Raises(w) \/ Withdraw(w)
      <4>1. pc[w] \in Working /\ pc'[w] \in Working
        BY <3>9 DEF Clear, Upsert, Raises, Withdraw, Goto, At, Working, TypeOK
      <4>2. UNCHANGED <<manifest, staged, upload, poisonVars, doc>>
        BY <2>2, <3>9 DEF Clear, Upsert, Raises, Withdraw, Goto
      <4> QED
        BY <3>1, <3>3, <4>1, <4>2 DEF FileAt, Working
    <3>10. CASE MarkProcessing(w) \/ Start(w) \/ Progress(w)
      <4>1. pc[w] \in Working \cup {"mark"} /\ pc'[w] \in Working
        BY <3>10 DEF MarkProcessing, Start, Progress, Goto, At, Working, TypeOK
      <4>2. UNCHANGED <<staged, upload, poisonVars, doc>>
        BY <2>2, <3>10 DEF MarkProcessing, Start, Progress, Goto
      <4> QED
        BY <3>1, <3>2, <4>1, <4>2 DEF FileAt, Working, poisonVars
    <3>11. CASE Reject(w) \/ Complete(w) \/ MarkFailed(w)
      <4>1. manifest'[d].status \in {"indexed", "failed"}
        <5>1. CASE Reject(w) \/ Complete(w)
          BY <2>2, <5>1 DEF Reject, Complete, SetManifest, TypeOK
        <5>2. CASE MarkFailed(w)
          BY <2>2, <5>2 DEF MarkFailed, SetManifest, Old, TypeOK, Manifest
        <5> QED
          BY <3>11, <5>1, <5>2
      <4>2. pc'[w] \in {"clean", "drop"} /\ UNCHANGED <<staged, poisonVars, doc>>
        BY <3>11 DEF Reject, Complete, MarkFailed, Goto, TypeOK
      <4> QED
        BY <2>2, <3>1, <3>2, <4>1, <4>2 DEF FileAt, Working, poisonVars, Undecided
    <3>12. CASE Recover(w)
      <4>1. manifest'[d].status = "indexed" /\ pc'[w] = "ack"
        BY <2>2, <3>12 DEF Recover, SetManifest, Goto, TypeOK
      <4>2. d \notin staged /\ UNCHANGED <<staged, doc, quarantine>>
        BY <3>1, <3>12 DEF Recover, At, Goto, FileAt, Succeeds
      <4> QED
        BY <2>2, <3>2, <4>1, <4>2 DEF FileAt, Working, Undecided
    <3>13. CASE Cleanup(w)
      <4>1. manifest[d].status \notin Undecided /\ UNCHANGED <<manifest, doc>>
        BY <3>1, <3>13 DEF Cleanup, At, Goto, FileAt
      <4>2. staged' = staged \ {d} /\ pc'[w] \in {"ack", "nack"}
        BY <3>13 DEF Cleanup, Goto, TypeOK
      <4>3. quarantine'[w] \subseteq quarantine[w] \cup {d}
        BY <3>13 DEF Cleanup, Succeeds, Fails, TypeOK
      <4> QED
        BY <2>2, <3>2, <4>1, <4>2, <4>3 DEF FileAt, Working
    <3>14. CASE Settle(w) \/ Crash(w)
      <4>1. pc'[w] = "idle" /\ UNCHANGED <<manifest, staged>> /\ quarantine'[w] \subseteq quarantine[w]
        BY <3>14 DEF Settle, Crash, Idle, TypeOK, poisonVars
      <4> QED
        BY <2>2, <3>1, <3>2, <4>1 DEF FileAt, Working
    <3>15. CASE ChannelLost(w)
      BY <2>2, <3>1, <3>15 DEF ChannelLost, FileAt, poisonVars
    <3>16. ~MarkRaises(w) /\ ~Cancel(w)
      BY DEF MarkRaises, Cancel, Fault
    <3> QED
      BY <1>4, <3>5, <3>6, <3>7, <3>8, <3>9, <3>10, <3>11, <3>12, <3>13, <3>14, <3>15, <3>16
         DEF Handle
  <2>5. \A v \in Workers \ {w} : FileAt(v)'
    <3>1. \A v \in Workers \ {w} : pc[v] # "idle" => doc[v] \in Docs
      BY DEF TypeOK
    <3>2. \A v \in Workers : quarantine[v] \subseteq Docs
      BY DEF TypeOK
    <3>3. doc[w] \in staged' => doc[w] \in staged
      BY <1>4 DEF Handle, Load, FindsNoFile, Recover, FindsFile, MarkProcessing, MarkRaises, Read,
         Reject, Clear, Start, Upsert, Progress, Complete, Raises, Withdraw, MarkFailed, Cleanup,
         Settle, Crash, ChannelLost, Cancel
    <3> QED
      BY <2>1, <2>2, <3>1, <3>2, <3>3 DEF FileInv, FileAt, Elsewhere, Working
  <2> QED
    BY <2>1, <2>2, <2>3, <2>5 DEF FileInv, FileAt, Elsewhere
<1> QED
  BY <1>1, <1>2, <1>3, <1>4 DEF Next

(* A document that is not decided has a message yet to come, or waiting, or   *)
(* in the hands of a worker that is not about to reject it.                  *)
SupplyInv ==
    \A d \in Docs : upload[d] = "queued" /\ manifest[d].status \in Undecided =>
        sends[d] < MaxSends \/ queue[d] > 0 \/ \E w \in Workers : doc[w] = d /\ pc[w] # "nack"

LEMMA SupplyStep ==
  ASSUME TypeOK, MessageInv, OneHandler, WorkInv, FileInv, SupplyInv, TypeOK', FileInv', [Next]_vars,
         Faults \cap {"cancel", "delete", "database", "qdrant"} = {}
  PROVE  SupplyInv'
<1>1. CASE UNCHANGED vars
  BY <1>1 DEF SupplyInv, vars, clientVars, brokerVars, workerVars
<1>2. ASSUME NEW d \in Docs, Upload(d) \/ Delete(d) PROVE SupplyInv'
  <2>1. UNCHANGED <<sends, queue, doc, pc>>
    BY <1>2 DEF Upload, Delete, CreateManifest, WriteFile, WriteFails, Enqueue, UploadAborts,
       DeletePoints, DeleteRest, brokerVars, workerVars
  <2>2. \A e \in Docs : upload'[e] = "queued" =>
           upload[e] = "staged" \/ (upload[e] = "queued" /\ manifest'[e] = manifest[e])
    BY <1>2 DEF Upload, Delete, CreateManifest, WriteFile, WriteFails, Enqueue, UploadAborts,
       DeletePoints, DeleteRest, TypeOK
  <2>3. ASSUME NEW e \in Docs, upload[e] = "staged" PROVE sends[e] < MaxSends
    <3>1. sends[e] \in 0 .. MaxSends
      BY DEF TypeOK
    <3>2. ~(sends[e] > 0)
      BY <2>3 DEF MessageInv
    <3> QED
      BY <3>1, <3>2, IngestionAssumption
  <2> QED
    BY <2>1, <2>2, <2>3 DEF SupplyInv
<1>3. ASSUME NEW d \in Docs, Publish(d) PROVE SupplyInv'
  <2>1. queue'[d] > 0 /\ \A e \in Docs \ {d} : queue'[e] = queue[e] /\ sends'[e] = sends[e]
    BY <1>3 DEF Publish, TypeOK
  <2> QED
    BY <1>3, <2>1 DEF Publish, SupplyInv, clientVars, workerVars
<1>4. ASSUME NEW w \in Workers, NEW d \in Docs, Receive(w, d) PROVE SupplyInv'
  <2>1. pc'[w] # "nack" /\ doc'[w] = d /\ \A e \in Docs \ {d} : queue'[e] = queue[e]
    BY <1>4 DEF Receive, TypeOK
  <2>2. \A v \in Workers \ {w} : doc'[v] = doc[v] /\ pc'[v] = pc[v]
    BY <1>4 DEF Receive, TypeOK
  <2>3. doc[w] \notin Docs
    BY <1>4, IngestionAssumption DEF Receive, At, MessageInv
  <2> QED
    BY <1>4, <2>1, <2>2, <2>3 DEF Receive, SupplyInv, clientVars
<1>5. ASSUME NEW w \in Workers, Handle(w) \/ Crash(w) \/ ChannelLost(w) \/ Cancel(w)
      PROVE  SupplyInv'
  <2>1. Elsewhere(w)
    BY <1>5, HandleIsLocal
  <2>2. ASSUME manifest'[doc[w]].status \in Undecided
        PROVE  queue'[doc[w]] > 0 \/ (doc'[w] = doc[w] /\ pc'[w] # "nack")
    <3>1. doc[w] \in Docs /\ upload[doc[w]] = "queued" /\ upload'[doc[w]] = "queued"
      BY <2>1, IngestionAssumption DEF Elsewhere, MessageInv
    <3>2. doc[w] \in staged'
      BY <2>2, <3>1 DEF FileInv
    <3>3. CASE Handle(w) /\ ~Settle(w)
      <4>1. doc' = doc
        BY <3>3 DEF Handle, Load, FindsNoFile, Recover, FindsFile, MarkProcessing, MarkRaises, Read,
           Reject, Clear, Start, Upsert, Progress, Complete, Raises, Withdraw, MarkFailed, Cleanup,
           Goto
      <4> QED
        BY <3>2, <4>1 DEF FileInv
    <3>4. CASE Settle(w)
      <4>1. doc[w] \notin staged /\ UNCHANGED staged
        BY <3>4 DEF Settle, At, FileInv
      <4> QED
        BY <3>2, <4>1
    <3>5. CASE Crash(w)
      <4>1. ~held[w] => queue[doc[w]] > 0
        BY <3>1, IngestionAssumption DEF MessageInv
      <4> QED
        BY <3>1, <3>5, <4>1 DEF Crash, Redelivered, TypeOK
    <3>6. CASE ChannelLost(w)
      BY <3>1, <3>6 DEF ChannelLost, Redelivered, TypeOK
    <3>7. ~Cancel(w)
      BY DEF Cancel, Fault
    <3> QED
      BY <1>5, <3>3, <3>4, <3>5, <3>6, <3>7
  <2>3. ASSUME NEW d \in Docs \ {doc[w]}, upload'[d] = "queued", manifest'[d].status \in Undecided
        PROVE  sends'[d] < MaxSends \/ queue'[d] > 0 \/ \E v \in Workers : doc'[v] = d /\ pc'[v] # "nack"
    <3>1. CASE sends[d] < MaxSends \/ queue[d] > 0
      BY <2>1, <2>3, <3>1 DEF Elsewhere
    <3>2. CASE \E v \in Workers : doc[v] = d /\ pc[v] # "nack"
      BY <2>1, <2>3, <3>2 DEF Elsewhere
    <3> QED
      BY <2>1, <2>3, <3>1, <3>2 DEF SupplyInv, Elsewhere
  <2> QED
    BY <2>2, <2>3 DEF SupplyInv
<1> QED
  BY <1>1, <1>2, <1>3, <1>4, <1>5 DEF Next

LEMMA CountStep ==
  ASSUME TypeOK, MessageInv, OneHandler, CountInv, TypeOK', [Next]_vars, "delete" \notin Faults,
         \A d \in Docs : deletion[d] = "none"
  PROVE  CountInv'
<1>1. CASE UNCHANGED vars
  BY <1>1 DEF CountInv, vars, workerVars
<1>2. ASSUME NEW d \in Docs, Upload(d) \/ Publish(d) \/ Delete(d) PROVE CountInv'
  <2>1. UNCHANGED <<pc, doc, seen, done, points>>
    BY <1>2 DEF Upload, Publish, Delete, CreateManifest, WriteFile, WriteFails, Enqueue,
       UploadAborts, DeletePoints, DeleteRest, workerVars
  <2>2. \A e \in Docs : upload[e] = "queued" => manifest'[e] = manifest[e]
    BY <1>2 DEF Upload, Publish, Delete, CreateManifest, WriteFile, WriteFails, Enqueue,
       UploadAborts, DeletePoints, DeleteRest, TypeOK
  <2>3. \A v \in Workers : pc[v] # "idle" => doc[v] \in Docs /\ upload[doc[v]] = "queued"
    BY IngestionAssumption DEF TypeOK, MessageInv
  <2> QED
    BY <2>1, <2>2, <2>3 DEF CountInv
<1>3. ASSUME NEW w \in Workers, NEW d \in Docs, Receive(w, d) PROVE CountInv'
  <2>1. pc'[w] \in {"ack", "load"}
    BY <1>3 DEF Receive, TypeOK
  <2>2. \A v \in Workers \ {w} : doc'[v] = doc[v] /\ pc'[v] = pc[v]
    BY <1>3 DEF Receive, TypeOK
  <2> QED
    BY <1>3, <2>1, <2>2 DEF Receive, CountInv
<1>4. ASSUME NEW w \in Workers, Handle(w) \/ Crash(w) \/ ChannelLost(w) \/ Cancel(w)
      PROVE  CountInv'
  <2>1. Elsewhere(w)
    BY <1>4, HandleIsLocal
  <2>2. /\ pc'[w] = "upsert" => 1 .. done'[w] \subseteq points'[doc'[w]]
        /\ pc'[w] = "progress" => 1 .. done'[w] + 1 \subseteq points'[doc'[w]]
        /\ pc'[w] = "complete" => points'[doc'[w]] = All
        /\ pc'[w] \in {"look", "recover"} => seen'[w] = manifest'[doc'[w]].indexed
    <3>1. doc[w] \in Docs /\ points[doc[w]] \subseteq All
      BY <2>1 DEF Elsewhere, TypeOK
    <3>2. CASE pc'[w] \notin {"upsert", "progress", "complete", "look", "recover"}
      BY <3>2
    <3>3. CASE Load(w)
      BY <3>1, <3>3 DEF Load, Goto, Old, TypeOK
    <3>4. CASE FindsNoFile(w)
      BY <3>4 DEF FindsNoFile, Goto, At, TypeOK, CountInv
    <3>5. CASE Start(w)
      BY <3>5 DEF Start, TypeOK
    <3>6. CASE Upsert(w)
      <4>1. pc'[w] = "progress" /\ UNCHANGED <<done, doc>> /\ 1 .. done[w] \subseteq points[doc[w]]
        BY <3>6 DEF Upsert, Goto, At, CountInv, TypeOK
      <4>2. points'[doc[w]] = points[doc[w]] \cup {done[w] + 1}
        BY <3>1, <3>6 DEF Upsert, Upserted, TypeOK
      <4>3. done[w] \in Nat
        BY DEF TypeOK
      <4>4. 1 .. done[w] + 1 \subseteq points'[doc[w]]
        <5>1. \A i \in 1 .. done[w] + 1 : i \in 1 .. done[w] \/ i = done[w] + 1
          BY <4>3
        <5> QED
          BY <4>1, <4>2, <5>1
      <4> QED
        BY <4>1, <4>4
    <3>7. CASE Progress(w)
      <4>1. 1 .. done[w] + 1 \subseteq points[doc[w]] /\ UNCHANGED <<points, doc>>
        BY <3>7 DEF Progress, At, CountInv
      <4>2. done'[w] = done[w] + 1
        BY <3>7 DEF Progress, TypeOK
      <4>3. pc'[w] = IF done[w] + 1 = Batches THEN "complete" ELSE "upsert"
        BY <3>7 DEF Progress, TypeOK
      <4>4. CASE done[w] + 1 = Batches
        BY <3>1, <4>1, <4>2, <4>3, <4>4 DEF All
      <4>5. CASE done[w] + 1 # Batches
        BY <4>1, <4>2, <4>3, <4>5
      <4> QED
        BY <4>4, <4>5
    <3>8. CASE ChannelLost(w)
      BY <3>8 DEF ChannelLost, CountInv
    <3>9. CASE Recover(w) \/ FindsFile(w) \/ MarkProcessing(w) \/ MarkRaises(w) \/ Read(w)
               \/ Reject(w) \/ Clear(w) \/ Complete(w) \/ Raises(w) \/ Withdraw(w)
               \/ MarkFailed(w) \/ Cleanup(w) \/ Settle(w) \/ Crash(w) \/ Cancel(w)
      BY <3>2, <3>9 DEF Recover, FindsFile, MarkProcessing, MarkRaises, Read, Reject, Clear,
         Complete, Raises, Withdraw, MarkFailed, Cleanup, Settle, Crash, Cancel, Idle, Goto, TypeOK
    <3> QED
      BY <1>4, <3>3, <3>4, <3>5, <3>6, <3>7, <3>8, <3>9 DEF Handle
  <2>3. \A v \in Workers \ {w} : pc[v] # "idle" => doc[v] \in Docs
    BY DEF TypeOK
  <2> QED
    BY <2>1, <2>2, <2>3 DEF CountInv, Elsewhere
<1> QED
  BY <1>1, <1>2, <1>3, <1>4 DEF Next

(* A document is called indexed by who has stored all of it, or finds it so.  *)
LEMMA IndexStep ==
  ASSUME TypeOK, MessageInv, OneHandler, WorkInv, FileInv, CountInv, [Next]_vars,
         "delete" \notin Faults, NEW d \in Docs, manifest'[d].status = "indexed",
         manifest[d].status # "failed", manifest[d].status = "indexed" => Whole(d)
  PROVE  Whole(d)'
<1>1. CASE points'[d] = points[d] /\ manifest'[d] = manifest[d]
  BY <1>1 DEF Whole
<1>2. ASSUME NEW e \in Docs, Upload(e) \/ Publish(e) \/ Delete(e) PROVE Whole(d)'
  <2>1. points' = points
    BY <1>2 DEF Upload, Publish, Delete, CreateManifest, WriteFile, WriteFails, Enqueue,
       UploadAborts, DeletePoints, DeleteRest
  <2>2. manifest'[d] = manifest[d]
    <3>1. manifest[d] \in Manifest
      BY DEF TypeOK
    <3> QED
      BY <1>2, <3>1 DEF Upload, Publish, Delete, CreateManifest, WriteFile, WriteFails, Enqueue,
         UploadAborts, DeletePoints, DeleteRest, TypeOK, Manifest
  <2> QED
    BY <1>1, <2>1, <2>2
<1>3. ASSUME NEW w \in Workers, Handle(w) \/ Crash(w) \/ ChannelLost(w) \/ Cancel(w)
      PROVE  Whole(d)'
  <2>1. Elsewhere(w)
    BY <1>3, HandleIsLocal
  <2>2. CASE doc[w] # d
    BY <1>1, <2>1, <2>2 DEF Elsewhere
  <2>3. CASE doc[w] = d
    <3>1. /\ doc[w] \in Docs /\ upload[d] = "queued" /\ manifest[d] \in Manifest
          /\ pc[w] \in Working => manifest[d].status = "processing"
      BY <2>3, IngestionAssumption DEF MessageInv, TypeOK, WorkInv
    <3>2. CASE Complete(w)
      <4>1. manifest'[d] = [status |-> "indexed", total |-> Batches, indexed |-> Batches]
        BY <2>3, <3>2 DEF Complete, SetManifest, TypeOK
      <4>2. points'[d] = All
        BY <2>3, <3>2 DEF Complete, At, CountInv
      <4> QED
        BY <4>1, <4>2 DEF Whole
    <3>3. CASE Recover(w)
      <4>1. seen[w] = manifest[d].indexed /\ d \notin staged
        BY <2>3, <3>3 DEF Recover, At, CountInv, FileInv
      <4>2. Whole(d)
        BY <3>1, <4>1 DEF FileInv, Manifest, Undecided, MessageInv
      <4>3. manifest'[d] = [status |-> "indexed", total |-> seen[w], indexed |-> seen[w]]
        BY <2>3, <3>3 DEF Recover, SetManifest, TypeOK
      <4>4. points' = points
        BY <3>3 DEF Recover
      <4> QED
        BY <4>1, <4>2, <4>3, <4>4 DEF Whole
    <3>4. CASE MarkProcessing(w) \/ Reject(w) \/ MarkFailed(w) \/ Start(w) \/ Progress(w)
      <4>1. manifest'[d].status # "indexed"
        <5>1. CASE Reject(w)
          BY <2>3, <5>1 DEF Reject, SetManifest, TypeOK
        <5>2. CASE MarkProcessing(w) \/ MarkFailed(w) \/ Start(w) \/ Progress(w)
          BY <2>3, <3>1, <5>2, RowWritten DEF MarkFailed, Start, Progress, At, Working
        <5> QED
          BY <3>4, <5>1, <5>2
      <4> QED
        BY <4>1
    <3>5. CASE Clear(w) \/ Upsert(w) \/ Raises(w) \/ Withdraw(w) \/ Cancel(w)
      <4>1. manifest' = manifest
        BY <3>5 DEF Clear, Upsert, Raises, Withdraw, Cancel
      <4>2. pc[w] \notin Working
        BY <3>1, <4>1
      <4>3. points' = points
        BY <3>5, <4>2 DEF Clear, Upsert, Raises, Withdraw, Cancel, At, Working
      <4> QED
        BY <1>1, <4>1, <4>3
    <3>6. CASE Load(w) \/ FindsNoFile(w) \/ FindsFile(w) \/ MarkRaises(w) \/ Read(w) \/ Cleanup(w)
               \/ Settle(w) \/ Crash(w) \/ ChannelLost(w)
      BY <1>1, <3>6 DEF Load, FindsNoFile, FindsFile, MarkRaises, Read, Cleanup, Settle, Crash,
         ChannelLost
    <3> QED
      BY <1>3, <3>2, <3>3, <3>4, <3>5, <3>6 DEF Handle
  <2> QED
    BY <2>2, <2>3
<1>4. CASE UNCHANGED vars
  BY <1>1, <1>4 DEF vars
<1>5. ASSUME NEW w \in Workers, NEW e \in Docs, Receive(w, e) PROVE Whole(d)'
  BY <1>1, <1>5 DEF Receive
<1> QED
  BY <1>2, <1>3, <1>4, <1>5 DEF Next
-----------------------------------------------------------------------------
LEMMA InitFates ==
  Init => MessageInv /\ OneHandler /\ WorkInv /\ PointInv /\ FileInv /\ SupplyInv /\ CountInv
  BY DEF Init, MessageInv, OneHandler, WorkInv, PointInv, FileInv, SupplyInv, CountInv,
     FailedLeavesNoPoints, Working, Undecided

(* The worker that is alone at a document.                                  *)
LEMMA AloneAtIt ==
  ASSUME Alone
  PROVE  Spec => []OneHandler
<1>1. CASE \A v, w \in Workers : v = w
  <2>1. OneHandler
    BY <1>1 DEF OneHandler
  <2> QED
    BY <2>1, PTL
<1>2. CASE MaxSends = 1 /\ "channel" \notin Faults
  BY <1>2, OneWorkerPerDocument
<1> QED
  BY <1>1, <1>2 DEF Alone

LEMMA WorkIsMarked ==
  ASSUME Alone
  PROVE  Spec => [](TypeOK /\ OneHandler /\ MessageInv /\ WorkInv)
<1>1. TypeOK /\ MessageInv /\ WorkInv /\ OneHandler /\ TypeOK' /\ OneHandler' /\ [Next]_vars
         => MessageInv' /\ WorkInv'
  BY MessageStep, WorkStep
<1> QED
  BY <1>1, InitFates, AloneAtIt, TypeCorrect, PTL DEF Spec

\* As long as a worker is alone at a document, the vector store can be reached
\* and no text is refused that was taken before, a document that is called
\* failed has no point left: whatever crashes, shutdowns, deletions, database
\* errors and failed embeddings there are.
THEOREM FailedIsWithdrawn ==
  ASSUME Alone, "qdrant" \notin Faults, "reject" \notin Faults
  PROVE  Spec => []FailedLeavesNoPoints
<1>1. /\ TypeOK /\ OneHandler /\ MessageInv /\ WorkInv /\ PointInv
      /\ (TypeOK /\ OneHandler /\ MessageInv /\ WorkInv)'
      /\ [Next]_vars
      => PointInv'
  BY PointStep
<1>2. PointInv => FailedLeavesNoPoints
  BY DEF PointInv
<1> QED
  BY <1>1, <1>2, InitFates, WorkIsMarked, PTL DEF Spec

LEMMA FilesAreKept ==
  ASSUME Alone, Faults \cap {"cancel", "delete", "database", "qdrant"} = {}
  PROVE  Spec => [](FileInv /\ SupplyInv /\ CountInv)
<1>1. /\ TypeOK /\ OneHandler /\ MessageInv /\ WorkInv /\ FileInv
      /\ (TypeOK /\ OneHandler /\ MessageInv /\ WorkInv)'
      /\ [Next]_vars
      => FileInv'
  BY FileStep
<1>2. /\ TypeOK /\ OneHandler /\ MessageInv /\ WorkInv /\ FileInv /\ SupplyInv
      /\ TypeOK' /\ FileInv' /\ [Next]_vars
      => SupplyInv'
  BY SupplyStep
<1>3. FileInv => \A d \in Docs : deletion[d] = "none"
  BY DEF FileInv
<1>4. TypeOK /\ OneHandler /\ MessageInv /\ FileInv /\ CountInv /\ TypeOK' /\ [Next]_vars => CountInv'
  BY <1>3, CountStep
<1> QED
  BY <1>1, <1>2, <1>4, InitFates, WorkIsMarked, PTL DEF Spec

\* A document that was accepted and is not decided has its file, and a message
\* that can still bring it on, through any number of crashes, lost channels,
\* repeated publications and failed embeddings.
THEOREM DocumentsAreRecoverable ==
  ASSUME Alone, Faults \cap {"cancel", "delete", "database", "qdrant"} = {}
  PROVE  Spec => []UndecidedIsRecoverable
<1>1. FileInv /\ SupplyInv => UndecidedIsRecoverable
  BY DEF FileInv, SupplyInv, UndecidedIsRecoverable, Undecided
<1> QED
  BY <1>1, FilesAreKept, PTL

\* Under the same assumptions "indexed" is true when it is written, and stays
\* true: every batch is stored and the counts say so.
THEOREM IndexedMeansComplete ==
  ASSUME Alone, Faults \cap {"cancel", "delete", "database", "qdrant"} = {}
  PROVE  Spec => IndexedIsComplete
<1> DEFINE Step == \A d \in Docs : manifest'[d].status = "indexed" =>
                      \/ manifest[d].status = "failed"
                      \/ manifest[d].status = "indexed" /\ ~Whole(d)
                      \/ Whole(d)'
<1>1. /\ TypeOK /\ OneHandler /\ MessageInv /\ WorkInv /\ FileInv /\ CountInv
      /\ [Next]_vars
      => [Step]_vars
  BY IndexStep
<1> QED
  BY <1>1, FilesAreKept, WorkIsMarked, PTL DEF Spec, IndexedIsComplete
=============================================================================
