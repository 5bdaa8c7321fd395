-------------------------- MODULE DocumentIngestion --------------------------
(***************************************************************************)
(* Documents on their way into the index: services/document_service.py,     *)
(* repositories/document_manifest_repository.py and                         *)
(* core/workers/document_ingestion_worker.py, whose handler is called by    *)
(* start_consumer of core/infrastructure/message_broker.py.                 *)
(*                                                                         *)
(* An upload writes a manifest row, then the staged file, then an outbox    *)
(* row; the outbox publishes a message, once or, if it must, several times  *)
(* (module Outbox).  Workers are processes that take one message at a time. *)
(* The handler reads the manifest, reads the file, replaces the document's  *)
(* points batch by batch, reporting progress in the manifest, and in the    *)
(* end deletes the file and acknowledges the message.  Each access to the   *)
(* database, the disk or the vector store is one step.                      *)
(*                                                                         *)
(* A document has the same number of batches, Batches, as any other, and    *)
(* chunk counts are counts of batches; point ids are deterministic, so the  *)
(* points of a document are the set of its batches that are stored.         *)
(***************************************************************************)
EXTENDS Integers, FiniteSets

CONSTANTS
    Docs,       \* documents uploaded
    Workers,    \* processes that consume janus.document.ingestion
    NoDoc,      \* what an idle worker is at
    Batches,    \* embedding batches of a document
    MaxSends,   \* bound: how often the outbox publishes one row
    MaxFaults,  \* bound: crashes, cancellations and lost channels
    Faults      \* what may go wrong

ASSUME IngestionAssumption ==
    /\ NoDoc \notin Docs
    /\ Batches \in Nat \ {0}
    /\ MaxSends \in Nat \ {0}
    /\ MaxFaults \in Nat
    /\ Faults \subseteq {"crash", "cancel", "channel", "embed", "qdrant", "database",
                         "reject", "upload", "delete"}

VARIABLES
    manifest,   \* document_manifests: status, chunks_total, chunks_indexed
    staged,     \* documents whose staged file is on disk
    points,     \* the batches of each document in the vector store
    upload,     \* where stage_upload is with each document
    deletion,   \* where the delete endpoint is with each document
    sends,      \* how often each document's message was published
    queue,      \* its messages that wait in the broker
    pc, doc,    \* where each worker is, and the document it is at
    seen,       \* the chunks_indexed it read from the manifest
    done,       \* the batches it has stored
    held,       \* whether its channel is still the one that delivered to it
    failures,   \* its failure_records: failure_count of each document's message
    quarantine, \* its quarantined messages
    faults      \* how often the environment interfered

clientVars == <<upload, deletion>>
brokerVars == <<sends, queue>>
workerVars == <<pc, doc, seen, done, held>>
poisonVars == <<failures, quarantine>>
vars == <<manifest, staged, points, clientVars, brokerVars, workerVars, poisonVars, faults>>

All == 1 .. Batches

Init ==
    /\ manifest = [d \in Docs |-> [status |-> "absent", total |-> 0, indexed |-> 0]]
    /\ staged = {}
    /\ points = [d \in Docs |-> {}]
    /\ upload = [d \in Docs |-> "none"]
    /\ deletion = [d \in Docs |-> "none"]
    /\ sends = [d \in Docs |-> 0]
    /\ queue = [d \in Docs |-> 0]
    /\ pc = [w \in Workers |-> "idle"]
    /\ doc = [w \in Workers |-> NoDoc]
    /\ seen = [w \in Workers |-> 0]
    /\ done = [w \in Workers |-> 0]
    /\ held = [w \in Workers |-> FALSE]
    /\ failures = [w \in Workers |-> [d \in Docs |-> 0]]
    /\ quarantine = [w \in Workers |-> {}]
    /\ faults = 0
-----------------------------------------------------------------------------
(* stage_upload, and the dispatch of its outbox row.                       *)

CreateManifest(d) ==
    /\ upload[d] = "none"
    /\ manifest' = [manifest EXCEPT ![d].status = "queued"]
    /\ upload' = [upload EXCEPT ![d] = "writing"]
    /\ UNCHANGED <<staged, points, deletion, brokerVars, workerVars, poisonVars, faults>>

WriteFile(d) ==
    /\ upload[d] = "writing"
    /\ staged' = staged \cup {d}
    /\ upload' = [upload EXCEPT ![d] = "staged"]
    /\ UNCHANGED <<manifest, points, deletion, brokerVars, workerVars, poisonVars, faults>>

(* The file is too large, or cannot be read: what was written of it goes.   *)
WriteFails(d) ==
    /\ "upload" \in Faults
    /\ upload[d] = "writing"
    /\ manifest' = [manifest EXCEPT ![d].status = "failed"]
    /\ upload' = [upload EXCEPT ![d] = "raised"]
    /\ UNCHANGED <<staged, points, deletion, brokerVars, workerVars, poisonVars, faults>>

Enqueue(d) ==
    /\ upload[d] = "staged"
    /\ upload' = [upload EXCEPT ![d] = "queued"]
    /\ UNCHANGED <<manifest, staged, points, deletion, brokerVars, workerVars, poisonVars, faults>>

(* The process dies, or enqueue_document_ingestion raises.                  *)
UploadAborts(d) ==
    /\ "upload" \in Faults
    /\ upload[d] \in {"writing", "staged"}
    /\ upload' = [upload EXCEPT ![d] = "raised"]
    /\ UNCHANGED <<manifest, staged, points, deletion, brokerVars, workerVars, poisonVars, faults>>

\* Mutant: the row is not marked sent.
Publish_Unmarked(d) ==
    /\ upload[d] = "queued"
    /\ sends[d] < MaxSends
    /\ queue' = [queue EXCEPT ![d] = @ + 1]
    /\ UNCHANGED <<manifest, staged, points, clientVars, sends, workerVars, poisonVars, faults>>

(* The outbox dispatches the row.                                          *)
Publish(d) ==
    /\ upload[d] = "queued"
    /\ sends[d] < MaxSends
    /\ sends' = [sends EXCEPT ![d] = @ + 1]
    /\ queue' = [queue EXCEPT ![d] = @ + 1]
    /\ UNCHANGED <<manifest, staged, points, clientVars, workerVars, poisonVars, faults>>
-----------------------------------------------------------------------------
(* The delete endpoint, for a document whose upload was answered.           *)
(* delete_manifest is called with an argument that it does not take: the     *)
(* TypeError leaves the row.                                               *)

DeletePoints(d) ==
    /\ "delete" \in Faults
    /\ upload[d] \in {"queued", "raised"}
    /\ deletion[d] = "none"
    /\ points' = [points EXCEPT ![d] = {}]
    /\ deletion' = [deletion EXCEPT ![d] = "points"]
    /\ UNCHANGED <<manifest, staged, upload, brokerVars, workerVars, poisonVars, faults>>

DeleteRest(d) ==
    /\ deletion[d] = "points"
    /\ staged' = staged \ {d}
    /\ deletion' = [deletion EXCEPT ![d] = "answered"]
    /\ UNCHANGED <<manifest, points, upload, brokerVars, workerVars, poisonVars, faults>>
-----------------------------------------------------------------------------
(* The handler, process_document_ingestion_task, of worker w.               *)

At(w, here) == pc[w] = here
Goto(w, there) == pc' = [pc EXCEPT ![w] = there] /\ UNCHANGED <<doc, seen, done, held>>
SetManifest(w, row) == manifest' = [manifest EXCEPT ![doc[w]] = row]
Old(w) == manifest[doc[w]]

(* protect_against_poison_pills skips messages that it has quarantined.     *)
Receive(w, d) ==
    /\ At(w, "idle")
    /\ queue[d] > 0
    /\ queue' = [queue EXCEPT ![d] = @ - 1]
    /\ pc' = [pc EXCEPT ![w] = IF d \in quarantine[w] THEN "ack" ELSE "load"]
    /\ doc' = [doc EXCEPT ![w] = d]
    /\ held' = [held EXCEPT ![w] = TRUE]
    /\ UNCHANGED <<manifest, staged, points, clientVars, sends, seen, done, poisonVars, faults>>

(* The handler returns: record_success.                                    *)
Succeeds(w) ==
    /\ failures' = [failures EXCEPT ![w][doc[w]] = 0]
    /\ UNCHANGED quarantine

(* The handler raises: record_failure, which finds a poison pill in the      *)
(* third failure, or in a second one that comes late enough.                *)
Fails(w) ==
    LET count == failures[w][doc[w]] + 1 IN
    /\ failures' = [failures EXCEPT ![w][doc[w]] = count]
    /\ \/ count < 3 /\ UNCHANGED quarantine
       \/ count > 1 /\ quarantine' = [quarantine EXCEPT ![w] = @ \cup {doc[w]}]

Load(w) ==
    /\ At(w, "load")
    /\ IF Old(w).status = "absent"
       THEN Goto(w, "nack") /\ Fails(w)
       ELSE /\ seen' = [seen EXCEPT ![w] = Old(w).indexed]
            /\ pc' = [pc EXCEPT ![w] = "look"]
            /\ UNCHANGED <<doc, done, held, poisonVars>>
    /\ UNCHANGED <<manifest, staged, points, clientVars, brokerVars, faults>>

(* Without the file: _recover_indexed_document_without_staged_file believes  *)
(* chunks_indexed; where that is 0 it counts the points, by a call of        *)
(* async_count_points that raises TypeError for want of arguments.          *)
FindsNoFile(w) ==
    /\ At(w, "look")
    /\ doc[w] \notin staged
    /\ \/ seen[w] > 0 /\ Goto(w, "recover") /\ UNCHANGED poisonVars
       \/ seen[w] = 0 /\ Goto(w, "nack") /\ Fails(w)
    /\ UNCHANGED <<manifest, staged, points, clientVars, brokerVars, faults>>

Recover(w) ==
    /\ At(w, "recover")
    /\ SetManifest(w, [status |-> "indexed", total |-> seen[w], indexed |-> seen[w]])
    /\ Goto(w, "ack")
    /\ Succeeds(w)
    /\ UNCHANGED <<staged, points, clientVars, brokerVars, faults>>

FindsFile(w) ==
    /\ At(w, "look")
    /\ doc[w] \in staged
    /\ Goto(w, "mark")
    /\ UNCHANGED <<manifest, staged, points, clientVars, brokerVars, poisonVars, faults>>

MarkProcessing(w) ==
    /\ At(w, "mark")
    /\ SetManifest(w, [Old(w) EXCEPT !.status = "processing"])
    /\ Goto(w, "read")
    /\ UNCHANGED <<staged, points, clientVars, brokerVars, poisonVars, faults>>

(* recover and mark_processing raise outside the try block.                 *)
MarkRaises(w) ==
    /\ "database" \in Faults
    /\ At(w, "recover") \/ At(w, "mark")
    /\ Goto(w, "nack")
    /\ Fails(w)
    /\ UNCHANGED <<manifest, staged, points, clientVars, brokerVars, faults>>

\* Mutant: the file is removed as soon as it is read.
Read_Consumes(w) ==
    /\ At(w, "read")
    /\ \/ doc[w] \in staged /\ Goto(w, "clear")
       \/ doc[w] \notin staged /\ Goto(w, "except")
    /\ staged' = staged \ {doc[w]}
    /\ UNCHANGED <<manifest, points, clientVars, brokerVars, poisonVars, faults>>

(* read_bytes raises if another worker has removed the file meanwhile, and   *)
(* the parser may raise.                                                   *)
Read(w) ==
    /\ At(w, "read")
    /\ \/ doc[w] \in staged /\ Goto(w, "clear")
       \/ doc[w] \notin staged /\ Goto(w, "except")
       \/ "reject" \in Faults /\ doc[w] \in staged /\ (Goto(w, "reject") \/ Goto(w, "except"))
    /\ UNCHANGED <<manifest, staged, points, clientVars, brokerVars, poisonVars, faults>>

(* The document has no text, no chunks, or too many for the user's quota.   *)
Reject(w) ==
    /\ At(w, "reject")
    /\ \E total \in {0, Batches} :
          SetManifest(w, [status |-> "failed", total |-> total, indexed |-> 0])
    /\ Goto(w, "clean")
    /\ UNCHANGED <<staged, points, clientVars, brokerVars, poisonVars, faults>>

Cleared(w) == points' = [points EXCEPT ![doc[w]] = {}]

(* _delete_doc_points swallows the error of the deletion.                   *)
Clear(w) ==
    /\ At(w, "clear")
    /\ Cleared(w) \/ ("qdrant" \in Faults /\ UNCHANGED points)
    /\ Goto(w, "start")
    /\ UNCHANGED <<manifest, staged, clientVars, brokerVars, poisonVars, faults>>

Start(w) ==
    /\ At(w, "start")
    /\ SetManifest(w, [Old(w) EXCEPT !.total = Batches, !.indexed = 0])
    /\ pc' = [pc EXCEPT ![w] = "upsert"]
    /\ done' = [done EXCEPT ![w] = 0]
    /\ UNCHANGED <<staged, points, clientVars, brokerVars, poisonVars, faults, doc, seen, held>>

Upserted(w) == points' = [points EXCEPT ![doc[w]] = @ \cup {done[w] + 1}]

Upsert(w) ==
    /\ At(w, "upsert")
    /\ Upserted(w)
    /\ Goto(w, "progress")
    /\ UNCHANGED <<manifest, staged, clientVars, brokerVars, poisonVars, faults>>

\* Mutant: one batch too many.
Progress_OffByOne(w) ==
    /\ At(w, "progress")
    /\ SetManifest(w, [Old(w) EXCEPT !.total = Batches, !.indexed = done[w] + 1])
    /\ done' = [done EXCEPT ![w] = @ + 1]
    /\ pc' = [pc EXCEPT ![w] = IF done[w] = Batches THEN "complete" ELSE "upsert"]
    /\ UNCHANGED <<staged, points, clientVars, brokerVars, poisonVars, faults, doc, seen, held>>

Progress(w) ==
    /\ At(w, "progress")
    /\ SetManifest(w, [Old(w) EXCEPT !.total = Batches, !.indexed = done[w] + 1])
    /\ done' = [done EXCEPT ![w] = @ + 1]
    /\ pc' = [pc EXCEPT ![w] = IF done[w] + 1 = Batches THEN "complete" ELSE "upsert"]
    /\ UNCHANGED <<staged, points, clientVars, brokerVars, poisonVars, faults, doc, seen, held>>

Complete(w) ==
    /\ At(w, "complete")
    /\ SetManifest(w, [status |-> "indexed", total |-> Batches, indexed |-> Batches])
    /\ Goto(w, "clean")
    /\ UNCHANGED <<staged, points, clientVars, brokerVars, poisonVars, faults>>

(* An exception of the try block: the collection cannot be opened, or the    *)
(* embedding or the upsert fails, or the database does.                     *)
Raises(w) ==
    /\ \/ "qdrant" \in Faults /\ At(w, "clear") /\ UNCHANGED points
       \/ "embed" \in Faults /\ At(w, "upsert") /\ (Upserted(w) \/ UNCHANGED points)
       \/ /\ "database" \in Faults
          /\ At(w, "reject") \/ At(w, "start") \/ At(w, "progress") \/ At(w, "complete")
          /\ UNCHANGED points
    /\ Goto(w, "except")
    /\ UNCHANGED <<manifest, staged, clientVars, brokerVars, poisonVars, faults>>

\* Mutant: the document is only marked.
Withdraw_KeepsPoints(w) ==
    /\ At(w, "except")
    /\ Goto(w, "fail")
    /\ UNCHANGED <<manifest, staged, points, clientVars, brokerVars, poisonVars, faults>>

(* except Exception: the points are deleted, if the collection can be        *)
(* opened, and only then is the document marked.                            *)
Withdraw(w) ==
    /\ At(w, "except")
    /\ \/ Cleared(w) /\ Goto(w, "fail")
       \/ "qdrant" \in Faults /\ UNCHANGED points /\ (Goto(w, "fail") \/ Goto(w, "drop"))
    /\ UNCHANGED <<manifest, staged, clientVars, brokerVars, poisonVars, faults>>

MarkFailed(w) ==
    /\ At(w, "fail")
    /\ \/ SetManifest(w, [Old(w) EXCEPT !.status = "failed"])
       \/ "database" \in Faults /\ UNCHANGED manifest
    /\ Goto(w, "drop")
    /\ UNCHANGED <<staged, points, clientVars, brokerVars, poisonVars, faults>>

(* finally: cleanup_staged_file.                                           *)
Cleanup(w) ==
    /\ \/ At(w, "clean") /\ Goto(w, "ack") /\ Succeeds(w)
       \/ At(w, "drop") /\ Goto(w, "nack") /\ Fails(w)
    /\ staged' = staged \ {doc[w]}
    /\ UNCHANGED <<manifest, points, clientVars, brokerVars, faults>>

Idle(w) ==
    /\ pc' = [pc EXCEPT ![w] = "idle"]
    /\ doc' = [doc EXCEPT ![w] = NoDoc]
    /\ seen' = [seen EXCEPT ![w] = 0]
    /\ done' = [done EXCEPT ![w] = 0]
    /\ held' = [held EXCEPT ![w] = FALSE]

(* ack, or nack without requeue: the queue has no dead letter exchange, so   *)
(* the message is gone.  On a lost channel neither is sent.                 *)
Settle(w) ==
    /\ At(w, "ack") \/ At(w, "nack")
    /\ Idle(w)
    /\ UNCHANGED <<manifest, staged, points, clientVars, brokerVars, poisonVars, faults>>
-----------------------------------------------------------------------------
(* The environment.                                                        *)

Fault(kind) == kind \in Faults /\ faults < MaxFaults /\ faults' = faults + 1

(* An unacknowledged message goes back to the queue.                        *)
Redelivered(w) == queue' = IF held[w] THEN [queue EXCEPT ![doc[w]] = @ + 1] ELSE queue

(* The worker process dies and comes up again.                              *)
Crash(w) ==
    /\ Fault("crash")
    /\ ~At(w, "idle")
    /\ Redelivered(w)
    /\ Idle(w)
    /\ failures' = [failures EXCEPT ![w] = [d \in Docs |-> 0]]
    /\ quarantine' = [quarantine EXCEPT ![w] = {}]
    /\ UNCHANGED <<manifest, staged, points, clientVars, sends>>

(* The broker delivers anew while the handler goes on.                      *)
ChannelLost(w) ==
    /\ Fault("channel")
    /\ held[w]
    /\ Redelivered(w)
    /\ held' = [held EXCEPT ![w] = FALSE]
    /\ UNCHANGED <<manifest, staged, points, clientVars, sends, pc, doc, seen, done, poisonVars>>

(* Shutdown cancels the handler at an await.  CancelledError is no           *)
(* Exception: in the try block finally is all that runs, and it deletes the  *)
(* file.                                                                   *)
Cancel(w) ==
    /\ Fault("cancel")
    /\ \/ /\ \/ (At(w, "clear") \/ At(w, "except")) /\ (Cleared(w) \/ UNCHANGED points)
             \/ At(w, "upsert") /\ (Upserted(w) \/ UNCHANGED points)
          /\ staged' = staged \ {doc[w]}
       \/ (At(w, "ack") \/ At(w, "nack")) /\ UNCHANGED <<points, staged>>
    /\ Redelivered(w)
    /\ Idle(w)
    /\ UNCHANGED <<manifest, clientVars, sends, poisonVars>>
-----------------------------------------------------------------------------
Upload(d) ==
    CreateManifest(d) \/ WriteFile(d) \/ WriteFails(d) \/ Enqueue(d) \/ UploadAborts(d)

Delete(d) == DeletePoints(d) \/ DeleteRest(d)

Handle(w) ==
    \/ Load(w) \/ FindsNoFile(w) \/ Recover(w) \/ FindsFile(w) \/ MarkProcessing(w)
    \/ MarkRaises(w) \/ Read(w) \/ Reject(w) \/ Clear(w) \/ Start(w) \/ Upsert(w)
    \/ Progress(w) \/ Complete(w) \/ Raises(w) \/ Withdraw(w) \/ MarkFailed(w)
    \/ Cleanup(w) \/ Settle(w)

Next ==
    \/ \E d \in Docs : Upload(d) \/ Publish(d) \/ Delete(d)
    \/ \E w \in Workers :
          \/ \E d \in Docs : Receive(w, d)
          \/ Handle(w) \/ Crash(w) \/ ChannelLost(w) \/ Cancel(w)

Spec == Init /\ [][Next]_vars

(* The outbox dispatches each row; the queue is first in, first out, so a    *)
(* message is taken that time and again could be; handlers go on.           *)
FairSpec ==
    /\ Spec
    /\ \A d \in Docs : WF_vars(Publish(d))
    /\ \A d \in Docs : SF_vars(\E w \in Workers : Receive(w, d))
    /\ \A w \in Workers : WF_vars(Handle(w))
-----------------------------------------------------------------------------
Handling == {"load", "look", "recover", "mark", "read", "reject", "clear", "start", "upsert",
             "progress", "complete", "except", "fail", "clean", "drop", "ack", "nack"}

Manifest == [status : {"absent", "queued", "processing", "indexed", "failed"},
             total : 0 .. Batches, indexed : 0 .. Batches]

TypeOK ==
    /\ manifest \in [Docs -> Manifest]
    /\ staged \subseteq Docs
    /\ points \in [Docs -> SUBSET All]
    /\ upload \in [Docs -> {"none", "writing", "staged", "queued", "raised"}]
    /\ deletion \in [Docs -> {"none", "points", "answered"}]
    /\ sends \in [Docs -> 0 .. MaxSends]
    /\ queue \in [Docs -> Nat]
    /\ pc \in [Workers -> {"idle"} \cup Handling]
    /\ doc \in [Workers -> Docs \cup {NoDoc}]
    /\ \A w \in Workers : pc[w] \in Handling => doc[w] \in Docs
    /\ seen \in [Workers -> 0 .. Batches]
    /\ done \in [Workers -> 0 .. Batches]
    /\ \A w \in Workers : pc[w] \in {"upsert", "progress"} => done[w] < Batches
    /\ held \in [Workers -> BOOLEAN]
    /\ failures \in [Workers -> [Docs -> Nat]]
    /\ quarantine \in [Workers -> SUBSET Docs]
    /\ faults \in 0 .. MaxFaults

Whole(d) == points[d] = All /\ manifest[d].indexed = Batches /\ manifest[d].total = Batches

\* A document is called indexed only when every batch of it is in the vector
\* store and the counts say so, and stays so as long as it is called indexed.
\* The exception is a failed document whose message comes again: it may be
\* called indexed without a point, and what happens to it then is not judged.
IndexedIsComplete ==
    [][\A d \in Docs : manifest'[d].status = "indexed" =>
          \/ manifest[d].status = "failed"
          \/ manifest[d].status = "indexed" /\ ~Whole(d)
          \/ Whole(d)']_vars

\* As long as channels hold and the outbox publishes once, no two workers ever
\* handle one document, whatever crashes, cancellations and failures there are.
OneHandler == \A v, w \in Workers : doc[v] = doc[w] /\ doc[v] # NoDoc => v = w

\* A document that was accepted and is neither indexed nor failed can still be
\* worked on: its file is there, and a message that names it is on its way.
UndecidedIsRecoverable ==
    \A d \in Docs : upload[d] = "queued" /\ manifest[d].status \in {"queued", "processing"} =>
        /\ d \in staged
        /\ sends[d] < MaxSends \/ queue[d] > 0 \/ \E w \in Workers : doc[w] = d /\ pc[w] # "nack"

\* A failed document has left nothing in the vector store.
FailedLeavesNoPoints == \A d \in Docs : manifest[d].status = "failed" => points[d] = {}

\* Every accepted document is in the end indexed or failed, although workers
\* crash in the middle and embeddings fail.
EventuallyDecided ==
    \A d \in Docs : upload[d] = "queued" ~> manifest[d].status \in {"indexed", "failed"}
=============================================================================
