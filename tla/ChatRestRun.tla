---------------------------- MODULE ChatRestRun ----------------------------
(***************************************************************************)
(* Idempotent REST chat: services/chat_rest_run_service.py over             *)
(* repositories/chat_rest_repository.py, driven by send_message of          *)
(* api/v1/endpoints/chat/chat_message.py.                                   *)
(*                                                                         *)
(* One key (owner, conversation, Idempotency-Key), so at most one row of    *)
(* chat_rest_runs at a time; once the row is cleaned up the key may be      *)
(* inserted again, under a new id.  Requests run in any process; each HTTP  *)
(* attempt is a request of its own, and its uuid4 producer token is         *)
(* identified with it.  A turn is identified with the request that          *)
(* produced it and with the row it ran under.                               *)
(***************************************************************************)
EXTENDS Naturals

CONSTANTS
    Requests,       \* HTTP requests that carry the key
    Fingerprint,    \* the hash of a request's payload
    NoToken,        \* producer_token, fingerprint or result IS NULL
    MaxRows,        \* bound: how often the key's row is inserted
    Faults          \* what the environment may do

ASSUME RestAssumption ==
    /\ DOMAIN Fingerprint = Requests
    /\ NoToken \notin Requests
    /\ MaxRows \in Nat
    /\ Faults \subseteq {"crash", "database", "exception", "expiry"}

VARIABLES
    row,        \* the row of chat_rest_runs
    pc,         \* where each request's handler is
    held,       \* the id of the row a request read, inserted or claimed
    turns,      \* the assistant turns persisted in the conversation
    answer      \* whose turn a request was answered with

vars == <<row, pc, held, turns, answer>>

Executing == {"execute", "persist", "complete", "failing"}
Over == {"replayed", "answered", "conflict", "busy", "error"}
TerminalStatus == {"completed", "failed"}

Init ==
    /\ row = [id |-> 0, status |-> "absent", token |-> NoToken, fp |-> NoToken,
              result |-> NoToken, expired |-> FALSE]
    /\ pc = [r \in Requests |-> "idle"]
    /\ held = [r \in Requests |-> 0]
    /\ turns = {}
    /\ answer = [r \in Requests |-> NoToken]

Goto(r, here, there) == pc[r] = here /\ pc' = [pc EXCEPT ![r] = there]
-----------------------------------------------------------------------------
(* attach: begin_or_get, then claim_pending.                               *)

\* Mutant: the fingerprint of the row found is not compared.
Verdict_Unchecked(r) ==
    CASE row.status = "completed" -> "replayed"
      [] row.status \in {"running", "failed"} -> "busy"
      [] OTHER -> "claim"

(* What attach makes of the row it read.                                   *)
Verdict(r) ==
    CASE row.fp # Fingerprint[r] -> "conflict"
      [] row.fp = Fingerprint[r] /\ row.status = "completed" -> "replayed"
      [] row.fp = Fingerprint[r] /\ row.status \in {"running", "failed"} -> "busy"
      [] OTHER -> "claim"

Found(r, here) ==
    /\ row.status # "absent"
    /\ Goto(r, here, Verdict(r))
    /\ held' = [held EXCEPT ![r] = row.id]
    /\ answer' = [answer EXCEPT ![r] = IF Verdict(r) = "replayed" THEN row.result ELSE @]
    /\ UNCHANGED <<row, turns>>

BeginFinds(r) == Found(r, "idle")

BeginFindsNone(r) ==
    /\ row.status = "absent"
    /\ Goto(r, "idle", "insert")
    /\ UNCHANGED <<row, held, turns, answer>>

Insert(r) ==
    /\ row.status = "absent"
    /\ row.id < MaxRows
    /\ Goto(r, "insert", "claim")
    /\ row' = [id |-> row.id + 1, status |-> "pending", token |-> NoToken,
               fp |-> Fingerprint[r], result |-> NoToken, expired |-> FALSE]
    /\ held' = [held EXCEPT ![r] = row.id + 1]
    /\ UNCHANGED <<turns, answer>>

(* IntegrityError: rolled back, then read in a transaction of its own.      *)
InsertConflicts(r) ==
    /\ row.status # "absent"
    /\ Goto(r, "insert", "reread")
    /\ UNCHANGED <<row, held, turns, answer>>

RereadFinds(r) == Found(r, "reread")

(* one() raises: the row was cleaned up between the two.                    *)
RereadFindsNone(r) ==
    /\ row.status = "absent"
    /\ Goto(r, "reread", "error")
    /\ UNCHANGED <<row, held, turns, answer>>

\* Mutant: a run whose producer may be dead is claimed again.
Claimable_Running(r) == row.id = held[r] /\ row.status \in {"pending", "running"}

Claimable(r) == row.id = held[r] /\ row.status = "pending"

Claimed(r) == [row EXCEPT !.status = "running", !.token = r]

ClaimPending(r) ==
    /\ Claimable(r)
    /\ Goto(r, "claim", "execute")
    /\ row' = Claimed(r)
    /\ UNCHANGED <<held, turns, answer>>

ClaimTaken(r) ==
    /\ ~Claimable(r)
    /\ Goto(r, "claim", "busy")
    /\ UNCHANGED <<row, held, turns, answer>>

(* The UPDATE or its commit raises; the claim may have been committed.      *)
ClaimRaises(r) ==
    /\ "database" \in Faults
    /\ Goto(r, "claim", "error")
    /\ UNCHANGED row \/ (Claimable(r) /\ row' = Claimed(r))
    /\ UNCHANGED <<held, turns, answer>>
-----------------------------------------------------------------------------
(* send_message with a claim.                                              *)

ExecuteReturns(r) ==
    /\ Goto(r, "execute", "persist")
    /\ UNCHANGED <<row, held, turns, answer>>

(* ConversationNotFoundError, MessageTooLargeError or ChatServiceError.     *)
ExecuteFails(r) ==
    /\ Goto(r, "execute", "failing")
    /\ UNCHANGED <<row, held, turns, answer>>

(* Any other exception up to the finalization: nobody calls fail.           *)
ExecuteRaises(r) ==
    /\ "exception" \in Faults
    /\ Goto(r, "execute", "error")
    /\ UNCHANGED <<row, held, turns, answer>>

Turn(r) == [by |-> r, id |-> held[r]]

PersistTurn(r) ==
    /\ Goto(r, "persist", "complete")
    /\ turns' = turns \cup {Turn(r)}
    /\ UNCHANGED <<row, held, answer>>

(* The turn may have been stored before the exception.                      *)
PersistRaises(r) ==
    /\ Goto(r, "persist", "failing")
    /\ turns' \in {turns, turns \cup {Turn(r)}}
    /\ UNCHANGED <<row, held, answer>>

Owns(r) == row.id = held[r] /\ row.status = "running" /\ row.token = r

\* Mutant: the status is not one of the two that finish accepts.
Finished_RawStatus(r, status) ==
    IF Owns(r) THEN [row EXCEPT !.status = IF status = "failed" THEN "error" ELSE status,
                                !.result = IF status = "completed" THEN r ELSE NoToken]
    ELSE row

Finished(r, status) ==
    IF Owns(r) THEN [row EXCEPT !.status = status,
                                !.result = IF status = "completed" THEN r ELSE NoToken]
    ELSE row

Complete(r) ==
    /\ Goto(r, "complete", IF Owns(r) THEN "answered" ELSE "error")
    /\ row' = Finished(r, "completed")
    /\ answer' = [answer EXCEPT ![r] = IF Owns(r) THEN r ELSE @]
    /\ UNCHANGED <<held, turns>>

Fail(r) ==
    /\ Goto(r, "failing", "error")
    /\ row' = Finished(r, "failed")
    /\ UNCHANGED <<held, turns, answer>>

FinishRaises(r) ==
    /\ "database" \in Faults
    /\ \/ Goto(r, "complete", "error") /\ row' \in {row, Finished(r, "completed")}
       \/ Goto(r, "failing", "error") /\ row' \in {row, Finished(r, "failed")}
    /\ UNCHANGED <<held, turns, answer>>
-----------------------------------------------------------------------------
(* The process of a request dies (requests that share it die in successive  *)
(* steps).                                                                 *)
Crash(r) ==
    /\ "crash" \in Faults
    /\ pc[r] \notin Over \cup {"idle"}
    /\ pc' = [pc EXCEPT ![r] = "error"]
    /\ UNCHANGED <<row, held, turns, answer>>

(* The clock passes expires_at, whatever the status.                        *)
Expire ==
    /\ "expiry" \in Faults
    /\ row.status # "absent" /\ ~row.expired
    /\ row' = [row EXCEPT !.expired = TRUE]
    /\ UNCHANGED <<pc, held, turns, answer>>

\* Mutant: expired rows are deleted whatever their status.
CleanupExpired_AnyStatus ==
    /\ row.status # "absent" /\ row.expired
    /\ row' = [row EXCEPT !.status = "absent"]
    /\ UNCHANGED <<pc, held, turns, answer>>

(* The scheduler's chat_rest_run_cleanup job.                               *)
CleanupExpired ==
    /\ row.status \in TerminalStatus /\ row.expired
    /\ row' = [row EXCEPT !.status = "absent"]
    /\ UNCHANGED <<pc, held, turns, answer>>
-----------------------------------------------------------------------------
Attach(r) ==
    \/ BeginFinds(r) \/ BeginFindsNone(r) \/ Insert(r) \/ InsertConflicts(r)
    \/ RereadFinds(r) \/ RereadFindsNone(r)
    \/ ClaimPending(r) \/ ClaimTaken(r) \/ ClaimRaises(r)

SendMessage(r) ==
    \/ ExecuteReturns(r) \/ ExecuteFails(r) \/ ExecuteRaises(r)
    \/ PersistTurn(r) \/ PersistRaises(r)
    \/ Complete(r) \/ Fail(r) \/ FinishRaises(r)

Next ==
    \/ \E r \in Requests : Attach(r) \/ SendMessage(r) \/ Crash(r)
    \/ Expire \/ CleanupExpired

Spec == Init /\ [][Next]_vars
-----------------------------------------------------------------------------
Statuses == {"absent", "pending", "running"} \cup TerminalStatus

Rows == [id : 0 .. MaxRows, status : Statuses, token : Requests \cup {NoToken},
         fp : {NoToken} \cup {Fingerprint[r] : r \in Requests},
         result : Requests \cup {NoToken}, expired : BOOLEAN]

\* The variables have their types.
TypeOK ==
    /\ row \in Rows
    /\ pc \in [Requests -> {"idle", "insert", "reread", "claim"} \cup Executing \cup Over]
    /\ held \in [Requests -> 0 .. MaxRows]
    /\ turns \subseteq [by : Requests, id : 0 .. MaxRows]
    /\ answer \in [Requests -> Requests \cup {NoToken}]

\* Two requests of one key never run the model and its tools at the same time,
\* not even when the row is cleaned up and inserted again under slow requests.
NoOverlap ==
    \A r, s \in Requests : pc[r] \in Executing /\ pc[s] \in Executing => r = s

\* One run of the key stores at most one assistant turn, however many retries
\* arrive, and whatever crashes or fails in between.
OneTurnPerRun == \A t, u \in turns : t.id = u.id => t = u

\* Who is answered, by execution or by replay, is answered with a turn that is
\* stored in the conversation and was produced from the very same request.
AnswerIsStoredTurn ==
    \A r \in Requests : answer[r] # NoToken =>
        /\ [by |-> answer[r], id |-> held[r]] \in turns
        /\ Fingerprint[answer[r]] = Fingerprint[r]

\* However often it is retried, the key's run leaves one answer in the conversation,
\* and that is what everybody is answered.
AnsweredOnce == OneTurnPerRun /\ AnswerIsStoredTurn

\* A request that executes still holds its claim when it records the outcome:
\* "REST execution lease was lost" is never raised.
ClaimIsKept == \A r \in Requests : pc[r] \in Executing => Owns(r)

\* A claimed run ends only by its own producer's report: when the producer is
\* gone the outcome is uncertain and the key is neither run again nor cleaned up.
UncertainIsNotReplayed ==
    [][row.status = "running" /\ row'.status # "running" =>
          /\ row'.status \in TerminalStatus
          /\ pc[row.token] \in {"complete", "failing"}]_vars
-----------------------------------------------------------------------------
(* What a row says of the run of its key.                                   *)
Stage(status) ==
    CASE status = "absent" -> "free"
      [] status = "pending" -> "open"
      [] status = "running" -> "taken"
      [] status = "completed" -> "done"
      [] OTHER -> status

Reply(r) == IF answer[r] = NoToken THEN {} ELSE {[by |-> answer[r], id |-> held[r]]}

Key == INSTANCE IdempotentKey WITH
    Callers <- Requests,
    Payload <- Fingerprint,
    Nobody <- NoToken,
    run <- Stage(row.status),
    number <- row.id,
    payload <- row.fp,
    taker <- row.token,
    working <- {r \in Requests : pc[r] \in Executing},
    stored <- turns,
    reply <- [r \in Requests |-> Reply(r)]

\* Whatever races, crashes, raises or expires, a row keeps what an idempotency key
\* promises: it is taken up once and ended only by whoever took it up, with at most
\* one stored turn, and who is answered is answered with that turn; a run cut off
\* stays as it is, neither run again nor cleaned up.
ImplementsIdempotentKey == Key!ASpec
=============================================================================
