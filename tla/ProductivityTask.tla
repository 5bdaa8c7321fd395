-------------------------- MODULE ProductivityTask --------------------------
(***************************************************************************)
(* Effects at Google on behalf of one user: the publication and the worker  *)
(* of core/workers/google_productivity_worker.py over                        *)
(* repositories/productivity_task_repository.py, and the connection that it  *)
(* acts under, services/productivity_oauth_*_service.py and                  *)
(* services/google_productivity_service.py.                                  *)
(*                                                                         *)
(* A task is a row, a message and, in the end, an event or a mail that        *)
(* carries its id.  Its message may be handled again after a crash; the       *)
(* handler first asks Google for an effect with that id.  Each access to the *)
(* database, the broker or Google is a step.  What Google does is modelled    *)
(* from how the worker uses it: an effect that was made is found.            *)
(***************************************************************************)
EXTENDS Integers

CONSTANTS
    Tasks,          \* productivity_tasks, each published by a call of its own
    Workers,        \* handlers that the consumers run at the same time
    NoTask,
    MaxCopies,      \* bound: copies of one message in the queue
    MaxFaults,      \* bound: accidents
    Faults          \* what may go wrong

ASSUME ProductivityAssumption ==
    /\ NoTask \notin Tasks
    /\ MaxCopies \in Nat /\ MaxFaults \in Nat
    /\ Faults \subseteq {"crash", "database", "offline", "publish", "google", "channel"}

VARIABLES
    status,     \* productivity_tasks by task id
    call,       \* where the API call of each task is
    queue,      \* the copies of each message that wait
    at,         \* where each handler is
    job,        \* the task it handles
    open,       \* handlers whose delivery can still be acknowledged
    effects,    \* events or mails with the id of each task
    late,       \* tasks for which Google still works on a request nobody waits for
    consent,    \* whether user_consents has the scopes
    token,      \* the row of oauth_tokens: none, fresh or stale
    leaving,    \* where a call to disconnect is
    renewing,   \* whether a call to refresh waits for Google
    doubled,    \* tasks that two deliveries or requests may have worked on at once
    disowned,   \* tasks called failed by an error that came after what was asked for was done
    stranded,   \* tasks whose status an accident may have left behind
    barred,     \* tasks that had not passed the check of consent when it was revoked
    gone,       \* whether the token was deleted with no refresh under way
    faults      \* how many accidents there were

taskVars == <<status, call, queue>>
workVars == <<at, job, open>>
googleVars == <<effects, late>>
userVars == <<consent, token, leaving, renewing, barred, gone>>
ghostVars == <<doubled, disowned, stranded, faults>>
vars == <<taskVars, workVars, googleVars, userVars, ghostVars>>

Several == 2

Init ==
    /\ status = [t \in Tasks |-> "none"]
    /\ call = [t \in Tasks |-> "none"]
    /\ queue = [t \in Tasks |-> 0]
    /\ at = [w \in Workers |-> "idle"]
    /\ job = [w \in Workers |-> NoTask]
    /\ open = {}
    /\ effects = [t \in Tasks |-> 0]
    /\ late = {}
    /\ consent = FALSE /\ token = "none"
    /\ leaving = "none" /\ renewing = FALSE
    /\ doubled = {} /\ disowned = {} /\ stranded = {}
    /\ barred = {} /\ gone = FALSE
    /\ faults = 0

Fault(kind) == kind \in Faults /\ faults < MaxFaults /\ faults' = faults + 1

Set(t, value) == status' = [status EXCEPT ![t] = value]
-----------------------------------------------------------------------------
(* publish_google_calendar_add_event, publish_google_mail_send.  A call may    *)
(* stop anywhere: it has no fairness.                                        *)

CallGoes(t, there) == call' = [call EXCEPT ![t] = there]

Queued(t, n) == queue[t] + n <= MaxCopies /\ queue' = [queue EXCEPT ![t] = @ + n]

(* The endpoint asks for consent ...                                        *)
Ask(t) ==
    /\ call[t] = "none"
    /\ consent
    /\ CallGoes(t, "create")
    /\ UNCHANGED <<status, queue, workVars, googleVars, userVars, ghostVars>>

(* ... create_queued, which raises with or without the row ...               *)
CreateQueued(t) ==
    /\ call[t] = "create"
    /\ \/ Set(t, "queued") /\ CallGoes(t, "publish") /\ UNCHANGED faults
       \/ Fault("database") /\ (Set(t, "queued") \/ UNCHANGED status) /\ CallGoes(t, "fail")
    /\ UNCHANGED <<queue, workVars, googleVars, userVars, doubled, disowned, stranded>>

Publish(t) ==
    /\ call[t] = "publish"
    /\ Queued(t, 1)
    /\ CallGoes(t, "accepted")
    /\ UNCHANGED <<status, workVars, googleVars, userVars, ghostVars>>

(* The channel closes after the message got through: publish repeats it, which  *)
(* may raise in its turn.                                                   *)
PublishTwice(t) ==
    /\ Fault("channel")
    /\ call[t] = "publish"
    /\ Queued(t, 2)
    /\ \/ CallGoes(t, "accepted") /\ UNCHANGED disowned
       \/ CallGoes(t, "fail") /\ disowned' = disowned \cup {t}
    /\ doubled' = doubled \cup {t}
    /\ UNCHANGED <<status, workVars, googleVars, userVars, stranded>>

(* The broker is offline, or publish raises, whether or not it has the        *)
(* message.                                                                *)
PublishFails(t) ==
    /\ call[t] = "publish"
    /\ \/ Fault("offline") /\ UNCHANGED <<queue, disowned>>
       \/ Fault("publish") /\ UNCHANGED <<queue, disowned>>
       \/ Fault("publish") /\ Queued(t, 1) /\ disowned' = disowned \cup {t}
    /\ CallGoes(t, "fail")
    /\ UNCHANGED <<status, workVars, googleVars, userVars, doubled, stranded>>

(* The row, if there is one, has failed, whatever it was; an error of that is  *)
(* passed over.                                                            *)
RefuseCall(t) ==
    /\ call[t] = "fail"
    /\ \/ (IF status[t] = "none" THEN UNCHANGED status ELSE Set(t, "failed")) /\ UNCHANGED faults
       \/ Fault("database") /\ UNCHANGED status
    /\ CallGoes(t, "refused")
    /\ UNCHANGED <<queue, workVars, googleVars, userVars, doubled, disowned, stranded>>

-----------------------------------------------------------------------------
(* _handle_google_productivity_task.                                        *)

Goes(w, there) == at' = [at EXCEPT ![w] = there] /\ UNCHANGED <<job, open>>

Leaves(w) ==
    /\ at' = [at EXCEPT ![w] = "idle"]
    /\ job' = [job EXCEPT ![w] = NoTask]
    /\ open' = open \ {w}

Deliver(w) ==
    /\ at[w] = "idle"
    /\ \E t \in Tasks :
          /\ queue[t] > 0
          /\ queue' = [queue EXCEPT ![t] = @ - 1]
          /\ job' = [job EXCEPT ![w] = t]
    /\ at' = [at EXCEPT ![w] = "start"]
    /\ open' = open \cup {w}
    /\ UNCHANGED <<status, call, googleVars, userVars, ghostVars>>

\* Mutant: a task that has succeeded is started again.
Start_Any(w) ==
    /\ at[w] = "start"
    /\ Goes(w, IF status[job[w]] = "running" THEN "consent" ELSE "begin")
    /\ UNCHANGED <<taskVars, googleVars, userVars, ghostVars>>

(* mark_running reads the row: a task that has succeeded is acknowledged.    *)
Start(w) ==
    /\ at[w] = "start"
    /\ Goes(w, CASE status[job[w]] = "succeeded" -> "settle"
                 [] status[job[w]] = "running" -> "consent"
                 [] OTHER -> "begin")
    /\ UNCHANGED <<taskVars, googleVars, userVars, ghostVars>>

Begin(w) ==
    /\ at[w] = "begin"
    /\ Set(job[w], "running")
    /\ Goes(w, "consent")
    /\ UNCHANGED <<call, queue, googleVars, userVars, ghostVars>>

(* An error before the task counts as started: its message is rejected and     *)
(* its status is left.                                                      *)
StartRaises(w) ==
    /\ Fault("database")
    /\ \/ at[w] \in {"start", "begin"} /\ UNCHANGED status
       \/ at[w] = "begin" /\ Set(job[w], "running")
    /\ Goes(w, "settle")
    /\ stranded' = stranded \cup {job[w]}
    /\ UNCHANGED <<call, queue, googleVars, userVars, doubled, disowned>>

\* Mutant: consent is asked for by the endpoint only.
CheckConsent_Endpoint(w) ==
    /\ at[w] = "consent"
    /\ Goes(w, "token")
    /\ UNCHANGED <<taskVars, googleVars, userVars, ghostVars>>

CheckConsent(w) ==
    /\ at[w] = "consent"
    /\ Goes(w, IF consent THEN "token" ELSE "fail")
    /\ UNCHANGED <<taskVars, googleVars, userVars, ghostVars>>

(* resolve_google_access_token: a stale token is refreshed first.            *)
GetToken(w) ==
    /\ at[w] = "token"
    /\ Goes(w, CASE token = "none" -> "fail" [] token = "stale" -> "refresh" [] OTHER -> "reconcile")
    /\ UNCHANGED <<taskVars, googleVars, userVars, ghostVars>>

(* Google's answer is written whatever has become of the row.                *)
Refresh(w) ==
    /\ at[w] = "refresh"
    /\ token' = "fresh"
    /\ Goes(w, "reconcile")
    /\ UNCHANGED <<taskVars, googleVars, consent, leaving, renewing, barred, gone, ghostVars>>

\* Mutant: Google is not asked for the effect of an earlier delivery.
Reconcile_Blind(w) ==
    /\ at[w] = "reconcile"
    /\ Goes(w, "post")
    /\ UNCHANGED <<taskVars, googleVars, userVars, ghostVars>>

Reconcile(w) ==
    /\ at[w] = "reconcile"
    /\ Goes(w, IF effects[job[w]] > 0 THEN "succeed" ELSE "post")
    /\ UNCHANGED <<taskVars, googleVars, userVars, ghostVars>>

Effect(t) == effects' = [effects EXCEPT ![t] = IF @ < Several THEN @ + 1 ELSE @]

Post(w) ==
    /\ at[w] = "post"
    /\ Effect(job[w])
    /\ Goes(w, "succeed")
    /\ UNCHANGED <<taskVars, late, userVars, ghostVars>>

(* A request that nobody waits for has had its effect, has none, or will have  *)
(* it later.                                                                *)
Abandoned(t) ==
    \/ Effect(t) /\ UNCHANGED <<late, doubled>>
    \/ UNCHANGED <<googleVars, doubled>>
    \/ late' = late \cup {t} /\ doubled' = doubled \cup {t} /\ UNCHANGED effects

LateEffect(t) ==
    /\ t \in late
    /\ late' = late \ {t}
    /\ Effect(t)
    /\ UNCHANGED <<taskVars, workVars, userVars, ghostVars>>

(* A refusal, a timeout or a malformed answer; for the token, consent and the  *)
(* row, also an error of the database.                                        *)
WorkRaises(w) ==
    /\ \/ /\ Fault("google")
          /\ \/ at[w] \in {"refresh", "reconcile"} /\ UNCHANGED <<googleVars, doubled>>
             \/ at[w] = "post" /\ Abandoned(job[w])
          /\ UNCHANGED <<status, disowned>>
       \/ /\ Fault("database")
          /\ \/ at[w] \in {"consent", "token", "succeed"} /\ UNCHANGED <<status, disowned>>
             \/ /\ at[w] = "succeed"
                /\ Set(job[w], "succeeded")
                /\ disowned' = disowned \cup {job[w]}
          /\ UNCHANGED <<googleVars, doubled>>
    /\ Goes(w, "fail")
    /\ UNCHANGED <<call, queue, userVars, stranded>>

Succeed(w) ==
    /\ at[w] = "succeed"
    /\ Set(job[w], "succeeded")
    /\ Goes(w, "settle")
    /\ UNCHANGED <<call, queue, googleVars, userVars, ghostVars>>

\* Mutant: an error ends the handler without a word to the row.
Fail_Silent(w) ==
    /\ at[w] = "fail"
    /\ Goes(w, "settle")
    /\ UNCHANGED <<taskVars, googleVars, userVars, ghostVars>>

(* The error is recorded, or that fails as well.                             *)
Fail(w) ==
    /\ at[w] = "fail"
    /\ \/ Set(job[w], "failed") /\ UNCHANGED <<stranded, faults>>
       \/ Fault("database") /\ UNCHANGED status /\ stranded' = stranded \cup {job[w]}
    /\ Goes(w, "settle")
    /\ UNCHANGED <<call, queue, googleVars, userVars, doubled, disowned>>

\* Mutant: the message is neither acknowledged nor rejected.
Settle_Unsettled(w) ==
    /\ at[w] = "settle"
    /\ at' = [at EXCEPT ![w] = "idle"]
    /\ job' = [job EXCEPT ![w] = NoTask]
    /\ UNCHANGED <<open, taskVars, googleVars, userVars, ghostVars>>

(* The message is acknowledged, or rejected for good.                        *)
Settle(w) ==
    /\ at[w] = "settle"
    /\ Leaves(w)
    /\ UNCHANGED <<taskVars, googleVars, userVars, ghostVars>>

Requeued(w) == IF w \in open THEN Queued(job[w], 1) ELSE UNCHANGED queue

Crash(w) ==
    /\ Fault("crash")
    /\ at[w] # "idle"
    /\ Requeued(w)
    /\ IF at[w] = "post" THEN Abandoned(job[w]) ELSE UNCHANGED <<googleVars, doubled>>
    /\ Leaves(w)
    /\ stranded' = IF w \in open THEN stranded ELSE stranded \cup {job[w]}
    /\ UNCHANGED <<status, call, userVars, disowned>>

(* The broker takes the message back while the handler goes on.               *)
ChannelLost(w) ==
    /\ Fault("channel")
    /\ w \in open
    /\ Requeued(w)
    /\ open' = open \ {w}
    /\ doubled' = doubled \cup {job[w]}
    /\ UNCHANGED <<status, call, at, job, googleVars, userVars, disowned, stranded>>
-----------------------------------------------------------------------------
(* The connection.                                                         *)

(* persist_google_oauth_connection: token and consent in one transaction.    *)
Connect ==
    /\ consent' = TRUE
    /\ token' = "fresh"
    /\ barred' = {}
    /\ gone' = FALSE
    /\ UNCHANGED <<taskVars, workVars, googleVars, leaving, renewing, ghostVars>>

Expire ==
    /\ token = "fresh"
    /\ token' = "stale"
    /\ UNCHANGED <<taskVars, workVars, googleVars, consent, leaving, renewing, barred, gone, ghostVars>>

(* google_oauth_refresh.                                                    *)
AskRefresh ==
    /\ token # "none" /\ ~renewing
    /\ renewing' = TRUE
    /\ UNCHANGED <<taskVars, workVars, googleVars, consent, token, leaving, barred, gone, ghostVars>>

EndRefresh ==
    /\ renewing
    /\ renewing' = FALSE
    /\ token' = "fresh" \/ UNCHANGED token
    /\ UNCHANGED <<taskVars, workVars, googleVars, consent, leaving, barred, gone, ghostVars>>

(* disconnect_google_productivity reads the token, ...                       *)
Disconnect ==
    /\ leaving = "none"
    /\ leaving' = IF token = "none" THEN "forget" ELSE "revoke"
    /\ UNCHANGED <<taskVars, workVars, googleVars, consent, token, renewing, barred, gone, ghostVars>>

Trusted == {"token", "refresh", "reconcile", "post"}

Barred == {t \in Tasks : t \notin late /\ ~\E w \in Workers : job[w] = t /\ at[w] \in Trusted}

(* ... revokes consent, ...                                                 *)
RevokeConsent ==
    /\ leaving \in {"forget", "revoke"}
    /\ leaving' = IF leaving = "revoke" THEN "provider" ELSE "none"
    /\ consent' = FALSE
    /\ barred' = Barred
    /\ UNCHANGED <<taskVars, workVars, googleVars, token, renewing, gone, ghostVars>>

(* ... asks Google to revoke the token, and when that is done ...            *)
RevokeAtGoogle ==
    /\ leaving = "provider"
    /\ leaving' \in {"delete", "none"}
    /\ UNCHANGED <<taskVars, workVars, googleVars, consent, token, renewing, barred, gone, ghostVars>>

(* ... deletes it.                                                         *)
DeleteToken ==
    /\ leaving = "delete"
    /\ leaving' = "none"
    /\ consent' = FALSE /\ token' = "none"
    /\ barred' = Barred
    /\ gone' = (~renewing /\ \A w \in Workers : at[w] # "refresh")
    /\ UNCHANGED <<taskVars, workVars, googleVars, renewing, ghostVars>>

(* An error of the database, or of the process, ends the call.               *)
DisconnectRaises ==
    /\ leaving # "none"
    /\ leaving' = "none"
    /\ UNCHANGED <<taskVars, workVars, googleVars, consent, token, renewing, barred, gone, ghostVars>>
-----------------------------------------------------------------------------
Handle(w) ==
    \/ Start(w) \/ Begin(w) \/ CheckConsent(w) \/ GetToken(w) \/ Refresh(w)
    \/ Reconcile(w) \/ Post(w) \/ Succeed(w) \/ Fail(w) \/ Settle(w)

Call(t) == Ask(t) \/ CreateQueued(t) \/ Publish(t) \/ PublishTwice(t) \/ PublishFails(t) \/ RefuseCall(t)

Connection ==
    \/ Connect \/ Expire \/ AskRefresh \/ EndRefresh
    \/ Disconnect \/ RevokeConsent \/ RevokeAtGoogle \/ DeleteToken \/ DisconnectRaises

Next ==
    \/ \E t \in Tasks : Call(t) \/ LateEffect(t)
    \/ \E w \in Workers :
          Deliver(w) \/ Handle(w) \/ StartRaises(w) \/ WorkRaises(w) \/ Crash(w) \/ ChannelLost(w)
    \/ Connection

Spec == Init /\ [][Next]_vars

(* Consumers take what waits, and handlers go on.                            *)
FairSpec == Spec /\ \A w \in Workers : WF_vars(Deliver(w)) /\ WF_vars(Handle(w))
-----------------------------------------------------------------------------
\* The variables have their types; a message is copied, and a row called, only as often
\* as the bounds allow.
TypeOK ==
    /\ status \in [Tasks -> {"none", "queued", "running", "succeeded", "failed"}]
    /\ call \in [Tasks -> {"none", "create", "publish", "fail", "accepted", "refused"}]
    /\ queue \in [Tasks -> 0 .. MaxCopies]
    /\ at \in [Workers -> {"idle", "start", "begin", "consent", "succeed", "fail", "settle"} \cup Trusted]
    /\ job \in [Workers -> Tasks \cup {NoTask}]
    /\ \A w \in Workers : at[w] = "idle" <=> job[w] = NoTask
    /\ open \subseteq {w \in Workers : at[w] # "idle"}
    /\ effects \in [Tasks -> 0 .. Several]
    /\ late \subseteq Tasks
    /\ consent \in BOOLEAN /\ renewing \in BOOLEAN /\ gone \in BOOLEAN
    /\ token \in {"none", "fresh", "stale"}
    /\ leaving \in {"none", "forget", "revoke", "provider", "delete"}
    /\ doubled \subseteq Tasks /\ disowned \subseteq Tasks
    /\ stranded \subseteq Tasks /\ barred \subseteq Tasks
    /\ faults \in 0 .. MaxFaults

(* A task that is said to have succeeded has had its effect, and no task has   *)
(* two, however often it is handled anew after crashes and errors; only where  *)
(* two deliveries or requests for it overlap may Google be asked too early.    *)
OneEffect ==
    \A t \in Tasks :
        /\ status[t] = "succeeded" => effects[t] > 0
        /\ t \notin doubled => effects[t] <= 1

(* What has succeeded is not taken up or called failed again, unless           *)
(* deliveries overlap or an error came after its message was out or its success *)
(* committed.                                                              *)
SucceededIsFinal ==
    [][\A t \in Tasks \ (doubled \cup disowned) :
          status[t] = "succeeded" => status'[t] = "succeeded"]_vars

(* Disconnecting holds: a task that was not past its check of consent has no    *)
(* effect any more until the user connects again, and a deleted token does not  *)
(* come back, unless a refresh was under way when it was deleted.              *)
DisconnectHolds ==
    [][/\ \A t \in barred \cap barred' : effects'[t] = effects[t]
       /\ gone /\ gone' => token' = "none"]_vars

(* A task that the API has accepted succeeds or fails in the end, unless its     *)
(* status was left behind: by an error of the database before the start was     *)
(* recorded or on top of another, or by the crash of a handler whose message    *)
(* the broker had already taken back.                                          *)
AcceptedSettles ==
    \A t \in Tasks :
        call[t] = "accepted" ~> status[t] \in {"succeeded", "failed"} \/ t \in stranded
-----------------------------------------------------------------------------
(* What a task's caller is told of it, and what Google has done for it.        *)
Void == doubled \cup disowned

Word(t) ==
    CASE t \in Void -> "void"
      [] t \notin Void /\ call[t] = "refused" -> "refused"
      [] t \notin Void /\ call[t] # "refused" /\ status[t] \in {"queued", "running"} -> "open"
      [] OTHER -> status[t]

Done(t) == IF t \in Void THEN 0 ELSE effects[t]

Order == INSTANCE SingleEffect WITH
    Orders <- Tasks,
    word <- [t \in Tasks |-> Word(t)],
    done <- [t \in Tasks |-> Done(t)],
    halted <- barred

(* A task is performed once at most, a success was performed and stands, a call  *)
(* that was refused has no effect then or later, and what a disconnection has     *)
(* barred has none until the user connects again.  Nothing is said of a task once *)
(* deliveries or requests for it overlap or it is called failed too late.        *)
ImplementsSingleEffect == Order!ASpec
=============================================================================
