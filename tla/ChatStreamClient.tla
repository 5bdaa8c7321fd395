-------------------------- MODULE ChatStreamClient --------------------------
(***************************************************************************)
(* The browser's side of a durable chat stream:                            *)
(* frontend/src/app/services/chat-stream.service.ts, which connects, counts *)
(* what it has received and connects again after an error, and             *)
(* frontend/src/app/features/conversations/conversations.ts, which shows   *)
(* what it is given in the message that it appended last.                  *)
(*                                                                         *)
(* JavaScript runs one task at a time: a step is the handling of one click, *)
(* timer, response, event of a response, or end of one.  The server is what *)
(* DurableStream promises: a log for each request, which grows, is closed   *)
(* once, and is sent in order from the Last-Event-ID on.                   *)
(***************************************************************************)
EXTENDS Integers, Sequences

CONSTANTS
    MaxRequests,    \* bound: questions that the user asks
    MaxEvents,      \* bound: events of one log, the terminal one included
    MaxRetries      \* SSE_MAX_RETRIES

ASSUME ClientAssumption ==
    /\ MaxRequests \in Nat \ {0}
    /\ MaxEvents \in Nat \ {0}
    /\ MaxRetries \in Nat \ {0}

Requests == 1 .. MaxRequests
Nothing == 0

\* A call of consumeStream is named by what opens it: <<a, 0>> by the a-th start,
\* <<a, k>> by the timer that handleError sets with attempt k after that start.
Calls == Requests \X (0 .. MaxRetries - 1)
NoCall == [req |-> Nothing, pos |-> 0, at |-> "none"]

VARIABLES
    log,        \* at the server: the size of each log and how it ended
    asked,      \* how many questions have been streamed
    creating,   \* calls of sendMessage that wait for a new conversation
    selected,   \* of the component: whether a conversation is selected
    sending,    \* ... sending()
    message,    \* ... the request whose message is streamingMessageId
    streaming,  \* ... the messages that are shown with streaming: true
    shown,      \* ... the text of each message: the events it was given
    finished,   \* ... the messages that handleStreamDone completed
    conns,      \* of the service: the calls of consumeStream and the timers of retries
    streamSeq,  \* ... the call that was opened last
    held,       \* ... whether abortController is its controller
    last,       \* ... lastRequest
    lastEventId,\* ... of each request
    attempt,
    status,     \* ... status$; connecting, open and streaming are "live"
    crossed     \* whether the user went on while a question was unsettled

viewVars == <<asked, creating, selected, sending, message, streaming, shown, finished>>
serviceVars == <<conns, streamSeq, held, last, lastEventId, attempt, status>>
vars == <<log, viewVars, serviceVars, crossed>>

Ends == {"done", "retryable", "final"}

Init ==
    /\ log = [r \in Requests |-> [size |-> 0, end |-> "absent"]]
    /\ asked = 0 /\ creating = 0 /\ selected = FALSE
    /\ sending = FALSE /\ message = Nothing
    /\ streaming = {} /\ finished = {}
    /\ shown = [r \in Requests |-> <<>>]
    /\ conns = [c \in Calls |-> NoCall]
    /\ streamSeq = <<Nothing, 0>> /\ held = FALSE /\ last = Nothing
    /\ lastEventId = [r \in Requests |-> 0]
    /\ attempt = 0 /\ status = "idle"
    /\ crossed = FALSE
-----------------------------------------------------------------------------
(* The server takes a request that was sent to it, also if the answer never   *)
(* arrives, and writes its log to the end.                                   *)
Write(r) ==
    /\ r <= asked
    /\ log[r].end \in {"absent", "open"}
    /\ \E end \in Ends \cup {"open"} :
          /\ end = "open" => log[r].size + 1 < MaxEvents
          /\ log' = [log EXCEPT ![r] = [size |-> @.size + 1, end |-> end]]
    /\ UNCHANGED <<viewVars, serviceVars, crossed>>
-----------------------------------------------------------------------------
(* stop, open and handleError, on calls of which some may be ending with the  *)
(* step.  A call that is aborted comes to nothing, unless it is reading the   *)
(* body of a refusal.                                                      *)

Aborted(calls) ==
    IF held /\ calls[streamSeq].at # "body" THEN [calls EXCEPT ![streamSeq] = NoCall] ELSE calls

\* Mutant: lastRequest is not set.
Open_Forgets(calls, c, r) ==
    /\ streamSeq' = c
    /\ conns' = [calls EXCEPT ![c] = [req |-> r, pos |-> lastEventId[r], at |-> "fetch"]]
    /\ held' = TRUE
    /\ last' = last
    /\ status' = "live"

Open(calls, c, r) ==
    /\ streamSeq' = c
    /\ conns' = [calls EXCEPT ![c] = [req |-> r, pos |-> lastEventId[r], at |-> "fetch"]]
    /\ held' = TRUE
    /\ last' = r
    /\ status' = "live"

Stop(calls) ==
    /\ conns' = Aborted(calls)
    /\ held' = FALSE
    /\ status' = "closed"

(* The component gives its message up at every error, also at one that the    *)
(* service will retry.                                                     *)
HandleError(calls, retryable) ==
    LET again == retryable /\ attempt + 1 < MaxRetries IN
    /\ attempt' = attempt + 1
    /\ conns' = IF again
                THEN [Aborted(calls) EXCEPT ![<<asked, attempt + 1>>] =
                         [req |-> last, pos |-> 0, at |-> "timer"]]
                ELSE Aborted(calls)
    /\ held' = FALSE
    /\ status' = IF again THEN "retrying" ELSE "error"
    /\ streaming' = streaming \ {message}
    /\ message' = Nothing
    /\ sending' = FALSE
    /\ UNCHANGED <<streamSeq, last, asked, creating, selected, shown, finished>>
-----------------------------------------------------------------------------
(* The user.                                                               *)

\* Mutant: start does not stop the call before it.
StartStreaming_NoStop ==
    /\ asked < MaxRequests
    /\ asked' = asked + 1
    /\ message' = asked + 1
    /\ attempt' = 0
    /\ Open(conns, <<asked + 1, 0>>, asked + 1)

(* startStreaming and start.                                               *)
StartStreaming ==
    /\ asked < MaxRequests
    /\ asked' = asked + 1
    /\ message' = asked + 1
    /\ attempt' = 0
    /\ Open(Aborted(conns), <<asked + 1, 0>>, asked + 1)

(* A retry is pending, or a refusal is being read, or a message is streaming. *)
Unsettled ==
    \/ \E c \in Calls : conns[c].at \in {"timer", "body"}
    \/ message # Nothing

(* sendMessage: in a new conversation it first waits for startChat.           *)
SendMessage ==
    /\ ~sending
    /\ asked + creating < MaxRequests
    /\ sending' = TRUE
    /\ \/ /\ selected
          /\ StartStreaming
          /\ streaming' = streaming \cup {asked'}
          /\ UNCHANGED creating
       \/ /\ ~selected
          /\ creating' = creating + 1
          /\ UNCHANGED <<asked, message, streaming, attempt, conns, streamSeq, held, last, status>>
    /\ crossed' = (crossed \/ Unsettled)
    /\ UNCHANGED <<log, selected, shown, finished, lastEventId>>

(* ensureConversationId: the new conversation is selected, which also resets   *)
(* sending; sendMessage then streams the question in it.                     *)
ConversationCreated ==
    /\ creating > 0
    /\ creating' = creating - 1
    /\ selected' = TRUE /\ sending' = FALSE
    /\ StartStreaming
    /\ streaming' = {asked'}
    /\ crossed' = (crossed \/ Unsettled)
    /\ UNCHANGED <<log, shown, finished, lastEventId>>

\* Mutant: sending is not reset.
CreationFails_StaysSending ==
    /\ creating > 0
    /\ creating' = creating - 1
    /\ UNCHANGED <<log, asked, selected, sending, message, streaming, shown, finished, serviceVars,
                   crossed>>

CreationFails ==
    /\ creating > 0
    /\ creating' = creating - 1
    /\ sending' = FALSE
    /\ UNCHANGED <<log, asked, selected, message, streaming, shown, finished, serviceVars, crossed>>

(* selectConversation, of another conversation or of none.  None is ignored    *)
(* while a message streams.                                                *)
SelectConversation ==
    /\ \/ selected' = TRUE
       \/ selected /\ selected' = FALSE /\ ~(sending /\ message # Nothing)
    /\ Stop(conns)
    /\ sending' = FALSE
    /\ message' = Nothing
    /\ streaming' = {}
    /\ crossed' = (crossed \/ creating > 0 \/ (Unsettled /\ message = Nothing))
    /\ UNCHANGED <<log, asked, creating, shown, finished, streamSeq, last, lastEventId, attempt>>

(* The answer of a loadHistory, of a selection or a refresh, replaces the      *)
(* messages, also one that is streaming; its updates are then dropped.       *)
HistoryArrives ==
    /\ selected
    /\ streaming' = {}
    /\ crossed' = (crossed \/ message # Nothing)
    /\ UNCHANGED <<log, asked, creating, selected, sending, message, shown, finished, serviceVars>>
-----------------------------------------------------------------------------
(* consumeStream.                                                          *)

Without(c) == [conns EXCEPT ![c] = NoCall]

Respond(c) ==
    /\ conns[c].at = "fetch"
    /\ log[conns[c].req].end # "absent"
    /\ conns' = [conns EXCEPT ![c].at = "read"]
    /\ status' = "live"
    /\ UNCHANGED <<log, viewVars, streamSeq, held, last, lastEventId, attempt, crossed>>

(* A refusal: its body is read before it is handled, whoever aborts meanwhile. *)
Refuse(c) ==
    /\ conns[c].at = "fetch"
    /\ conns' = [conns EXCEPT ![c].at = "body"]
    /\ UNCHANGED <<log, viewVars, streamSeq, held, last, lastEventId, attempt, status,
                   crossed>>

HandleRefusal(c) ==
    /\ conns[c].at = "body"
    /\ \E retryable \in BOOLEAN : HandleError(Without(c), retryable)
    /\ UNCHANGED <<log, lastEventId, crossed>>

Number(c) == conns[c].pos + 1

(* An event arrives: its id is the new Last-Event-ID if it is larger.          *)
Arrives(c) ==
    /\ conns[c].at = "read"
    /\ Number(c) <= log[conns[c].req].size
    /\ lastEventId' = [lastEventId EXCEPT ![conns[c].req] = IF @ < Number(c) THEN Number(c) ELSE @]
    /\ UNCHANGED <<log, crossed>>

Terminal(c) == log[conns[c].req].end \in Ends /\ Number(c) = log[conns[c].req].size

(* The call ends after the event if another has been opened since.             *)
ReceivePartial(c) ==
    /\ Arrives(c)
    /\ ~Terminal(c)
    /\ conns' = IF c = streamSeq THEN [conns EXCEPT ![c].pos = @ + 1] ELSE Without(c)
    /\ status' = "live"
    /\ shown' = IF message = Nothing THEN shown
                ELSE [shown EXCEPT ![message] = Append(@, <<conns[c].req, Number(c)>>)]
    /\ UNCHANGED <<asked, creating, selected, sending, message, streaming, finished,
                   streamSeq, held, last, attempt>>

ReceiveDone(c) ==
    /\ Arrives(c)
    /\ Terminal(c) /\ log[conns[c].req].end = "done"
    /\ finished' = finished \cup (streaming \cap {message})
    /\ streaming' = streaming \ {message}
    /\ message' = Nothing
    /\ sending' = FALSE
    /\ Stop(Without(c))
    /\ UNCHANGED <<asked, creating, selected, shown, streamSeq, last, attempt>>

ReceiveError(c) ==
    /\ Arrives(c)
    /\ Terminal(c) /\ log[conns[c].req].end # "done"
    /\ HandleError(Without(c), log[conns[c].req].end = "retryable")

(* The response ends, after its last event or cut short.  That is an error     *)
(* unless the stream is closed, also in a call that is no longer the last.     *)
StreamEnds(c) ==
    /\ conns[c].at = "read"
    /\ \/ status # "closed" /\ HandleError(Without(c), TRUE)
       \/ /\ status = "closed" /\ conns' = Without(c)
          /\ UNCHANGED <<viewVars, streamSeq, held, last, attempt, status>>
    /\ UNCHANGED <<log, lastEventId, crossed>>

(* fetch or read raises.                                                   *)
ConnectionError(c) ==
    /\ conns[c].at \in {"fetch", "read"}
    /\ \/ c = streamSeq /\ HandleError(Without(c), TRUE)
       \/ /\ c # streamSeq /\ conns' = Without(c)
          /\ UNCHANGED <<viewVars, streamSeq, held, last, attempt, status>>
    /\ UNCHANGED <<log, lastEventId, crossed>>

(* The timer of handleError opens the request that was the last one when it    *)
(* was set; neither stop nor start cancels it.                               *)
Retry(c) ==
    /\ conns[c].at = "timer"
    /\ Open(conns, c, conns[c].req)
    /\ UNCHANGED <<log, viewVars, lastEventId, attempt, crossed>>
-----------------------------------------------------------------------------
Receive(c) == ReceivePartial(c) \/ ReceiveDone(c) \/ ReceiveError(c)

AllSent(c) == conns[c].at = "read" /\ log[conns[c].req].end \in Ends
                                   /\ conns[c].pos >= log[conns[c].req].size

Consume(c) ==
    \/ Respond(c) \/ Refuse(c) \/ HandleRefusal(c) \/ Receive(c)
    \/ AllSent(c) /\ StreamEnds(c)

Next ==
    \/ SendMessage \/ ConversationCreated \/ CreationFails
    \/ SelectConversation \/ HistoryArrives
    \/ \E r \in Requests : Write(r)
    \/ \E c \in Calls : Retry(c) \/ Consume(c) \/ StreamEnds(c) \/ ConnectionError(c)

Spec == Init /\ [][Next]_vars

(* The server answers and comes to an outcome, and timers fire.               *)
FairSpec ==
    /\ Spec
    /\ WF_vars(ConversationCreated \/ CreationFails)
    /\ WF_vars(\E r \in Requests : Write(r))
    /\ WF_vars(\E c \in Calls : Retry(c))
    /\ WF_vars(\E c \in Calls : Consume(c))
-----------------------------------------------------------------------------
\* The variables have their types.
TypeOK ==
    /\ log \in [Requests -> [size : 0 .. MaxEvents, end : {"absent", "open"} \cup Ends]]
    /\ asked \in 0 .. MaxRequests /\ creating \in 0 .. MaxRequests
    /\ selected \in BOOLEAN /\ sending \in BOOLEAN
    /\ message \in Requests \cup {Nothing}
    /\ streaming \subseteq Requests /\ finished \subseteq Requests
    /\ shown \in [Requests -> Seq(Requests \X (1 .. MaxEvents))]
    /\ conns \in [Calls -> [req : Requests, pos : 0 .. MaxEvents,
                            at : {"timer", "fetch", "body", "read"}] \cup {NoCall}]
    /\ streamSeq \in Calls \cup {<<Nothing, 0>>}
    /\ held \in BOOLEAN
    /\ last \in Requests \cup {Nothing}
    /\ lastEventId \in [Requests -> 0 .. MaxEvents]
    /\ attempt \in Nat
    /\ status \in {"idle", "live", "retrying", "closed", "error"}
    /\ crossed \in BOOLEAN

\* While each question is settled before the next step of the user: what a message
\* shows is a beginning of the answer to its own question, in order and once, over
\* any number of failed, refused, cut and repeated calls; until the first error of
\* its call it is everything that has been received, after which the message is given
\* up and shows nothing of what the repeated calls bring; a message is called finished
\* when it has the whole answer; and the one that is shown as streaming is the one
\* that is streaming.
AnswerInItsPlace ==
    ~crossed =>
        /\ \A m \in Requests : shown[m] = [i \in 1 .. Len(shown[m]) |-> <<m, i>>]
        /\ message # Nothing => Len(shown[message]) = lastEventId[message]
        /\ \A m \in finished : log[m].end = "done" /\ Len(shown[m]) + 1 = log[m].size
        /\ streaming = {message} \ {Nothing}

Working == streaming # {} \/ status \in {"live", "retrying"}

\* Time and again the composer is free, whatever the user and the network do, and
\* nothing is shown as working unless the user went on before it had settled.
Settles == []<>(~sending /\ (crossed \/ ~Working))
=============================================================================
