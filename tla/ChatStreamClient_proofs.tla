----------------------- MODULE ChatStreamClient_proofs -----------------------
(***************************************************************************)
(* For any number of questions, events and retries: the variables keep their *)
(* types, and while each question is settled before the user's next step a   *)
(* message shows a beginning of its own answer, in order: all that has come   *)
(* while it streams, and the whole when it is finished.                      *)
(***************************************************************************)
EXTENDS ChatStreamClient, TLAPS

CallTypes == [req : Requests, pos : 0 .. MaxEvents, at : {"timer", "fetch", "body", "read"}]
                \cup {NoCall}

(* What is known of a question before it is asked, and of the calls for those *)
(* that were: no call, message or retry is for a later one.                  *)

AskedShape ==
    /\ asked + creating <= MaxRequests
    /\ message <= asked /\ last <= asked
    /\ asked > 0 => last > 0
    /\ held => streamSeq \in Calls
    /\ message # Nothing => status # "closed"

CallShape == \A c \in Calls : conns[c].req <= asked

LogShape == \A r \in Requests : log[r].end \in {"absent", "open"} => log[r].size < MaxEvents

FreshShape ==
    /\ \A r \in finished : r <= asked
    /\ \A r \in Requests : r > asked => lastEventId[r] = 0 /\ shown[r] = <<>>

Shape == AskedShape /\ CallShape /\ LogShape /\ FreshShape

Typed == TypeOK /\ Shape

-----------------------------------------------------------------------------
(* Lemmas about the calls.                                                 *)

LEMMA Bounds == MaxRequests \in Nat \ {0} /\ MaxEvents \in Nat \ {0} /\ MaxRetries \in Nat \ {0}
BY ClientAssumption DEF ClientAssumption

LEMMA NoCallIsOfNone == NoCall.req = 0
BY DEF NoCall, Nothing

\* A call is a record of its three fields, and none is where it is "none".
LEMMA CallFields ==
    ASSUME NEW e \in CallTypes
    PROVE  /\ e.req \in Requests \cup {Nothing} /\ e.pos \in 0 .. MaxEvents
           /\ e.at \in {"none", "timer", "fetch", "body", "read"}
           /\ e.at # "none" => e.req \in Requests
           /\ e.at = "none" <=> e = NoCall
BY Bounds DEF CallTypes, NoCall, Nothing

\* Aborting ends at most the call that was opened last.
LEMMA AbortedCalls ==
    ASSUME NEW calls \in [Calls -> CallTypes], held => streamSeq \in Calls
    PROVE  /\ Aborted(calls) \in [Calls -> CallTypes]
           /\ \A c \in Calls : Aborted(calls)[c] = calls[c] \/ Aborted(calls)[c] = NoCall
           /\ \A c \in Calls : held /\ c = streamSeq /\ calls[c].at # "body"
                                 => Aborted(calls)[c] = NoCall
BY DEF Aborted, CallTypes

\* A call that has ended.
LEMMA WithoutCalls ==
    ASSUME TypeOK, NEW c \in Calls
    PROVE  /\ Without(c) \in [Calls -> CallTypes]
           /\ Without(c)[c] = NoCall
           /\ \A d \in Calls : d # c => Without(c)[d] = conns[d]
BY DEF Without, TypeOK, CallTypes

LEMMA AskedOfCall ==
    ASSUME Typed, NEW c \in Calls, conns[c].at # "none"
    PROVE  conns[c].req \in Requests /\ asked \in Requests /\ last \in Requests
<1>1. conns[c] \in CallTypes
  BY DEF Typed, TypeOK, CallTypes
<1>2. conns[c].req \in Requests
  BY <1>1, CallFields
<1>3. asked \in Requests
  BY <1>2, Bounds DEF Typed, Shape, CallShape, TypeOK, Requests
<1>4. QED
  BY <1>2, <1>3, Bounds DEF Typed, Shape, AskedShape, TypeOK, Requests, Nothing

\* The timer of a retry has a slot of its own among the calls.
LEMMA TimerSlot ==
    ASSUME Typed, asked \in Requests, attempt + 1 < MaxRetries
    PROVE  <<asked, attempt + 1>> \in Calls
<1>1. attempt + 1 \in 0 .. MaxRetries - 1
  BY Bounds DEF Typed, TypeOK
<1>2. QED
  BY <1>1 DEF Calls

\* What a start leaves, from calls of the questions that were asked.
LEMMA OpenStep ==
    ASSUME Typed, NEW calls \in [Calls -> CallTypes], NEW n \in Requests,
           \A d \in Calls : calls[d].req <= n,
           NEW c \in Calls, NEW r \in 1 .. n, Open(calls, c, r)
    PROVE  /\ conns' \in [Calls -> CallTypes]
           /\ \A d \in Calls : conns'[d].req <= n
           /\ conns'[c] = [req |-> r, pos |-> lastEventId[r], at |-> "fetch"]
           /\ \A d \in Calls : d # c => conns'[d] = calls[d]
           /\ streamSeq' = c /\ held' = TRUE /\ last' = r /\ status' = "live"
<1>1. r \in Requests
  BY Bounds DEF Requests
<1>2. lastEventId[r] \in 0 .. MaxEvents
  BY <1>1 DEF Typed, TypeOK
<1>3. [req |-> r, pos |-> lastEventId[r], at |-> "fetch"] \in CallTypes
  BY <1>1, <1>2 DEF CallTypes
<1>4. /\ conns' \in [Calls -> CallTypes]
      /\ conns'[c] = [req |-> r, pos |-> lastEventId[r], at |-> "fetch"]
      /\ \A d \in Calls : d # c => conns'[d] = calls[d]
  BY <1>3 DEF Open
<1>5. r <= n
  BY DEF Requests
<1>6. \A d \in Calls : conns'[d].req <= n
  BY <1>4, <1>5
<1>7. QED
  BY <1>4, <1>6 DEF Open

\* What an error leaves, of the calls that do not end with it.
LEMMA ErrorStep ==
    ASSUME Typed, NEW c \in Calls, conns[c].at # "none",
           NEW retryable \in BOOLEAN, HandleError(Without(c), retryable)
    PROVE  /\ conns' \in [Calls -> CallTypes]
           /\ \A d \in Calls : conns'[d].req <= asked
           /\ \A d \in Calls : \/ conns'[d] = NoCall
                               \/ d # c /\ conns'[d] = conns[d]
                               \/ d = <<asked, attempt + 1>> /\ conns'[d].at = "timer"
           /\ attempt' \in Nat /\ status' \in {"retrying", "error"}
<1> DEFINE calls == Aborted(Without(c))
           slot == <<asked, attempt + 1>>
           timer == [req |-> last, pos |-> 0, at |-> "timer"]
<1>1. /\ calls \in [Calls -> CallTypes]
      /\ \A d \in Calls : calls[d] = NoCall \/ (d # c /\ calls[d] = conns[d])
  <2>1. /\ Without(c) \in [Calls -> CallTypes]
        /\ \A d \in Calls : Without(c)[d] = NoCall \/ (d # c /\ Without(c)[d] = conns[d])
    BY WithoutCalls DEF Typed
  <2>2. QED
    BY <2>1, AbortedCalls DEF Typed, Shape, AskedShape
<1>2. asked \in Requests /\ last \in Requests /\ last <= asked
  BY AskedOfCall DEF Typed, Shape, AskedShape
<1>3. timer \in CallTypes
  BY <1>2, Bounds DEF CallTypes
<1>4. \A d \in Calls : calls[d].req <= asked
  BY <1>1, <1>2 DEF Typed, Shape, CallShape, NoCall, Nothing, Requests
<1>5. attempt' \in Nat /\ status' \in {"retrying", "error"}
  BY DEF HandleError, Typed, TypeOK
<1>6. CASE retryable /\ attempt + 1 < MaxRetries
  <2>1. slot \in Calls
    BY <1>2, <1>6, TimerSlot
  <2>2. conns' = [calls EXCEPT ![slot] = timer]
    BY <1>6 DEF HandleError
  <2>3. QED
    BY <1>1, <1>2, <1>3, <1>4, <1>5, <2>1, <2>2
<1>7. CASE ~(retryable /\ attempt + 1 < MaxRetries)
  <2>1. conns' = calls
    BY <1>7 DEF HandleError
  <2>2. QED
    BY <1>1, <1>4, <1>5, <2>1
<1>8. QED
  BY <1>6, <1>7

-----------------------------------------------------------------------------
(* The steps keep the types.                                               *)

LEMMA WriteTyped ==
    ASSUME Typed, NEW r \in Requests, Write(r)
    PROVE  Typed'
<1>1. PICK end \in Ends \cup {"open"} :
          /\ end = "open" => log[r].size + 1 < MaxEvents
          /\ log' = [log EXCEPT ![r] = [size |-> @.size + 1, end |-> end]]
  BY DEF Write
<1>2. log[r].size \in 0 .. MaxEvents /\ log[r].size < MaxEvents
  BY DEF Write, Typed, TypeOK, Shape, LogShape
<1>3. log[r].size + 1 \in 0 .. MaxEvents
  BY <1>2, Bounds
<1>4. log' \in [Requests -> [size : 0 .. MaxEvents, end : {"absent", "open"} \cup Ends]]
  BY <1>1, <1>3 DEF Typed, TypeOK
<1>5. \A q \in Requests : log'[q].end \in {"absent", "open"} => log'[q].size < MaxEvents
  BY <1>1 DEF Typed, TypeOK, Shape, LogShape, Ends
<1>6. QED
  BY <1>4, <1>5 DEF Write, Typed, TypeOK, Shape, AskedShape, CallShape, LogShape,
         FreshShape, viewVars, serviceVars

\* Calls that end or go on are of questions that were asked.
LEMMA CallsOfAsked ==
    ASSUME Typed, asked' = asked,
           \A d \in Calls : conns'[d].req = conns[d].req \/ conns'[d] = NoCall
    PROVE  CallShape'
<1>1. 0 <= asked
  BY DEF Typed, TypeOK
<1>2. QED
  BY <1>1, NoCallIsOfNone DEF Typed, Shape, CallShape

\* startStreaming, whatever sendMessage does besides.
LEMMA StartStep ==
    ASSUME Typed, StartStreaming
    PROVE  /\ asked + 1 \in Requests /\ asked' = asked + 1 /\ message' = asked + 1
           /\ attempt' = 0 /\ last' = asked + 1 /\ held' = TRUE /\ status' = "live"
           /\ streamSeq' = <<asked + 1, 0>> /\ streamSeq' \in Calls
           /\ conns' \in [Calls -> CallTypes]
           /\ \A d \in Calls : conns'[d].req <= asked + 1
           /\ conns'[<<asked + 1, 0>>] = [req |-> asked + 1, pos |-> 0, at |-> "fetch"]
           /\ \A d \in Calls : d # <<asked + 1, 0>> => conns'[d] = Aborted(conns)[d]
<1>1. asked + 1 \in Requests /\ <<asked + 1, 0>> \in Calls
  BY Bounds DEF StartStreaming, Typed, TypeOK, Requests, Calls
<1>2. /\ Aborted(conns) \in [Calls -> CallTypes]
      /\ \A d \in Calls : Aborted(conns)[d] = conns[d] \/ Aborted(conns)[d] = NoCall
  BY AbortedCalls DEF Typed, TypeOK, Shape, AskedShape, CallTypes
<1>3. \A d \in Calls : conns[d].req \in Nat
  BY CallFields, Bounds DEF Typed, TypeOK, CallTypes, Requests, Nothing
<1>4. \A d \in Calls : Aborted(conns)[d].req <= asked + 1
  <2>1. asked \in Nat /\ \A d \in Calls : conns[d].req <= asked
    BY Bounds DEF Typed, TypeOK, Shape, CallShape
  <2>2. QED
    BY <1>2, <1>3, <2>1, NoCallIsOfNone
<1>5. asked + 1 \in 1 .. asked + 1
  BY <1>1 DEF Requests
<1>6. Open(Aborted(conns), <<asked + 1, 0>>, asked + 1)
  BY DEF StartStreaming
<1>7. lastEventId[asked + 1] = 0
  BY <1>1, Bounds DEF Typed, TypeOK, Shape, FreshShape
<1>8. QED
  BY <1>1, <1>2, <1>4, <1>5, <1>6, <1>7, OpenStep DEF StartStreaming

LEMMA StartTyped ==
    ASSUME Typed, StartStreaming, UNCHANGED <<log, shown, finished, lastEventId>>,
           creating' \in 0 .. MaxRequests, asked + 1 + creating' <= MaxRequests,
           selected' \in BOOLEAN, sending' \in BOOLEAN, crossed' \in BOOLEAN,
           streaming' \subseteq Requests
    PROVE  Typed'
<1>1. TypeOK'
  <2>1. /\ asked' \in 0 .. MaxRequests /\ message' \in Requests /\ last' \in Requests
        /\ held' \in BOOLEAN /\ attempt' \in Nat
        /\ streamSeq' \in Calls \cup {<<Nothing, 0>>}
        /\ status' \in {"idle", "live", "retrying", "closed", "error"}
        /\ conns' \in [Calls -> CallTypes]
    BY StartStep, Bounds DEF Requests
  <2>2. QED
    BY <2>1 DEF Typed, TypeOK, CallTypes
<1>2. Shape'
  <2>1. AskedShape'
    BY StartStep, Bounds DEF AskedShape, Requests
  <2>2. CallShape'
    BY StartStep DEF CallShape
  <2>3. LogShape'
    BY DEF Typed, Shape, LogShape
  <2>4. FreshShape'
    <3>1. asked \in Nat /\ asked' = asked + 1 /\ \A r \in Requests : r \in Nat
      BY Bounds DEF StartStreaming, Typed, TypeOK, Requests
    <3> finished \subseteq Requests
      BY DEF Typed, TypeOK
    <3>2. \A r \in Requests : r > asked + 1 => r > asked
      BY <3>1, Bounds DEF Requests
    <3>3. QED
      BY <3>1, <3>2 DEF Typed, Shape, FreshShape
  <2>5. QED
    BY <2>1, <2>2, <2>3, <2>4 DEF Shape
<1>3. QED
  BY <1>1, <1>2 DEF Typed

LEMMA SendTyped ==
    ASSUME Typed, SendMessage
    PROVE  Typed'
<1>1. crossed' \in BOOLEAN
  BY DEF SendMessage, Typed, TypeOK, Unsettled
<1>2. asked \in Nat /\ creating \in Nat /\ asked + creating + 1 <= MaxRequests
  BY Bounds DEF SendMessage, Typed, TypeOK
<1>3. CASE selected
  <2>1. streaming' \subseteq Requests
    <3>1. StartStreaming /\ streaming' = streaming \cup {asked'}
      BY <1>3 DEF SendMessage
    <3>2. QED
      BY <3>1, StartStep DEF Typed, TypeOK
  <2>2. asked + 1 + creating <= MaxRequests
    BY <1>2
  <2>3. QED
    BY <1>1, <1>3, <2>1, <2>2, StartTyped DEF SendMessage, Typed, TypeOK
<1>4. CASE ~selected
  <2>1. creating + 1 \in 0 .. MaxRequests
    BY <1>2, Bounds
  <2>2. asked + (creating + 1) <= MaxRequests
    BY <1>2
  <2>3. TypeOK'
    BY <1>1, <1>4, <2>1 DEF SendMessage, Typed, TypeOK
  <2>4. Shape'
    BY <1>4, <2>2 DEF SendMessage, Typed, Shape, AskedShape, CallShape, LogShape, FreshShape
  <2>5. QED
    BY <2>3, <2>4 DEF Typed
<1>5. QED
  BY <1>3, <1>4

LEMMA CreationTyped ==
    ASSUME Typed, ConversationCreated \/ CreationFails
    PROVE  Typed'
<1>1. creating - 1 \in 0 .. MaxRequests /\ asked + 1 + (creating - 1) <= MaxRequests
      /\ asked + (creating - 1) <= MaxRequests
  BY Bounds DEF ConversationCreated, CreationFails, Typed, TypeOK, Shape, AskedShape
<1>2. CASE ConversationCreated
  <2>1. streaming' \subseteq Requests
    BY <1>2, StartStep DEF ConversationCreated
  <2>2. crossed' \in BOOLEAN
    BY <1>2 DEF ConversationCreated, Typed, TypeOK, Unsettled
  <2>3. QED
    BY <1>1, <1>2, <2>1, <2>2, StartTyped DEF ConversationCreated
<1>3. CASE CreationFails
  <2>1. TypeOK'
    BY <1>1, <1>3 DEF CreationFails, Typed, TypeOK, serviceVars
  <2>2. Shape'
    BY <1>1, <1>3 DEF CreationFails, Typed, Shape, AskedShape, CallShape, LogShape, FreshShape,
         serviceVars
  <2>3. QED
    BY <2>1, <2>2 DEF Typed
<1>4. QED
  BY <1>2, <1>3

LEMMA SelectTyped ==
    ASSUME Typed, SelectConversation
    PROVE  Typed'
<1>1. conns' = Aborted(conns) /\ held' = FALSE /\ status' = "closed" /\ message' = Nothing
  BY DEF SelectConversation, Stop
<1>2. /\ conns' \in [Calls -> CallTypes]
      /\ \A d \in Calls : conns'[d] = conns[d] \/ conns'[d] = NoCall
  BY <1>1, AbortedCalls DEF Typed, TypeOK, Shape, AskedShape, CallTypes
<1>3. crossed' \in BOOLEAN /\ selected' \in BOOLEAN
  BY DEF SelectConversation, Typed, TypeOK, Unsettled
<1>4. TypeOK'
  BY <1>1, <1>2, <1>3 DEF SelectConversation, Typed, TypeOK, CallTypes
<1>5. Shape'
  <2>1. AskedShape'
    BY <1>1, Bounds DEF SelectConversation, Typed, TypeOK, Shape, AskedShape, Nothing
  <2>2. CallShape'
    BY <1>2, CallsOfAsked DEF SelectConversation
  <2>3. LogShape' /\ FreshShape'
    BY DEF SelectConversation, Typed, Shape, LogShape, FreshShape
  <2>4. QED
    BY <2>1, <2>2, <2>3 DEF Shape
<1>6. QED
  BY <1>4, <1>5 DEF Typed

LEMMA HistoryTyped ==
    ASSUME Typed, HistoryArrives
    PROVE  Typed'
<1>1. TypeOK'
  BY DEF HistoryArrives, Typed, TypeOK, serviceVars
<1>2. Shape'
  BY DEF HistoryArrives, Typed, Shape, AskedShape, CallShape, LogShape, FreshShape,
         serviceVars
<1>3. QED
  BY <1>1, <1>2 DEF Typed

LEMMA RetryTyped ==
    ASSUME Typed, NEW c \in Calls, Retry(c)
    PROVE  Typed'
<1>1. conns \in [Calls -> CallTypes]
  BY DEF Typed, TypeOK, CallTypes
<1>2. conns[c].req \in Requests /\ asked \in Requests
  BY AskedOfCall DEF Retry
<1>3. conns[c].req \in 1 .. asked /\ \A d \in Calls : conns[d].req <= asked
  BY <1>2, Bounds DEF Typed, Shape, CallShape, Requests
<1>4. /\ conns' \in [Calls -> CallTypes] /\ \A d \in Calls : conns'[d].req <= asked
      /\ streamSeq' = c /\ held' = TRUE /\ last' = conns[c].req /\ status' = "live"
  BY <1>1, <1>2, <1>3, OpenStep DEF Retry
<1>5. TypeOK'
  BY <1>2, <1>4 DEF Retry, Typed, TypeOK, viewVars, CallTypes
<1>6. Shape'
  BY <1>2, <1>3, <1>4 DEF Retry, Typed, Shape, AskedShape, CallShape, LogShape, FreshShape,
         viewVars, Requests
<1>7. QED
  BY <1>5, <1>6 DEF Typed

\* An error, together with an event that it may have come with.
LEMMA ErrorTyped ==
    ASSUME Typed, NEW c \in Calls, conns[c].at # "none",
           NEW retryable \in BOOLEAN, HandleError(Without(c), retryable),
           UNCHANGED <<log, crossed>>,
           lastEventId' \in [Requests -> 0 .. MaxEvents],
           \A r \in Requests : r > asked => lastEventId'[r] = 0
    PROVE  Typed'
<1>1. TypeOK'
  BY ErrorStep DEF HandleError, Typed, TypeOK, CallTypes
<1>2. Shape'
  <2>1. AskedShape'
    BY ErrorStep, Bounds DEF HandleError, Typed, TypeOK, Shape, AskedShape, Nothing
  <2>2. CallShape'
    BY ErrorStep DEF HandleError, CallShape
  <2>3. LogShape' /\ FreshShape'
    BY DEF HandleError, Typed, Shape, LogShape, FreshShape
  <2>4. QED
    BY <2>1, <2>2, <2>3 DEF Shape
<1>3. QED
  BY <1>1, <1>2 DEF Typed

\* An event that arrives is of a question that was asked.
LEMMA ArrivesTyped ==
    ASSUME Typed, NEW c \in Calls, Arrives(c)
    PROVE  /\ lastEventId' \in [Requests -> 0 .. MaxEvents]
           /\ \A r \in Requests : r > asked => lastEventId'[r] = 0
           /\ conns[c] \in CallTypes /\ conns[c].req \in Requests
           /\ Number(c) \in 1 .. MaxEvents
<1>1. conns[c] \in CallTypes
  BY DEF Typed, TypeOK, CallTypes
<1>2. conns[c].req \in Requests /\ conns[c].pos \in Nat /\ conns[c].req <= asked
  BY <1>1, CallFields, AskedOfCall DEF Arrives, Typed, Shape, CallShape
<1>3. log[conns[c].req].size \in 0 .. MaxEvents
  BY <1>2 DEF Typed, TypeOK
<1>4. Number(c) \in 1 .. MaxEvents
  BY <1>2, <1>3, Bounds DEF Arrives, Number
<1>5. /\ lastEventId' \in [Requests -> 0 .. MaxEvents]
      /\ \A r \in Requests : r # conns[c].req => lastEventId'[r] = lastEventId[r]
  BY <1>2, <1>4 DEF Arrives, Typed, TypeOK
<1>6. \A r \in Requests : r > asked => r # conns[c].req
  BY <1>2, Bounds DEF Typed, TypeOK, Requests
<1>7. QED
  BY <1>1, <1>2, <1>4, <1>5, <1>6 DEF Typed, Shape, FreshShape

LEMMA PartialTyped ==
    ASSUME Typed, NEW c \in Calls, ReceivePartial(c)
    PROVE  Typed'
<1>1. Arrives(c)
  BY DEF ReceivePartial
<1>2. conns'[c] \in CallTypes /\ conns' \in [Calls -> CallTypes]
      /\ \A d \in Calls : conns'[d].req = conns[d].req \/ conns'[d] = NoCall
  <2>1. CASE c = streamSeq
    <3>1. conns' = [conns EXCEPT ![c] = [conns[c] EXCEPT !.pos = Number(c)]]
      BY <2>1 DEF ReceivePartial, Number, Typed, TypeOK
    <3>2. conns[c] # NoCall /\ Number(c) \in 0 .. MaxEvents
      <4>1. conns[c].at = "read" /\ NoCall.at = "none" /\ Number(c) \in 1 .. MaxEvents
        BY <1>1, ArrivesTyped DEF Arrives, NoCall
      <4>2. QED
        BY <4>1, Bounds
    <3>3. [conns[c] EXCEPT !.pos = Number(c)] \in CallTypes
      BY <3>2, <1>1, ArrivesTyped DEF CallTypes
    <3>4. QED
      BY <3>1, <3>3 DEF Typed, TypeOK, CallTypes
  <2>2. CASE c # streamSeq
    BY <2>2, WithoutCalls DEF ReceivePartial, Typed, NoCall
  <2>3. QED
    BY <2>1, <2>2
<1>3. shown' \in [Requests -> Seq(Requests \X (1 .. MaxEvents))]
      /\ \A r \in Requests : r > asked => shown'[r] = shown[r]
  <2>1. <<conns[c].req, Number(c)>> \in Requests \X (1 .. MaxEvents)
    BY <1>1, ArrivesTyped
  <2>2. CASE message = Nothing
    BY <2>2 DEF ReceivePartial, Typed, TypeOK
  <2>3. CASE message # Nothing
    <3>1. message \in Requests
      BY <2>3 DEF Typed, TypeOK
    <3>2. Append(shown[message], <<conns[c].req, Number(c)>>) \in Seq(Requests \X (1 .. MaxEvents))
      BY <2>1, <3>1 DEF Typed, TypeOK
    <3>3. shown' = [shown EXCEPT ![message] = Append(@, <<conns[c].req, Number(c)>>)]
      BY <2>3 DEF ReceivePartial
    <3>4. \A r \in Requests : r > asked => r # message
      BY <3>1, Bounds DEF Typed, TypeOK, Shape, AskedShape, Requests
    <3>5. QED
      BY <3>1, <3>2, <3>3, <3>4 DEF Typed, TypeOK
  <2>4. QED
    BY <2>2, <2>3
<1>4. TypeOK'
  BY <1>1, <1>2, <1>3, ArrivesTyped DEF ReceivePartial, Arrives, Typed, TypeOK, CallTypes
<1>5. Shape'
  <2>1. AskedShape'
    BY DEF ReceivePartial, Typed, Shape, AskedShape
  <2>2. CallShape'
    BY <1>2, CallsOfAsked DEF ReceivePartial
  <2>3. LogShape'
    BY <1>1 DEF Arrives, Typed, Shape, LogShape
  <2>4. FreshShape'
    BY <1>1, <1>3, ArrivesTyped DEF ReceivePartial, Typed, Shape, FreshShape
  <2>5. QED
    BY <2>1, <2>2, <2>3, <2>4 DEF Shape
<1>6. QED
  BY <1>4, <1>5 DEF Typed

LEMMA DoneTyped ==
    ASSUME Typed, NEW c \in Calls, ReceiveDone(c)
    PROVE  Typed'
<1>1. Arrives(c)
  BY DEF ReceiveDone
<1>2. conns' = Aborted(Without(c)) /\ held' = FALSE /\ status' = "closed"
  BY DEF ReceiveDone, Stop
<1>3. /\ conns' \in [Calls -> CallTypes]
      /\ \A d \in Calls : conns'[d] = conns[d] \/ conns'[d] = NoCall
  BY <1>2, AbortedCalls, WithoutCalls DEF Typed, Shape, AskedShape
<1>4. finished' \subseteq Requests /\ \A r \in finished' : r <= asked
  BY DEF ReceiveDone, Typed, TypeOK, Shape, AskedShape, FreshShape
<1>5. TypeOK'
  BY <1>1, <1>2, <1>3, <1>4, ArrivesTyped DEF ReceiveDone, Arrives, Typed, TypeOK, CallTypes
<1>6. Shape'
  <2>1. AskedShape'
    BY <1>2, Bounds DEF ReceiveDone, Typed, TypeOK, Shape, AskedShape, Nothing
  <2>2. CallShape'
    BY <1>3, CallsOfAsked DEF ReceiveDone
  <2>3. LogShape'
    BY <1>1 DEF Arrives, Typed, Shape, LogShape
  <2>4. FreshShape'
    BY <1>1, <1>4, ArrivesTyped DEF ReceiveDone, Typed, Shape, FreshShape
  <2>5. QED
    BY <2>1, <2>2, <2>3, <2>4 DEF Shape
<1>7. QED
  BY <1>5, <1>6 DEF Typed

\* A call that ends without consequence, or goes on to another point of itself.
LEMMA CallTyped ==
    ASSUME Typed, NEW c \in Calls, conns' \in [Calls -> CallTypes],
           \A d \in Calls : conns'[d].req = conns[d].req \/ conns'[d] = NoCall,
           status' \in {status, "live"},
           UNCHANGED <<log, viewVars, streamSeq, held, last, lastEventId, attempt, crossed>>
    PROVE  Typed'
<1>1. TypeOK'
  BY DEF Typed, TypeOK, CallTypes, viewVars
<1>2. Shape'
  BY CallsOfAsked DEF Typed, Shape, AskedShape, LogShape, FreshShape, viewVars
<1>3. QED
  BY <1>1, <1>2 DEF Typed

LEMMA AtTyped ==
    ASSUME Typed, NEW c \in Calls, conns[c].at # "none",
           NEW there \in {"body", "read"}, conns' = [conns EXCEPT ![c].at = there]
    PROVE  /\ conns' \in [Calls -> CallTypes]
           /\ \A d \in Calls : conns'[d].req = conns[d].req
<1>1. conns[c] \in CallTypes /\ conns[c] # NoCall
  BY DEF Typed, TypeOK, CallTypes, NoCall
<1>2. [conns[c] EXCEPT !.at = there] \in CallTypes
  BY <1>1 DEF CallTypes
<1>3. conns' = [conns EXCEPT ![c] = [conns[c] EXCEPT !.at = there]]
  OBVIOUS
<1>4. [conns[c] EXCEPT !.at = there].req = conns[c].req
  BY <1>1 DEF CallTypes
<1>5. QED
  BY <1>2, <1>3, <1>4 DEF Typed, TypeOK, CallTypes

LEMMA TypedStep ==
    ASSUME Typed, [Next]_vars
    PROVE  Typed'
<1>1. CASE SendMessage \/ ConversationCreated \/ CreationFails \/ SelectConversation \/ HistoryArrives
  BY <1>1, SendTyped, CreationTyped, SelectTyped, HistoryTyped
<1>2. ASSUME NEW r \in Requests, Write(r) PROVE Typed'
  BY <1>2, WriteTyped
<1>3. ASSUME NEW c \in Calls, Retry(c) PROVE Typed'
  BY <1>3, RetryTyped
<1>4. ASSUME NEW c \in Calls, Respond(c) \/ Refuse(c) PROVE Typed'
  <2>1. conns[c].at # "none" /\ status' \in {status, "live"}
        /\ \E there \in {"body", "read"} : conns' = [conns EXCEPT ![c].at = there]
        /\ UNCHANGED <<log, viewVars, streamSeq, held, last, lastEventId, attempt, crossed>>
    BY <1>4 DEF Respond, Refuse
  <2>2. QED
    BY <2>1, AtTyped, CallTyped
<1>5. \A r \in Requests : r > asked => lastEventId[r] = 0
  BY DEF Typed, Shape, FreshShape
<1>6. lastEventId \in [Requests -> 0 .. MaxEvents]
  BY DEF Typed, TypeOK
<1>7. ASSUME NEW c \in Calls, HandleRefusal(c) PROVE Typed'
  BY <1>5, <1>6, <1>7, ErrorTyped DEF HandleRefusal
<1>8. ASSUME NEW c \in Calls, Receive(c) PROVE Typed'
  <2>1. CASE ReceiveError(c)
    <3>1. conns[c].at # "none" /\ UNCHANGED <<log, crossed>> /\ Arrives(c)
          /\ HandleError(Without(c), log[conns[c].req].end = "retryable")
      BY <2>1 DEF ReceiveError, Arrives
    <3>2. (log[conns[c].req].end = "retryable") \in BOOLEAN
      OBVIOUS
    <3>3. QED
      BY <3>1, <3>2, ArrivesTyped, ErrorTyped
  <2>2. QED
    BY <1>8, <2>1, PartialTyped, DoneTyped DEF Receive
<1>9. ASSUME NEW c \in Calls, StreamEnds(c) \/ ConnectionError(c) PROVE Typed'
  <2>1. conns[c].at # "none" /\ UNCHANGED <<log, lastEventId, crossed>>
    BY <1>9 DEF StreamEnds, ConnectionError
  <2>2. CASE HandleError(Without(c), TRUE)
    BY <1>5, <1>6, <2>1, <2>2, ErrorTyped
  <2>3. CASE conns' = Without(c) /\ UNCHANGED <<viewVars, streamSeq, held, last, attempt, status>>
    <3>1. conns' \in [Calls -> CallTypes]
          /\ \A d \in Calls : conns'[d].req = conns[d].req \/ conns'[d] = NoCall
      BY <2>3, WithoutCalls DEF Typed
    <3>2. QED
      BY <2>1, <2>3, <3>1, CallTyped
  <2>4. QED
    BY <1>9, <2>2, <2>3 DEF StreamEnds, ConnectionError
<1>10. CASE UNCHANGED vars
  BY <1>10 DEF vars, viewVars, serviceVars, Typed, TypeOK, Shape, AskedShape, CallShape, LogShape,
         FreshShape
<1>11. QED
  BY <1>1, <1>2, <1>3, <1>4, <1>7, <1>8, <1>9, <1>10 DEF Next, Consume

LEMMA InitTyped == Init => Typed
<1> SUFFICES ASSUME Init PROVE Typed
  OBVIOUS
<1>1. TypeOK
  <2>1. [size |-> 0, end |-> "absent"] \in [size : 0 .. MaxEvents, end : {"absent", "open"} \cup Ends]
    BY Bounds
  <2>2. \A r \in Requests : <<>> \in Seq(Requests \X (1 .. MaxEvents))
    OBVIOUS
  <2>3. 0 \in 0 .. MaxRequests /\ 0 \in 0 .. MaxEvents
    BY Bounds
  <2>4. QED
    BY <2>1, <2>2, <2>3 DEF Init, TypeOK
<1>2. AskedShape
  BY Bounds DEF Init, AskedShape, Nothing
<1>3. CallShape
  BY NoCallIsOfNone DEF Init, CallShape
<1>4. LogShape
  BY Bounds DEF Init, LogShape
<1>5. FreshShape
  BY DEF Init, FreshShape
<1>6. QED
  BY <1>1, <1>2, <1>3, <1>4, <1>5 DEF Typed, Shape

\* The variables of the service and of the component have their types, for any number
\* of questions and retries.
THEOREM TypeCorrect == Spec => []TypeOK
<1>1. Init => Typed
  BY InitTyped
<1>2. Typed /\ [Next]_vars => Typed'
  BY TypedStep
<1>3. Typed => TypeOK
  BY DEF Typed
<1>4. QED
  BY <1>1, <1>2, <1>3, PTL DEF Spec

-----------------------------------------------------------------------------
(* Why an answer is shown in its place.  While the user goes on only from what *)
(* is settled, there is one call or timer at a time, for all that the code     *)
(* allows more of them.                                                    *)

OneCall == \A c, d \in Calls : conns[c].at # "none" /\ conns[d].at # "none" => c = d

\* A call that can still deliver is the last one, and stop can reach it.
Reachable == \A c \in Calls : conns[c].at \in {"fetch", "read"} => held /\ c = streamSeq

\* A message that is streaming is the last question's, and its one call has shown
\* in it all that it has received.
Streaming ==
    message # Nothing =>
        /\ message \notin finished
        /\ streamSeq \in Calls
        /\ conns[streamSeq].at \in {"fetch", "body", "read"}
        /\ conns[streamSeq].req = message
        /\ conns[streamSeq].pos = Len(shown[message])
        /\ lastEventId[message] = Len(shown[message])

InOrder == \A m \in Requests : shown[m] = [i \in 1 .. Len(shown[m]) |-> <<m, i>>]

Complete == \A m \in finished : log[m].end = "done" /\ Len(shown[m]) + 1 = log[m].size

Shown == streaming = {message} \ {Nothing}

Quiet == OneCall /\ Reachable /\ Streaming /\ InOrder /\ Complete /\ Shown

IInv == Typed /\ (~crossed => Quiet)

LEMMA NoneIsNoCall ==
    ASSUME Typed
    PROVE  \A c \in Calls : conns[c].at = "none" <=> conns[c] = NoCall
<1>1. \A c \in Calls : conns[c] \in CallTypes
  BY DEF Typed, TypeOK, CallTypes
<1>2. QED
  BY <1>1, CallFields

LEMMA OnlyCall ==
    ASSUME Typed, OneCall, NEW c \in Calls, conns[c].at # "none"
    PROVE  \A d \in Calls : d # c => conns[d] = NoCall
BY NoneIsNoCall DEF OneCall

\* The text, the messages and the log that no step changes are as they were.
LEMMA SameText ==
    ASSUME InOrder, Complete, UNCHANGED <<log, shown, finished>>
    PROVE  InOrder' /\ Complete'
BY DEF InOrder, Complete

LEMMA ErrorQuiet ==
    ASSUME Typed, Quiet, NEW c \in Calls, conns[c].at # "none",
           NEW retryable \in BOOLEAN, HandleError(Without(c), retryable), UNCHANGED log
    PROVE  Quiet'
<1>1. \A d \in Calls : d # c => conns[d] = NoCall
  BY OnlyCall DEF Quiet
<1>2. \A d \in Calls : \/ conns'[d] = NoCall
                       \/ d = <<asked, attempt + 1>> /\ conns'[d].at = "timer"
  BY <1>1, ErrorStep
<1>3. OneCall' /\ Reachable'
  BY <1>2 DEF OneCall, Reachable, NoCall
<1>4. message' = Nothing /\ streaming' = {}
  BY DEF HandleError, Quiet, Shown
<1>5. InOrder' /\ Complete'
  BY SameText DEF HandleError, Quiet
<1>6. QED
  BY <1>3, <1>4, <1>5 DEF Quiet, Streaming, Shown

\* A question that is asked when nothing but a call that can be stopped is under
\* way is the only one under way.
LEMMA StartQuiet ==
    ASSUME Typed, Quiet, StartStreaming, ~Unsettled,
           UNCHANGED <<log, shown, finished, lastEventId>>, streaming' = {asked'}
    PROVE  Quiet'
<1> DEFINE new == <<asked + 1, 0>>
<1>1. message = Nothing /\ \A d \in Calls : conns[d].at \notin {"timer", "body"}
  BY DEF Unsettled
<1>2. \A d \in Calls : Aborted(conns)[d] = NoCall
  <2>1. SUFFICES ASSUME NEW d \in Calls, conns[d] # NoCall PROVE Aborted(conns)[d] = NoCall
    BY AbortedCalls DEF Typed, TypeOK, CallTypes, Shape, AskedShape
  <2>2. conns[d].at \in {"fetch", "read"}
    <3>1. conns[d] \in CallTypes
      BY DEF Typed, TypeOK, CallTypes
    <3>2. QED
      BY <1>1, <2>1, <3>1, CallFields
  <2>3. held /\ d = streamSeq /\ conns[d].at # "body"
    BY <2>2 DEF Quiet, Reachable
  <2>4. conns \in [Calls -> CallTypes] /\ (held => streamSeq \in Calls)
    BY DEF Typed, TypeOK, CallTypes, Shape, AskedShape
  <2>5. QED
    BY <2>3, <2>4, AbortedCalls
<1>3. /\ new \in Calls /\ streamSeq' = new /\ held' = TRUE /\ message' = asked + 1
      /\ conns'[new] = [req |-> asked + 1, pos |-> 0, at |-> "fetch"]
      /\ \A d \in Calls : d # new => conns'[d] = NoCall
  <2>1. \A d \in Calls : d # new => conns'[d] = Aborted(conns)[d]
    BY StartStep
  <2>2. QED
    BY <1>2, <2>1, StartStep
<1>4. asked \in Nat /\ asked + 1 \in Requests /\ asked' = asked + 1
  <2>1. asked \in Nat
    BY Bounds DEF Typed, TypeOK
  <2>2. QED
    BY <2>1, StartStep
<1>5. OneCall' /\ Reachable'
  BY <1>3 DEF OneCall, Reachable, NoCall
<1>6. shown[asked + 1] = <<>> /\ lastEventId[asked + 1] = 0 /\ asked + 1 \notin finished
  BY <1>4 DEF Typed, Shape, FreshShape
<1>7. Streaming'
  BY <1>3, <1>6 DEF Streaming
<1>8. Shown'
  BY <1>3, <1>4, Bounds DEF Shown, Requests, Nothing
<1>9. InOrder' /\ Complete'
  BY SameText DEF Quiet
<1>10. QED
  BY <1>5, <1>7, <1>8, <1>9 DEF Quiet

LEMMA SendQuiet ==
    ASSUME Typed, Quiet, SendMessage \/ ConversationCreated \/ CreationFails, ~crossed'
    PROVE  Quiet'
<1>1. CASE StartStreaming /\ ~Unsettled /\ UNCHANGED <<log, shown, finished, lastEventId>>
           /\ streaming' \in {streaming \cup {asked'}, {asked'}}
  <2>1. streaming = {}
    BY <1>1 DEF Unsettled, Quiet, Shown
  <2>2. QED
    BY <1>1, <2>1, StartQuiet
<1>2. CASE UNCHANGED <<log, message, streaming, shown, finished, conns, streamSeq, held, lastEventId>>
  BY <1>2 DEF Quiet, OneCall, Reachable, Streaming, InOrder, Complete, Shown
<1>3. QED
  BY <1>1, <1>2 DEF SendMessage, ConversationCreated, CreationFails, serviceVars

\* A selection leaves at most the refusal that is being read.
LEMMA SelectQuiet ==
    ASSUME Typed, Quiet, SelectConversation
    PROVE  Quiet'
<1>1. conns' = Aborted(conns) /\ held' = FALSE /\ message' = Nothing /\ streaming' = {}
  BY DEF SelectConversation, Stop
<1>2. conns \in [Calls -> CallTypes] /\ (held => streamSeq \in Calls)
  BY DEF Typed, TypeOK, CallTypes, Shape, AskedShape
<1>3. \A d \in Calls : \/ conns'[d] = NoCall
                       \/ conns'[d] = conns[d] /\ conns[d].at \notin {"fetch", "read"}
  BY <1>1, <1>2, AbortedCalls DEF Quiet, Reachable
<1>4. OneCall' /\ Reachable'
  BY <1>3 DEF Quiet, OneCall, Reachable, NoCall
<1>5. InOrder' /\ Complete'
  BY SameText DEF SelectConversation, Quiet
<1>6. QED
  BY <1>1, <1>4, <1>5 DEF Quiet, Streaming, Shown

LEMMA RetryQuiet ==
    ASSUME Typed, Quiet, NEW c \in Calls, Retry(c)
    PROVE  Quiet'
<1>1. \A d \in Calls : d # c => conns[d] = NoCall
  BY OnlyCall DEF Quiet, Retry
<1>2. message = Nothing
  <2>1. SUFFICES ASSUME message # Nothing PROVE FALSE
    OBVIOUS
  <2>2. streamSeq = c
    BY <1>1, <2>1 DEF Quiet, Streaming, NoCall
  <2>3. QED
    BY <2>1, <2>2 DEF Quiet, Streaming, Retry
<1>3. /\ streamSeq' = c /\ held' = TRUE
      /\ \A d \in Calls : d # c => conns'[d] = NoCall
  BY <1>1 DEF Retry, Open
<1>4. OneCall' /\ Reachable'
  BY <1>3 DEF OneCall, Reachable, NoCall
<1>5. InOrder' /\ Complete'
  BY SameText DEF Retry, viewVars, Quiet
<1>6. QED
  BY <1>2, <1>4, <1>5 DEF Retry, viewVars, Quiet, Streaming, Shown

LEMMA RespondQuiet ==
    ASSUME Typed, Quiet, NEW c \in Calls, Respond(c) \/ Refuse(c)
    PROVE  Quiet'
<1>1. PICK there \in {"body", "read"} : conns' = [conns EXCEPT ![c].at = there]
  BY DEF Respond, Refuse
<1>2. conns[c].at = "fetch" /\ UNCHANGED <<log, viewVars, streamSeq, held, lastEventId>>
  BY DEF Respond, Refuse
<1>3. conns \in [Calls -> CallTypes]
  BY DEF Typed, TypeOK, CallTypes
<1>4. /\ conns'[c].at = there /\ conns'[c].req = conns[c].req /\ conns'[c].pos = conns[c].pos
      /\ \A d \in Calls : d # c => conns'[d] = conns[d]
  <2>1. conns[c] \in [req : Requests, pos : 0 .. MaxEvents, at : {"timer", "fetch", "body", "read"}]
    BY <1>2, <1>3 DEF CallTypes, NoCall
  <2>2. QED
    BY <1>1, <1>3, <2>1
<1>5. OneCall' /\ Reachable'
  BY <1>2, <1>4 DEF Quiet, OneCall, Reachable
<1>6. Streaming'
  BY <1>2, <1>4 DEF Quiet, Streaming, viewVars
<1>7. InOrder' /\ Complete'
  BY <1>2, SameText DEF viewVars, Quiet
<1>8. QED
  BY <1>2, <1>5, <1>6, <1>7 DEF Quiet, Shown, viewVars

\* An event is shown in its own message, after the ones before it.
LEMMA PartialQuiet ==
    ASSUME Typed, Quiet, NEW c \in Calls, ReceivePartial(c)
    PROVE  Quiet'
<1>1. conns[c].at = "read" /\ c = streamSeq /\ held
  BY DEF ReceivePartial, Arrives, Quiet, Reachable
<1>2. conns \in [Calls -> CallTypes]
  BY DEF Typed, TypeOK, CallTypes
<1>3. /\ conns'[c].at = "read" /\ conns'[c].req = conns[c].req /\ conns'[c].pos = conns[c].pos + 1
      /\ \A d \in Calls : d # c => conns'[d] = conns[d]
  <2>1. conns[c] \in [req : Requests, pos : 0 .. MaxEvents, at : {"timer", "fetch", "body", "read"}]
    BY <1>1, <1>2 DEF CallTypes, NoCall
  <2>2. conns' = [conns EXCEPT ![c].pos = @ + 1]
    BY <1>1 DEF ReceivePartial
  <2>3. QED
    BY <1>1, <1>2, <2>1, <2>2
<1>4. OneCall' /\ Reachable'
  BY <1>1, <1>3 DEF ReceivePartial, Quiet, OneCall, Reachable
<1>5. UNCHANGED <<log, message, streaming, finished>>
  BY DEF ReceivePartial, Arrives
<1>6. CASE message = Nothing
  <2>1. UNCHANGED shown
    BY <1>6 DEF ReceivePartial
  <2>2. InOrder' /\ Complete'
    BY <1>5, <2>1, SameText DEF Quiet
  <2>3. QED
    BY <1>4, <1>5, <1>6, <2>2 DEF Quiet, Streaming, Shown
<1>7. CASE message # Nothing
  <2>1. /\ message \in Requests /\ message \notin finished
        /\ conns[c].req = message /\ conns[c].pos = Len(shown[message])
        /\ shown[message] \in Seq(Requests \X (1 .. MaxEvents))
    BY <1>1, <1>7 DEF Quiet, Streaming, Typed, TypeOK
  <2>2. shown' = [shown EXCEPT ![message] = Append(@, <<message, Len(@) + 1>>)]
    BY <1>7, <2>1 DEF ReceivePartial, Number
  <2>3. /\ shown'[message] = Append(shown[message], <<message, Len(shown[message]) + 1>>)
        /\ \A m \in Requests : m # message => shown'[m] = shown[m]
    BY <2>1, <2>2 DEF Typed, TypeOK
  <2>4. shown'[message] = [i \in 1 .. Len(shown'[message]) |-> <<message, i>>]
    <3>1. shown[message] = [i \in 1 .. Len(shown[message]) |-> <<message, i>>]
      BY <2>1 DEF Quiet, InOrder
    <3>2. Len(shown'[message]) = Len(shown[message]) + 1
      BY <2>1, <2>3
    <3>3. \A i \in 1 .. Len(shown[message]) + 1 : shown'[message][i] = <<message, i>>
      BY <2>1, <2>3, <3>1
    <3>4. shown'[message] \in Seq(Requests \X (1 .. MaxEvents))
      BY <2>1, PartialTyped DEF Typed, TypeOK
    <3>5. ASSUME NEW S, NEW s \in Seq(S) PROVE s = [i \in 1 .. Len(s) |-> s[i]]
      OBVIOUS
    <3>6. QED
      BY <3>2, <3>3, <3>4, <3>5
  <2>5. InOrder'
    BY <2>3, <2>4 DEF Quiet, InOrder
  <2>6. Complete'
    BY <1>5, <2>1, <2>3 DEF Quiet, Complete, Typed, TypeOK
  <2>7. Streaming'
    <3>1. lastEventId'[message] = Len(shown[message]) + 1
      BY <1>7, <2>1 DEF ReceivePartial, Arrives, Number, Quiet, Streaming, Typed, TypeOK
    <3>2. QED
      BY <1>1, <1>3, <1>5, <2>1, <2>3, <3>1 DEF ReceivePartial, Quiet, Streaming
  <2>8. QED
    BY <1>4, <1>5, <2>5, <2>6, <2>7 DEF Quiet, Shown
<1>8. QED
  BY <1>6, <1>7

\* When the last event arrives all the others have.
LEMMA DoneQuiet ==
    ASSUME Typed, Quiet, NEW c \in Calls, ReceiveDone(c)
    PROVE  Quiet'
<1>1. conns[c].at = "read" /\ c = streamSeq
  BY DEF ReceiveDone, Arrives, Quiet, Reachable
<1>2. \A d \in Calls : conns'[d] = NoCall
  <2>1. \A d \in Calls : Without(c)[d] = NoCall
    BY <1>1, OnlyCall, WithoutCalls DEF Typed, Quiet
  <2>2. /\ conns' = Aborted(Without(c)) /\ Without(c) \in [Calls -> CallTypes]
        /\ held => streamSeq \in Calls
    BY WithoutCalls DEF ReceiveDone, Stop, Typed, Shape, AskedShape
  <2>3. QED
    BY <2>1, <2>2, AbortedCalls
<1>3. OneCall' /\ Reachable'
  BY <1>2 DEF OneCall, Reachable, NoCall
<1>4. message' = Nothing /\ streaming' = {} /\ UNCHANGED <<log, shown>>
  BY DEF ReceiveDone, Arrives, Quiet, Shown
<1>5. InOrder'
  BY <1>4 DEF Quiet, InOrder
<1>6. Complete'
  <2>1. SUFFICES ASSUME NEW m \in finished' PROVE log[m].end = "done" /\ Len(shown[m]) + 1 = log[m].size
    BY <1>4 DEF Complete
  <2>2. CASE m \in finished
    BY <2>2 DEF Quiet, Complete
  <2>3. CASE m \notin finished
    <3>1. m = message /\ message # Nothing
      BY <2>1, <2>3 DEF ReceiveDone, Quiet, Shown
    <3>2. conns[c].req = m /\ conns[c].pos = Len(shown[m])
      BY <1>1, <3>1 DEF Quiet, Streaming
    <3>3. QED
      BY <3>2 DEF ReceiveDone, Terminal, Number
  <2>4. QED
    BY <2>2, <2>3
<1>7. QED
  BY <1>3, <1>4, <1>5, <1>6 DEF Quiet, Streaming, Shown

LEMMA WriteQuiet ==
    ASSUME Typed, Quiet, NEW r \in Requests, Write(r)
    PROVE  Quiet'
<1>1. UNCHANGED <<message, streaming, shown, finished, conns, streamSeq, held, lastEventId>>
  BY DEF Write, viewVars, serviceVars
<1>2. r \notin finished
  BY DEF Write, Quiet, Complete
<1>3. \A m \in finished : log'[m] = log[m]
  BY <1>2 DEF Write, Typed, TypeOK
<1>4. Complete'
  BY <1>1, <1>3 DEF Quiet, Complete
<1>5. QED
  BY <1>1, <1>4 DEF Quiet, OneCall, Reachable, Streaming, InOrder, Shown

LEMMA QuietStep ==
    ASSUME Typed, ~crossed => Quiet, [Next]_vars, ~crossed'
    PROVE  Quiet'
<1>1. Quiet
  <2>1. crossed => crossed'
    BY DEF Next, SendMessage, ConversationCreated, CreationFails, SelectConversation,
           HistoryArrives, Write, Retry, Consume, Respond, Refuse, HandleRefusal, Receive,
           ReceivePartial, ReceiveDone, ReceiveError, Arrives, StreamEnds, ConnectionError, vars
  <2>2. QED
    BY <2>1
<1>2. CASE SendMessage \/ ConversationCreated \/ CreationFails \/ SelectConversation
  BY <1>1, <1>2, SendQuiet, SelectQuiet
<1>3. CASE HistoryArrives
  <2>1. message = Nothing /\ streaming = {} /\ streaming' = {}
        /\ UNCHANGED <<log, message, shown, finished, conns, streamSeq, held, lastEventId>>
    BY <1>1, <1>3 DEF HistoryArrives, serviceVars, Quiet, Shown
  <2>2. QED
    BY <1>1, <2>1 DEF Quiet, OneCall, Reachable, Streaming, InOrder, Complete, Shown
<1>4. ASSUME NEW r \in Requests, Write(r) PROVE Quiet'
  BY <1>1, <1>4, WriteQuiet
<1>5. ASSUME NEW c \in Calls, Retry(c) \/ Respond(c) \/ Refuse(c) PROVE Quiet'
  BY <1>1, <1>5, RetryQuiet, RespondQuiet
<1>6. ASSUME NEW c \in Calls, HandleRefusal(c) PROVE Quiet'
  BY <1>1, <1>6, ErrorQuiet DEF HandleRefusal
<1>7. ASSUME NEW c \in Calls, Receive(c) PROVE Quiet'
  <2>1. CASE ReceiveError(c)
    <3>1. conns[c].at # "none" /\ UNCHANGED log
          /\ HandleError(Without(c), log[conns[c].req].end = "retryable")
      BY <2>1 DEF ReceiveError, Arrives
    <3>2. (log[conns[c].req].end = "retryable") \in BOOLEAN
      OBVIOUS
    <3>3. QED
      BY <1>1, <3>1, <3>2, ErrorQuiet
  <2>2. QED
    BY <1>1, <1>7, <2>1, PartialQuiet, DoneQuiet DEF Receive
<1>8. ASSUME NEW c \in Calls, StreamEnds(c) \/ ConnectionError(c) PROVE Quiet'
  <2>1. conns[c].at \in {"fetch", "read"} /\ UNCHANGED log
    BY <1>8 DEF StreamEnds, ConnectionError
  <2>2. CASE HandleError(Without(c), TRUE)
    BY <1>1, <2>1, <2>2, ErrorQuiet
  <2>3. CASE status = "closed" /\ conns' = Without(c)
             /\ UNCHANGED <<viewVars, streamSeq, held, last, attempt, status>>
    <3>1. message = Nothing
      BY <2>3 DEF Typed, Shape, AskedShape
    <3>2. \A d \in Calls : conns'[d] = NoCall
      BY <1>1, <2>1, <2>3, OnlyCall, WithoutCalls DEF Typed, Quiet
    <3>3. OneCall' /\ Reachable'
      BY <3>2 DEF OneCall, Reachable, NoCall
    <3>4. InOrder' /\ Complete'
      BY <1>1, <2>1, <2>3, SameText DEF viewVars, Quiet
    <3>5. QED
      BY <1>1, <2>3, <3>1, <3>3, <3>4 DEF viewVars, Quiet, Streaming, Shown
  <2>4. c = streamSeq
    BY <1>1, <2>1 DEF Quiet, Reachable
  <2>5. QED
    BY <1>8, <2>2, <2>3, <2>4 DEF StreamEnds, ConnectionError
<1>9. CASE UNCHANGED vars
  BY <1>1, <1>9 DEF vars, viewVars, serviceVars, Quiet, OneCall, Reachable, Streaming, InOrder,
                    Complete, Shown
<1>10. QED
  BY <1>2, <1>3, <1>4, <1>5, <1>6, <1>7, <1>8, <1>9 DEF Next, Consume

LEMMA InitQuiet == Init => Quiet
<1> SUFFICES ASSUME Init PROVE Quiet
  OBVIOUS
<1>1. \A c \in Calls : conns[c].at = "none"
  BY DEF Init, NoCall
<1>2. InOrder
  BY DEF Init, InOrder
<1>3. QED
  BY <1>1, <1>2 DEF Init, Quiet, OneCall, Reachable, Streaming, Complete, Shown

\* For any number of questions, events and repeated calls: while the user goes on only
\* from what has settled, a message shows a beginning of the answer to its own question,
\* in order and once: while it streams, all that has been received, and when it is
\* called finished, the whole.
THEOREM AnswersStayInPlace == Spec => []AnswerInItsPlace
<1>1. Init => IInv
  BY InitTyped, InitQuiet DEF IInv
<1>2. IInv /\ [Next]_vars => IInv'
  BY TypedStep, QuietStep DEF IInv
<1>3. IInv => AnswerInItsPlace
  BY DEF IInv, Quiet, Streaming, InOrder, Complete, Shown, AnswerInItsPlace
<1>4. QED
  BY <1>1, <1>2, <1>3, PTL DEF Spec
=============================================================================
