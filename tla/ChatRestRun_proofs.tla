------------------------- MODULE ChatRestRun_proofs -------------------------
(***************************************************************************)
(* For any number of requests, fingerprints and rows: a key never runs      *)
(* twice at the same time, stores one turn per run, and answers only with   *)
(* stored turns of the same request, and the handlers over its row are an   *)
(* IdempotentKey.  Everything rests on one inductive invariant, RestInv.    *)
(***************************************************************************)
EXTENDS ChatRestRun, TLAPS

(* A row read or claimed is the current one or an earlier one.              *)
HeldInv ==
    \A r \in Requests :
        /\ held[r] <= row.id
        /\ held[r] = row.id /\ pc[r] \in {"claim"} \cup Executing => row.fp = Fingerprint[r]

(* A turn of the current row is its producer's, who has claimed it.         *)
TurnInv ==
    /\ OneTurnPerRun
    /\ \A t \in turns : t.id <= row.id
    /\ \A t \in turns : t.id = row.id => row.token = t.by /\ row.status # "pending"
    /\ \A r \in Requests : pc[r] = "complete" => Turn(r) \in turns

(* What a completed row replays.                                           *)
ResultInv ==
    row.status = "completed" =>
        /\ row.result \in Requests
        /\ [by |-> row.result, id |-> row.id] \in turns
        /\ row.fp = Fingerprint[row.result]

AnswerInv ==
    /\ AnswerIsStoredTurn
    /\ \A r \in Requests : pc[r] \notin Over => answer[r] = NoToken

(* The inductive invariant.                                                *)
RestInv == TypeOK /\ ClaimIsKept /\ HeldInv /\ TurnInv /\ ResultInv /\ AnswerInv

-----------------------------------------------------------------------------
LEMMA InitInv == Init => RestInv
  BY RestAssumption DEF Init, RestInv, TypeOK, ClaimIsKept, HeldInv, TurnInv,
     OneTurnPerRun, ResultInv, AnswerInv, AnswerIsStoredTurn, Executing, Over,
     TerminalStatus, Statuses, Rows

LEMMA RowUpdates ==
  ASSUME row \in Rows
  PROVE  /\ \A r \in Requests : Claimed(r) \in Rows
         /\ \A r \in Requests, s \in TerminalStatus : Finished(r, s) \in Rows
         /\ [row EXCEPT !.expired = TRUE] \in Rows
         /\ [row EXCEPT !.status = "absent"] \in Rows
<1> USE DEF Rows, Statuses, TerminalStatus
<1>1. \A r \in Requests : Claimed(r) \in Rows
  BY DEF Claimed
<1>2. \A r \in Requests, s \in TerminalStatus : Finished(r, s) \in Rows
  BY DEF Finished
<1>3. [row EXCEPT !.expired = TRUE] \in Rows
  OBVIOUS
<1>4. [row EXCEPT !.status = "absent"] \in Rows
  OBVIOUS
<1> QED
  BY <1>1, <1>2, <1>3, <1>4

LEMMA TypeStep == TypeOK /\ [Next]_vars => TypeOK'
<1> SUFFICES ASSUME TypeOK, [Next]_vars PROVE TypeOK'
  OBVIOUS
<1> USE RestAssumption DEF TypeOK
<1>1. ASSUME NEW r \in Requests, Attach(r)
      PROVE  TypeOK'
  <2> USE DEF Goto, Executing, Over
  <2>1. ASSUME NEW here, Found(r, here)
        PROVE  TypeOK'
    BY <2>1 DEF Found, Verdict, Rows
  <2>2. CASE Insert(r)
    <3>1. row' \in Rows
      BY <2>2 DEF Insert, Rows, Statuses
    <3> QED
      BY <2>2, <3>1 DEF Insert, Rows
  <2>3. CASE ClaimPending(r)
    BY <2>3, RowUpdates DEF ClaimPending
  <2>4. CASE ClaimRaises(r)
    BY <2>4, RowUpdates DEF ClaimRaises
  <2>5. CASE BeginFindsNone(r) \/ InsertConflicts(r) \/ RereadFindsNone(r) \/ ClaimTaken(r)
    BY <2>5 DEF BeginFindsNone, InsertConflicts, RereadFindsNone, ClaimTaken
  <2> QED
    BY <1>1, <2>1, <2>2, <2>3, <2>4, <2>5 DEF Attach, BeginFinds, RereadFinds
<1>2. ASSUME NEW r \in Requests, SendMessage(r)
      PROVE  TypeOK'
  <2> USE DEF Goto, Executing, Over
  <2>1. CASE ExecuteReturns(r) \/ ExecuteFails(r) \/ ExecuteRaises(r)
    BY <2>1 DEF ExecuteReturns, ExecuteFails, ExecuteRaises
  <2>2. CASE PersistTurn(r) \/ PersistRaises(r)
    BY <2>2 DEF PersistTurn, PersistRaises, Turn
  <2>3. CASE Complete(r)
    BY <2>3, RowUpdates DEF Complete, TerminalStatus
  <2>4. CASE Fail(r)
    BY <2>4, RowUpdates DEF Fail, TerminalStatus
  <2>5. CASE FinishRaises(r)
    BY <2>5, RowUpdates DEF FinishRaises, TerminalStatus
  <2> QED
    BY <1>2, <2>1, <2>2, <2>3, <2>4, <2>5 DEF SendMessage
<1>3. ASSUME NEW r \in Requests, Crash(r)
      PROVE  TypeOK'
  BY <1>3 DEF Crash, Over
<1>4. CASE Expire
  BY <1>4, RowUpdates DEF Expire
<1>5. CASE CleanupExpired
  BY <1>5, RowUpdates DEF CleanupExpired
<1>6. CASE UNCHANGED vars
  BY <1>6 DEF vars
<1> QED
  BY <1>1, <1>2, <1>3, <1>4, <1>5, <1>6 DEF Next

(* A handler that moves on without touching the row, the turns or its      *)
(* answer, and neither claims, nor reports a stored turn.                   *)
Moves(r) ==
    /\ \E there \in {"insert", "reread", "persist", "failing"} \cup Over :
          /\ pc' = [pc EXCEPT ![r] = there]
          /\ there \in Executing => pc[r] \in Executing
    /\ pc[r] \notin Over
    /\ UNCHANGED <<row, held, turns, answer>>

LEMMA MoveStep ==
  ASSUME RestInv, NEW r \in Requests, Moves(r)
  PROVE  RestInv'
<1> USE RestAssumption DEF RestInv, TypeOK, Rows, Moves, Executing, Over
<1>1. TypeOK'
  OBVIOUS
<1>2. ClaimIsKept'
  BY DEF ClaimIsKept, Owns
<1>3. HeldInv'
  BY DEF HeldInv
<1>4. TurnInv'
  BY DEF TurnInv, OneTurnPerRun, Turn
<1>5. ResultInv'
  BY DEF ResultInv
<1>6. AnswerInv'
  BY DEF AnswerInv, AnswerIsStoredTurn
<1> QED
  BY <1>1, <1>2, <1>3, <1>4, <1>5, <1>6

LEMMA FoundStep ==
  ASSUME RestInv, TypeOK', NEW r \in Requests, NEW here \in {"idle", "reread"}, Found(r, here)
  PROVE  RestInv'
<1> USE RestAssumption DEF RestInv, TypeOK, Found, Verdict, Goto, Executing, Over,
        TerminalStatus, Statuses, Rows
<1>1. ClaimIsKept'
  BY DEF ClaimIsKept, Owns
<1>2. HeldInv'
  BY DEF HeldInv
<1>3. TurnInv'
  BY DEF TurnInv, OneTurnPerRun, Turn
<1>4. ResultInv'
  BY DEF ResultInv
<1>5. AnswerInv'
  BY DEF AnswerInv, AnswerIsStoredTurn, ResultInv
<1> QED
  BY <1>1, <1>2, <1>3, <1>4, <1>5

(* The new row has an id of its own, so what is known of the old one stays. *)
LEMMA InsertStep ==
  ASSUME RestInv, TypeOK', NEW r \in Requests, Insert(r)
  PROVE  RestInv'
<1> USE RestAssumption DEF RestInv, TypeOK, Insert, Goto, Executing, Over, Rows
<1>1. ClaimIsKept'
  BY DEF ClaimIsKept, Owns
<1>2. HeldInv'
  BY DEF HeldInv
<1>3. TurnInv'
  BY DEF TurnInv, OneTurnPerRun, Turn
<1>4. ResultInv'
  BY DEF ResultInv
<1>5. AnswerInv'
  BY DEF AnswerInv, AnswerIsStoredTurn
<1> QED
  BY <1>1, <1>2, <1>3, <1>4, <1>5

(* A claim finds the row pending: nobody executes, and it has no turn yet.  *)
LEMMA ClaimStep ==
  ASSUME RestInv, TypeOK', NEW r \in Requests, Claimable(r), row' = Claimed(r),
         NEW there \in {"execute", "error"}, Goto(r, "claim", there),
         UNCHANGED <<held, turns, answer>>
  PROVE  RestInv'
<1> USE RestAssumption DEF RestInv, TypeOK, Claimable, Claimed, Goto, Executing, Over, Rows
<1>1. ClaimIsKept'
  BY DEF ClaimIsKept, Owns
<1>2. HeldInv'
  BY DEF HeldInv
<1>3. TurnInv'
  BY DEF TurnInv, OneTurnPerRun, Turn
<1>4. ResultInv'
  BY DEF ResultInv
<1>5. AnswerInv'
  BY DEF AnswerInv, AnswerIsStoredTurn
<1> QED
  BY <1>1, <1>2, <1>3, <1>4, <1>5

(* Only the owner of the row stores a turn for it, and it is always his.    *)
LEMMA PersistStep ==
  ASSUME RestInv, TypeOK', NEW r \in Requests, PersistTurn(r) \/ PersistRaises(r)
  PROVE  RestInv'
<1> USE RestAssumption DEF RestInv, TypeOK, PersistTurn, PersistRaises, Goto, Executing,
        Over, Rows
<1>1. ClaimIsKept'
  BY DEF ClaimIsKept, Owns
<1>2. HeldInv'
  BY DEF HeldInv
<1>3. TurnInv'
  <2>1. Owns(r) /\ turns \subseteq turns' /\ turns' \subseteq turns \cup {Turn(r)}
    BY DEF ClaimIsKept
  <2>2. pc[r] = "persist" /\ row' = row /\ held' = held
    OBVIOUS
  <2>3. \A q \in Requests : pc'[q] = "complete" => Turn(q) \in turns'
    BY <2>1 DEF TurnInv, Turn
  <2> HIDE DEF PersistTurn, PersistRaises
  <2>4. \A t \in turns' : t.id <= row.id /\ (t.id = row.id => row.token = t.by /\ row.status # "pending")
    BY <2>1 DEF TurnInv, Turn, Owns
  <2>5. OneTurnPerRun'
    BY <2>1 DEF TurnInv, OneTurnPerRun, Turn, Owns
  <2> QED
    BY <2>2, <2>3, <2>4, <2>5 DEF TurnInv, Turn
<1>4. ResultInv'
  BY DEF ResultInv
<1>5. AnswerInv'
  BY DEF AnswerInv, AnswerIsStoredTurn
<1> QED
  BY <1>1, <1>2, <1>3, <1>4, <1>5

(* Complete, Fail and FinishRaises, with or without their commit.           *)
Reports(r) ==
    /\ Owns(r)
    /\ pc[r] \in {"complete", "failing"}
    /\ \/ row' = row
       \/ row' = Finished(r, "failed")
       \/ row' = Finished(r, "completed") /\ pc[r] = "complete"
    /\ \/ pc' = [pc EXCEPT ![r] = "error"] /\ answer' = answer
       \/ /\ pc[r] = "complete" /\ row' = Finished(r, "completed")
          /\ pc' = [pc EXCEPT ![r] = "answered"]
          /\ answer' = [answer EXCEPT ![r] = r]
    /\ UNCHANGED <<held, turns>>

LEMMA ReporterOwns ==
  ASSUME RestInv, NEW r \in Requests, Complete(r) \/ Fail(r) \/ FinishRaises(r)
  PROVE  Reports(r)
<1>1. pc[r] \in {"complete", "failing"}
  BY DEF Complete, Fail, FinishRaises, Goto
<1>2. Owns(r)
  BY <1>1 DEF RestInv, ClaimIsKept, Executing
<1>3. CASE Complete(r)
  BY <1>2, <1>3 DEF Complete, Goto, Reports
<1>4. CASE Fail(r)
  BY <1>2, <1>4 DEF Fail, Goto, Reports
<1>5. CASE FinishRaises(r)
  BY <1>2, <1>5 DEF FinishRaises, Goto, Reports
<1> QED
  BY <1>3, <1>4, <1>5

LEMMA FinishStep ==
  ASSUME RestInv, TypeOK', NEW r \in Requests, Reports(r)
  PROVE  RestInv'
<1> USE RestAssumption DEF RestInv, TypeOK, Rows, Executing, Over
<1> DEFINE Kept == /\ row'.id = row.id /\ row'.fp = row.fp
                  /\ row'.token = r /\ row.token = r
                  /\ row'.status # "pending"
<1>1. Kept
  <2>1. Owns(r) /\ row \in Rows
    BY DEF Reports
  <2>2. ASSUME NEW s \in TerminalStatus, row' = Finished(r, s)
        PROVE  Kept
    BY <2>1, <2>2 DEF Finished, Owns, TerminalStatus
  <2>3. CASE row' = row
    BY <2>1, <2>3 DEF Owns
  <2> QED
    BY <2>2, <2>3 DEF Reports, TerminalStatus
<1>2. ClaimIsKept'
  BY <1>1 DEF Reports, ClaimIsKept, Owns
<1>3. HeldInv'
  BY <1>1 DEF Reports, HeldInv
<1>4. TurnInv'
  BY <1>1 DEF Reports, TurnInv, OneTurnPerRun, Turn
<1>5. ResultInv'
  <2>1. CASE row' = row
    BY <2>1 DEF Reports, ResultInv
  <2>2. CASE row' = Finished(r, "failed")
    BY <2>2 DEF Reports, ResultInv, Finished, Owns
  <2>3. CASE row' = Finished(r, "completed") /\ pc[r] = "complete"
    <3>1. Turn(r) \in turns' /\ row.fp = Fingerprint[r]
      BY <2>3 DEF Reports, TurnInv, HeldInv, Owns
    <3>2. row'.result = r /\ row'.id = held[r]
      BY <2>3 DEF Reports, Owns, Finished
    <3> QED
      BY <1>1, <3>1, <3>2 DEF ResultInv, Turn
  <2> QED
    BY <2>1, <2>2, <2>3 DEF Reports
<1>6. AnswerInv'
  <2>1. CASE answer' = answer
    BY <2>1 DEF Reports, AnswerInv, AnswerIsStoredTurn
  <2>2. CASE pc[r] = "complete" /\ answer' = [answer EXCEPT ![r] = r]
    BY <2>2 DEF Reports, AnswerInv, AnswerIsStoredTurn, TurnInv, Turn
  <2> QED
    BY <2>1, <2>2 DEF Reports
<1> QED
  BY <1>2, <1>3, <1>4, <1>5, <1>6

LEMMA FadeStep ==
  ASSUME RestInv, TypeOK', Expire \/ CleanupExpired
  PROVE  RestInv'
<1> USE RestAssumption DEF RestInv, TypeOK, Expire, CleanupExpired, Executing, Over, Rows,
        TerminalStatus
<1>1. ClaimIsKept'
  BY DEF ClaimIsKept, Owns
<1>2. HeldInv'
  BY DEF HeldInv
<1>3. TurnInv'
  BY DEF TurnInv, OneTurnPerRun, Turn
<1>4. ResultInv'
  BY DEF ResultInv
<1>5. AnswerInv'
  BY DEF AnswerInv, AnswerIsStoredTurn
<1> QED
  BY <1>1, <1>2, <1>3, <1>4, <1>5
-----------------------------------------------------------------------------
LEMMA InvStep == RestInv /\ [Next]_vars => RestInv'
<1> SUFFICES ASSUME RestInv, [Next]_vars PROVE RestInv'
  OBVIOUS
<1>1. TypeOK'
  BY TypeStep DEF RestInv
<1>2. ASSUME NEW r \in Requests, Attach(r)
      PROVE  RestInv'
  <2>1. CASE BeginFinds(r) \/ RereadFinds(r)
    BY <1>1, <2>1, FoundStep DEF BeginFinds, RereadFinds
  <2>2. CASE BeginFindsNone(r) \/ InsertConflicts(r) \/ RereadFindsNone(r) \/ ClaimTaken(r)
    <3>1. Moves(r)
      BY <2>2 DEF BeginFindsNone, InsertConflicts, RereadFindsNone, ClaimTaken, Moves, Goto,
         Executing, Over
    <3> QED
      BY <3>1, MoveStep
  <2>3. CASE Insert(r)
    BY <1>1, <2>3, InsertStep
  <2>4. CASE ClaimPending(r)
    BY <1>1, <2>4, ClaimStep DEF ClaimPending
  <2>5. CASE ClaimRaises(r)
    <3>1. CASE UNCHANGED row
      <4>1. Moves(r)
        BY <2>5, <3>1 DEF ClaimRaises, Moves, Goto, Executing, Over
      <4> QED
        BY <4>1, MoveStep
    <3> QED
      BY <1>1, <2>5, <3>1, ClaimStep DEF ClaimRaises
  <2> QED
    BY <1>2, <2>1, <2>2, <2>3, <2>4, <2>5 DEF Attach
<1>3. ASSUME NEW r \in Requests, SendMessage(r)
      PROVE  RestInv'
  <2>1. CASE ExecuteReturns(r) \/ ExecuteFails(r) \/ ExecuteRaises(r)
    <3>1. Moves(r)
      BY <2>1 DEF ExecuteReturns, ExecuteFails, ExecuteRaises, Moves, Goto, Executing, Over
    <3> QED
      BY <3>1, MoveStep
  <2> QED
    BY <1>1, <1>3, <2>1, PersistStep, ReporterOwns, FinishStep DEF SendMessage
<1>4. ASSUME NEW r \in Requests, Crash(r)
      PROVE  RestInv'
  <2>1. Moves(r)
    BY <1>4 DEF Crash, Moves, Executing, Over
  <2> QED
    BY <2>1, MoveStep
<1>5. CASE Expire \/ CleanupExpired
  BY <1>1, <1>5, FadeStep
<1>6. CASE UNCHANGED vars
  BY <1>6 DEF vars, RestInv, TypeOK, ClaimIsKept, Owns, HeldInv, TurnInv, OneTurnPerRun, Turn,
     ResultInv, AnswerInv, AnswerIsStoredTurn
<1> QED
  BY <1>2, <1>3, <1>4, <1>5, <1>6 DEF Next

\* The invariant everything below is read off.
THEOREM RestInvariant == Spec => []RestInv
<1> QED
  BY InitInv, InvStep, PTL DEF Spec

\* The types are right, whatever the requests, the clock and the database do.
THEOREM TypeCorrect == Spec => []TypeOK
<1>1. Init => TypeOK
  BY InitInv DEF RestInv
<1> QED
  BY <1>1, TypeStep, PTL DEF Spec

\* At every moment at most one request of the key runs the model and its tools.
THEOREM NeverTwoAtOnce == Spec => []NoOverlap
<1>1. RestInv => NoOverlap
  BY DEF RestInv, ClaimIsKept, Owns, NoOverlap
<1> QED
  BY <1>1, RestInvariant, PTL

\* The claim outlives the execution, so its outcome is always accepted.
THEOREM ClaimNeverLost == Spec => []ClaimIsKept
<1>1. RestInv => ClaimIsKept
  BY DEF RestInv
<1> QED
  BY <1>1, RestInvariant, PTL

\* One stored turn per run of the key, and no answer without its stored turn.
THEOREM AnswersAreStoredOnce == Spec => []AnsweredOnce
<1>1. RestInv => AnsweredOnce
  BY DEF RestInv, TurnInv, AnswerInv, AnsweredOnce
<1> QED
  BY <1>1, RestInvariant, PTL

\* A claimed run is ended by its own producer's report and by nothing else.
THEOREM UncertainStays == Spec => UncertainIsNotReplayed
<1> DEFINE Uncertain == row.status = "running" /\ row'.status # "running" =>
                          /\ row'.status \in TerminalStatus
                          /\ pc[row.token] \in {"complete", "failing"}
<1>1. RestInv /\ [Next]_vars => [Uncertain]_vars
  <2> SUFFICES ASSUME RestInv, Next, row.status = "running", row'.status # "running"
               PROVE  Uncertain
    BY DEF vars
  <2>1. row \in Rows
    BY DEF RestInv, TypeOK
  <2>2. ASSUME NEW r \in Requests, Attach(r)
        PROVE  FALSE
    BY <2>1, <2>2 DEF Attach, BeginFinds, BeginFindsNone, Insert, InsertConflicts, RereadFinds,
       RereadFindsNone, Found, ClaimPending, ClaimTaken, ClaimRaises, Claimed, Claimable, Rows
  <2>3. ASSUME NEW r \in Requests, Complete(r) \/ Fail(r) \/ FinishRaises(r)
        PROVE  Uncertain
    <3>1. Reports(r)
      BY <2>3, ReporterOwns
    <3> QED
      BY <2>1, <3>1 DEF Reports, Owns, Finished, TerminalStatus, Rows
  <2>4. CASE Expire \/ CleanupExpired
    BY <2>1, <2>4 DEF Expire, CleanupExpired, Rows, TerminalStatus
  <2>5. ASSUME NEW r \in Requests, SendMessage(r) \/ Crash(r), row' # row
        PROVE  Complete(r) \/ Fail(r) \/ FinishRaises(r)
    BY <2>5 DEF SendMessage, Crash, ExecuteReturns, ExecuteFails, ExecuteRaises, PersistTurn,
       PersistRaises
  <2> QED
    BY <2>2, <2>3, <2>4, <2>5 DEF Next
<1> QED
  BY <1>1, RestInvariant, PTL DEF Spec, UncertainIsNotReplayed
-----------------------------------------------------------------------------
(* The refinement of IdempotentKey.                                        *)

(* Nothing is stored before the model has answered, and a completed run is  *)
(* answered with the turn of whoever took it up.                            *)
FreshInv ==
    /\ \A r \in Requests : pc[r] \in {"execute", "persist"} => \A t \in turns : t.id # held[r]
    /\ row.status = "completed" => row.result = row.token

LEMMA FreshStep == RestInv /\ FreshInv /\ [Next]_vars => FreshInv'
<1> SUFFICES ASSUME RestInv, FreshInv, [Next]_vars PROVE FreshInv'
  OBVIOUS
<1>1. TypeOK /\ row \in Rows
  BY DEF RestInv, TypeOK
<1> USE RestAssumption DEF FreshInv
<1>2. ASSUME NEW r \in Requests, Attach(r)
      PROVE  FreshInv'
  <2> USE DEF Goto
  <2>1. ASSUME NEW here \in {"idle", "reread"}, Found(r, here)
        PROVE  FreshInv'
    BY <1>1, <2>1 DEF Found, Verdict, TypeOK
  <2>2. CASE Insert(r)
    BY <1>1, <2>2 DEF Insert, TypeOK, RestInv, ClaimIsKept, Owns, Executing
  <2>3. ASSUME Claimable(r), row' = Claimed(r), UNCHANGED <<held, turns>>
        PROVE  /\ row'.status # "completed"
               /\ \A t \in turns' : t.id # held'[r]
    BY <1>1, <2>3 DEF Claimable, Claimed, Rows, RestInv, TurnInv
  <2>4. CASE ClaimPending(r) \/ ClaimRaises(r)
    BY <1>1, <2>3, <2>4 DEF ClaimPending, ClaimRaises, TypeOK
  <2>5. CASE BeginFindsNone(r) \/ InsertConflicts(r) \/ RereadFindsNone(r) \/ ClaimTaken(r)
    BY <1>1, <2>5 DEF BeginFindsNone, InsertConflicts, RereadFindsNone, ClaimTaken, TypeOK
  <2> QED
    BY <1>2, <2>1, <2>2, <2>4, <2>5 DEF Attach, BeginFinds, RereadFinds
<1>3. ASSUME NEW r \in Requests, SendMessage(r)
      PROVE  FreshInv'
  <2> USE DEF Goto
  <2>1. CASE ExecuteReturns(r) \/ ExecuteFails(r) \/ ExecuteRaises(r)
    BY <1>1, <2>1 DEF ExecuteReturns, ExecuteFails, ExecuteRaises, TypeOK
  <2>2. CASE PersistTurn(r) \/ PersistRaises(r)
    <3>1. \A q \in Requests : pc[q] \in Executing => q = r
      BY <2>2 DEF PersistTurn, PersistRaises, RestInv, ClaimIsKept, Owns, Executing
    <3> QED
      BY <1>1, <2>2, <3>1 DEF PersistTurn, PersistRaises, TypeOK, Executing
  <2>3. CASE Complete(r) \/ Fail(r) \/ FinishRaises(r)
    <3>1. Reports(r)
      BY <2>3, ReporterOwns
    <3>2. row'.status = "completed" => row'.result = row'.token
      <4>1. CASE row' = row
        BY <4>1
      <4>2. ASSUME NEW s \in TerminalStatus, row' = Finished(r, s)
            PROVE  row'.status = "completed" => row'.result = row'.token
        BY <1>1, <3>1, <4>2 DEF Reports, Owns, Finished, Rows, TerminalStatus
      <4> QED
        BY <3>1, <4>1, <4>2 DEF Reports, TerminalStatus
    <3>3. \A q \in Requests : pc'[q] \in {"execute", "persist"} => pc[q] = pc'[q]
      BY <1>1, <3>1 DEF Reports, TypeOK
    <3> QED
      BY <3>1, <3>2, <3>3 DEF Reports
  <2> QED
    BY <1>3, <2>1, <2>2, <2>3 DEF SendMessage
<1>4. ASSUME NEW r \in Requests, Crash(r)
      PROVE  FreshInv'
  BY <1>1, <1>4 DEF Crash, TypeOK
<1>5. CASE Expire \/ CleanupExpired
  BY <1>1, <1>5 DEF Expire, CleanupExpired, Rows
<1>6. CASE UNCHANGED vars
  BY <1>6 DEF vars
<1> QED
  BY <1>2, <1>3, <1>4, <1>5, <1>6 DEF Next

Working == {r \in Requests : pc[r] \in Executing}

Replies == [r \in Requests |-> Reply(r)]

(* Steps of which the key sees nothing.                                     *)
LEMMA Unseen ==
  ASSUME UNCHANGED turns, Working' = Working, Replies' = Replies,
         row' = row \/ (row \in Rows /\ row' = [row EXCEPT !.expired = TRUE])
  PROVE  UNCHANGED Key!avars
<1>1. /\ row'.status = row.status /\ row'.id = row.id
      /\ row'.fp = row.fp /\ row'.token = row.token
  BY DEF Rows
<1> QED
  BY <1>1 DEF Key!avars, Working, Replies

(* A request that moves and neither gains nor loses a claim or an answer.   *)
LEMMA WorkersMove ==
  ASSUME TypeOK, NEW r \in Requests, NEW there, pc' = [pc EXCEPT ![r] = there]
  PROVE  /\ there \in Executing => Working' = Working \cup {r}
         /\ there \notin Executing => Working' = Working \ {r}
  BY DEF TypeOK, Working

(* What the key sees of the stages of a row.                                *)
LEMMA Stages ==
  ASSUME NEW status \in Statuses
  PROVE  /\ (Stage(status) = "free") <=> (status = "absent")
         /\ (Stage(status) = "open") <=> (status = "pending")
         /\ (Stage(status) = "taken") <=> (status = "running")
         /\ (Stage(status) = "done") <=> (status = "completed")
         /\ (Stage(status) = "failed") <=> (status = "failed")
  BY DEF Statuses, TerminalStatus, Stage

LEMMA FoundRefines ==
  ASSUME RestInv, FreshInv, NEW r \in Requests, NEW here \in {"idle", "reread"}, Found(r, here)
  PROVE  [Key!ANext]_Key!avars
<1> USE RestAssumption
<1>1. TypeOK /\ row \in Rows /\ answer[r] = NoToken
  BY DEF RestInv, TypeOK, AnswerInv, Found, Goto, Over
<1>2. Working' = Working
  BY <1>1, WorkersMove DEF Found, Goto, Verdict, Executing, Working
<1>3. CASE Verdict(r) = "replayed"
  <2>1. row.status = "completed" /\ row.fp = Fingerprint[r] /\ row.result = row.token
    BY <1>3 DEF Verdict, FreshInv
  <2>2. row.result # NoToken
    BY <2>1 DEF RestInv, ResultInv
  <2>3. answer' = [answer EXCEPT ![r] = row.token] /\ held' = [held EXCEPT ![r] = row.id]
    BY <1>3, <2>1 DEF Found
  <2>4. Reply(r) = {} /\ Reply(r)' = {[by |-> row.token, id |-> row.id]}
    BY <1>1, <2>1, <2>2, <2>3 DEF Reply, TypeOK
  <2>5. \A q \in Requests : q # r => Reply(q)' = Reply(q)
    BY <1>1, <2>3 DEF Reply, TypeOK
  <2>6. Replies' = [Replies EXCEPT ![r] = {[by |-> row.token, id |-> row.id]}]
    BY <2>4, <2>5 DEF Replies
  <2>7. Key!AReplay(r)
    BY <1>2, <2>1, <2>4, <2>6, Stages
       DEF Found, Key!AReplay, Key!TurnOf, Working, Replies, Rows, Statuses, TerminalStatus
  <2> QED
    BY <2>7 DEF Key!ANext
<1>4. CASE Verdict(r) # "replayed"
  <2>1. answer' = answer
    BY <1>1, <1>4 DEF Found, TypeOK
  <2>2. \A q \in Requests : Reply(q)' = Reply(q)
    BY <1>1, <2>1 DEF Found, Reply, TypeOK
  <2>3. Replies' = Replies
    BY <2>2 DEF Replies
  <2> QED
    BY <1>2, <2>3, Unseen DEF Found
<1> QED
  BY <1>3, <1>4

LEMMA InsertRefines ==
  ASSUME RestInv, NEW r \in Requests, Insert(r)
  PROVE  [Key!ANext]_Key!avars
<1>1. TypeOK /\ row \in Rows /\ answer[r] = NoToken
  BY DEF RestInv, TypeOK, AnswerInv, Insert, Goto, Over
<1>2. Working' = Working
  BY <1>1, WorkersMove DEF Insert, Goto, Executing, Working
<1>3. \A q \in Requests : Reply(q)' = Reply(q)
  BY <1>1 DEF Insert, Reply, TypeOK
<1>4. Replies' = Replies
  BY <1>3 DEF Replies
<1>5. /\ row.status = "absent" /\ row'.status = "pending" /\ row'.id = row.id + 1
      /\ row'.fp = Fingerprint[r] /\ row'.token = NoToken
  BY DEF Insert
<1>6. Key!AOpen(r)
  BY <1>2, <1>4, <1>5, Stages DEF Insert, Key!AOpen, Working, Replies, Statuses
<1> QED
  BY <1>6 DEF Key!ANext

(* Who claims finds nobody at work, and the row is of his own payload.      *)
LEMMA ClaimRefines ==
  ASSUME RestInv, NEW r \in Requests, Claimable(r), row' = Claimed(r),
         NEW there \in {"execute", "error"}, Goto(r, "claim", there),
         UNCHANGED <<held, turns, answer>>
  PROVE  [Key!ANext]_Key!avars
<1>1. TypeOK /\ row \in Rows /\ answer[r] = NoToken
  BY DEF RestInv, TypeOK, AnswerInv, Goto, Over
<1>2. row.status = "pending" /\ row.fp = Fingerprint[r]
  BY DEF Claimable, Goto, RestInv, HeldInv
<1>3. Working = {}
  BY <1>2 DEF Working, RestInv, ClaimIsKept, Owns
<1>4. Working' \in {{}, {r}}
  BY <1>1, <1>3, WorkersMove DEF Goto
<1>5. /\ row'.status = "running" /\ row'.token = r
      /\ row'.id = row.id /\ row'.fp = row.fp
  BY <1>1 DEF Claimed, Rows
<1>6. Replies' = Replies /\ Replies[r] = {}
  BY <1>1 DEF Replies, Reply
<1>7. Key!ATake(r)
  BY <1>2, <1>3, <1>4, <1>5, <1>6, Stages DEF Key!ATake, Working, Replies, Statuses
<1> QED
  BY <1>7 DEF Key!ANext

(* Who stores the turn is at work, holds the row, and is the first to.      *)
LEMMA PersistRefines ==
  ASSUME RestInv, FreshInv, NEW r \in Requests, PersistTurn(r) \/ PersistRaises(r)
  PROVE  [Key!ANext]_Key!avars
<1>1. TypeOK /\ pc[r] = "persist" /\ Owns(r)
  BY DEF RestInv, ClaimIsKept, PersistTurn, PersistRaises, Goto, Executing
<1>2. Working' = Working /\ r \in Working
  BY <1>1, WorkersMove DEF PersistTurn, PersistRaises, Goto, Executing, Working
<1>3. Replies' = Replies /\ row' = row
  BY DEF PersistTurn, PersistRaises, Replies, Reply
<1>4. CASE turns' = turns
  BY <1>2, <1>3, <1>4, Unseen
<1>5. CASE turns' = turns \cup {Turn(r)}
  <2>1. Key!AStore(r)
    BY <1>1, <1>2, <1>3, <1>5, Stages
       DEF Key!AStore, Key!TurnOf, FreshInv, Owns, Turn, Working, Replies, Statuses
  <2> QED
    BY <2>1 DEF Key!ANext
<1> QED
  BY <1>4, <1>5 DEF PersistTurn, PersistRaises

(* Only who is at work ends the run, done only if its turn is stored.       *)
LEMMA ReportRefines ==
  ASSUME RestInv, NEW r \in Requests, Reports(r)
  PROVE  [Key!ANext]_Key!avars
<1> USE RestAssumption
<1>1. TypeOK /\ row \in Rows /\ Owns(r)
  BY DEF RestInv, TypeOK, Reports
<1>2. Working' = Working \ {r} /\ r \in Working
  BY <1>1, WorkersMove DEF Reports, Executing, Working
<1>3. CASE row' = row
  <2>1. answer' = answer \/ Finished(r, "completed") = row
    BY <1>3 DEF Reports
  <2>2. Finished(r, "completed") # row
    BY <1>1 DEF Finished, Owns, Rows
  <2>3. Replies' = Replies
    BY <2>1, <2>2 DEF Reports, Replies, Reply
  <2>4. Key!ADrop(r)
    BY <1>2, <1>3, <2>3 DEF Reports, Key!ADrop, Working, Replies
  <2> QED
    BY <2>4 DEF Key!ANext
<1>4. ASSUME NEW s \in TerminalStatus, row' = Finished(r, s)
      PROVE  /\ row'.status = s /\ row'.token = row.token
             /\ row'.id = row.id /\ row'.fp = row.fp
  BY <1>1, <1>4 DEF Finished, Owns, Rows
<1>5. Stage(row.status) = "taken" /\ Stage("failed") = "failed" /\ Stage("completed") = "done"
  BY <1>1, Stages DEF Owns, Statuses, TerminalStatus
<1>6. CASE row' = Finished(r, "failed")
  <2>1. Finished(r, "completed") # Finished(r, "failed")
    BY <1>1 DEF Finished, Owns, Rows
  <2>2. Replies' = Replies
    BY <1>6, <2>1 DEF Reports, Replies, Reply
  <2>3. Key!AFinish(r)
    BY <1>2, <1>4, <1>5, <1>6, <2>2 DEF Reports, Key!AFinish, Working, Replies, TerminalStatus
  <2> QED
    BY <2>3 DEF Key!ANext
<1>7. CASE row' = Finished(r, "completed") /\ pc[r] = "complete"
  <2>1. Key!TurnOf(r) \in turns /\ Key!TurnOf(r) = Turn(r)
    BY <1>1, <1>7 DEF RestInv, TurnInv, Key!TurnOf, Turn, Owns
  <2>2. Replies' \in {Replies, [Replies EXCEPT ![r] = {Key!TurnOf(r)}]}
    <3>1. CASE answer' = answer
      BY <3>1 DEF Reports, Replies, Reply
    <3>2. CASE answer' = [answer EXCEPT ![r] = r]
      <4>1. Reply(r)' = {Turn(r)}
        BY <1>1, <3>2 DEF Reports, Reply, Turn, TypeOK
      <4>2. \A q \in Requests : q # r => Reply(q)' = Reply(q)
        BY <1>1, <3>2 DEF Reports, Reply, TypeOK
      <4> QED
        BY <2>1, <4>1, <4>2 DEF Replies
    <3> QED
      BY <3>1, <3>2 DEF Reports
  <2>3. Key!AFinish(r)
    BY <1>2, <1>4, <1>5, <1>7, <2>1, <2>2
       DEF Reports, Key!AFinish, Working, Replies, TerminalStatus
  <2> QED
    BY <2>3 DEF Key!ANext
<1> QED
  BY <1>3, <1>6, <1>7 DEF Reports

(* A request that goes on or gives up without a word.                       *)
LEMMA MoveRefines ==
  ASSUME RestInv, NEW r \in Requests, Moves(r) \/ Crash(r)
  PROVE  [Key!ANext]_Key!avars
<1>1. TypeOK /\ Replies' = Replies /\ row' = row /\ turns' = turns
  BY DEF RestInv, Moves, Crash, Replies, Reply
<1>2. PICK there : pc' = [pc EXCEPT ![r] = there] /\ (there \in Executing => pc[r] \in Executing)
  BY DEF Moves, Crash, Executing, Over
<1>3. CASE Working' = Working
  BY <1>1, <1>3, Unseen
<1>4. CASE Working' # Working
  <2>1. r \in Working /\ Working' = Working \ {r}
    BY <1>1, <1>2, <1>4, WorkersMove DEF Working
  <2>2. Key!ADrop(r)
    BY <1>1, <2>1 DEF Key!ADrop, Working, Replies
  <2> QED
    BY <2>2 DEF Key!ANext
<1> QED
  BY <1>3, <1>4

LEMMA FadeRefines ==
  ASSUME RestInv, Expire \/ CleanupExpired
  PROVE  [Key!ANext]_Key!avars
<1>1. row \in Rows
  BY DEF RestInv, TypeOK
<1>2. UNCHANGED turns /\ Working' = Working /\ Replies' = Replies
  BY DEF Expire, CleanupExpired, Working, Replies, Reply
<1>3. CASE Expire
  BY <1>1, <1>2, <1>3, Unseen DEF Expire
<1>4. CASE CleanupExpired
  <2>1. /\ row.status \in TerminalStatus /\ row'.status = "absent"
        /\ row'.id = row.id /\ row'.fp = row.fp /\ row'.token = row.token
    BY <1>1, <1>4 DEF CleanupExpired, Rows
  <2>2. Key!AFree
    BY <1>2, <2>1, Stages DEF Key!AFree, Working, Replies, Statuses, TerminalStatus
  <2> QED
    BY <2>2 DEF Key!ANext
<1> QED
  BY <1>3, <1>4

LEMMA NextRefines == RestInv /\ FreshInv /\ [Next]_vars => [Key!ANext]_Key!avars
<1> SUFFICES ASSUME RestInv, FreshInv, [Next]_vars PROVE [Key!ANext]_Key!avars
  OBVIOUS
<1>1. ASSUME NEW r \in Requests, Attach(r)
      PROVE  [Key!ANext]_Key!avars
  <2>1. CASE BeginFinds(r) \/ RereadFinds(r)
    BY <2>1, FoundRefines DEF BeginFinds, RereadFinds
  <2>2. CASE Insert(r)
    BY <2>2, InsertRefines
  <2>3. CASE ClaimPending(r)
    BY <2>3, ClaimRefines DEF ClaimPending
  <2>4. CASE ClaimRaises(r) /\ Claimable(r) /\ row' = Claimed(r)
    BY <2>4, ClaimRefines DEF ClaimRaises
  <2>5. CASE \/ BeginFindsNone(r) \/ InsertConflicts(r) \/ RereadFindsNone(r)
            \/ ClaimTaken(r) \/ (ClaimRaises(r) /\ UNCHANGED row)
    <3>1. Moves(r)
      BY <2>5 DEF BeginFindsNone, InsertConflicts, RereadFindsNone, ClaimTaken, ClaimRaises,
         Moves, Goto, Executing, Over
    <3> QED
      BY <3>1, MoveRefines
  <2> QED
    BY <1>1, <2>1, <2>2, <2>3, <2>4, <2>5 DEF Attach, ClaimRaises
<1>2. ASSUME NEW r \in Requests, SendMessage(r)
      PROVE  [Key!ANext]_Key!avars
  <2>1. CASE ExecuteReturns(r) \/ ExecuteFails(r) \/ ExecuteRaises(r)
    <3>1. Moves(r)
      BY <2>1 DEF ExecuteReturns, ExecuteFails, ExecuteRaises, Moves, Goto, Executing, Over
    <3> QED
      BY <3>1, MoveRefines
  <2>2. CASE PersistTurn(r) \/ PersistRaises(r)
    BY <2>2, PersistRefines
  <2>3. CASE Complete(r) \/ Fail(r) \/ FinishRaises(r)
    BY <2>3, ReporterOwns, ReportRefines
  <2> QED
    BY <1>2, <2>1, <2>2, <2>3 DEF SendMessage
<1>3. ASSUME NEW r \in Requests, Crash(r)
      PROVE  [Key!ANext]_Key!avars
  BY <1>3, MoveRefines
<1>4. CASE Expire \/ CleanupExpired
  BY <1>4, FadeRefines
<1>5. CASE UNCHANGED vars
  <2>1. UNCHANGED turns /\ Working' = Working /\ Replies' = Replies /\ row' = row
    BY <1>5 DEF vars, Working, Replies, Reply
  <2> QED
    BY <2>1, Unseen
<1> QED
  BY <1>1, <1>2, <1>3, <1>4, <1>5 DEF Next

LEMMA InitRefines == Init => Key!AInit /\ FreshInv
<1> SUFFICES ASSUME Init PROVE Key!AInit /\ FreshInv
  OBVIOUS
<1>1. /\ row.status = "absent" /\ row.id = 0
      /\ row.fp = NoToken /\ row.token = NoToken
  BY DEF Init
<1>2. Working = {} /\ Replies = [r \in Requests |-> {}]
  BY DEF Init, Working, Executing, Replies, Reply
<1>3. Stage(row.status) = "free"
  BY <1>1, Stages DEF Statuses
<1> QED
  BY <1>1, <1>2, <1>3 DEF Init, Key!AInit, Working, Replies, FreshInv

\* For any number of requests, payloads and rows, and under any faults, the handlers
\* over one row keep what an idempotency key promises.
THEOREM KeyIsIdempotent == Spec => ImplementsIdempotentKey
<1>1. Spec => []FreshInv
  BY InitRefines, FreshStep, RestInvariant, PTL DEF Spec
<1> QED
  BY <1>1, InitRefines, NextRefines, RestInvariant, PTL
     DEF Spec, ImplementsIdempotentKey, Key!ASpec
=============================================================================
