---------------------------- MODULE IdempotentKey ----------------------------
(***************************************************************************)
(* What an idempotency key promises to those who repeat a request under it, *)
(* without rows, tokens, transactions or the clock: a run of the key is      *)
(* opened for one payload, taken up once, by one caller, who stores one turn *)
(* at most and alone decides how it ends; whoever repeats the payload of a   *)
(* run that is done is given its turn; a run that was dropped stays as it is, *)
(* and only one that has ended makes room for the next.                     *)
(***************************************************************************)
EXTENDS Naturals

CONSTANTS Callers, Payload, Nobody

VARIABLES
    run,        \* "free", "open", "taken", "done" or "failed"
    number,     \* how often the key was opened
    payload,    \* what the run was opened for
    taker,      \* the caller that took it up, or Nobody
    working,    \* the callers at work
    stored,     \* the turns stored: by whom, in which run
    reply       \* per caller, the set of the turn it was given, if any

avars == <<run, number, payload, taker, working, stored, reply>>

AInit ==
    /\ run = "free" /\ number = 0
    /\ payload = Nobody /\ taker = Nobody
    /\ working = {} /\ stored = {}
    /\ reply = [c \in Callers |-> {}]

TurnOf(c) == [by |-> c, id |-> number]

AOpen(c) ==
    /\ run = "free"
    /\ run' = "open" /\ number' = number + 1
    /\ payload' = Payload[c] /\ taker' = Nobody
    /\ UNCHANGED <<working, stored, reply>>

(* The taker may be gone before it starts.                                  *)
ATake(c) ==
    /\ run = "open" /\ payload = Payload[c]
    /\ working = {} /\ reply[c] = {}
    /\ run' = "taken" /\ taker' = c
    /\ working' \in {{}, {c}}
    /\ UNCHANGED <<number, payload, stored, reply>>

AStore(c) ==
    /\ run = "taken" /\ c \in working
    /\ \A t \in stored : t.id # number
    /\ stored' = stored \cup {TurnOf(c)}
    /\ UNCHANGED <<run, number, payload, taker, working, reply>>

ADrop(c) ==
    /\ c \in working
    /\ working' = working \ {c}
    /\ UNCHANGED <<run, number, payload, taker, stored, reply>>

(* The taker may not learn that its report was accepted.                    *)
AFinish(c) ==
    /\ run = "taken" /\ c \in working
    /\ working' = working \ {c}
    /\ \/ run' = "failed" /\ reply' = reply
       \/ /\ TurnOf(c) \in stored
          /\ run' = "done"
          /\ reply' \in {reply, [reply EXCEPT ![c] = {TurnOf(c)}]}
    /\ UNCHANGED <<number, payload, taker, stored>>

AReplay(c) ==
    /\ run = "done" /\ payload = Payload[c]
    /\ reply[c] = {}
    /\ reply' = [reply EXCEPT ![c] = {TurnOf(taker)}]
    /\ UNCHANGED <<run, number, payload, taker, working, stored>>

AFree ==
    /\ run \in {"done", "failed"}
    /\ run' = "free"
    /\ UNCHANGED <<number, payload, taker, working, stored, reply>>

ANext ==
    \/ \E c \in Callers :
          AOpen(c) \/ ATake(c) \/ AStore(c) \/ ADrop(c) \/ AFinish(c) \/ AReplay(c)
    \/ AFree

ASpec == AInit /\ [][ANext]_avars
=============================================================================
