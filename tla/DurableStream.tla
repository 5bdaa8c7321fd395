--------------------------- MODULE DurableStream ---------------------------
(***************************************************************************)
(* What a durable chat stream promises to its clients, without rows,        *)
(* tokens, leases, threads or processes: one execution writes one log,      *)
(* which is closed once; every follower reads the log from its own          *)
(* position, in order and without repeats, and stops only at its end.       *)
(***************************************************************************)
EXTENDS Naturals, Sequences

CONSTANTS Followers, Kinds, Outcomes

VARIABLES
    executed,   \* the requests whose source has been started
    log,        \* the events written so far
    outcome,    \* "open", an outcome, or "deleted"
    from,       \* the position a follower started after
    sent,       \* what it has been sent
    state       \* "out", "in", "ended" or "left"

avars == <<executed, log, outcome, from, sent, state>>

AInit ==
    /\ executed = {} /\ log = <<>> /\ outcome = "open"
    /\ from = [f \in Followers |-> 0]
    /\ sent = [f \in Followers |-> <<>>]
    /\ state = [f \in Followers |-> "out"]

Enter(f) ==
    /\ state[f] = "out"
    /\ from'[f] \in Nat /\ from' = [from EXCEPT ![f] = from'[f]]
    /\ state' = [state EXCEPT ![f] = "in"]
    /\ UNCHANGED <<executed, log, outcome, sent>>

Execute(f) ==
    /\ executed = {}
    /\ executed' = {f}
    /\ UNCHANGED <<log, outcome, from, sent, state>>

Write ==
    /\ outcome = "open"
    /\ \E k \in Kinds : log' = Append(log, k)
    /\ outcome' \in {"open"} \cup Outcomes
    /\ UNCHANGED <<executed, from, sent, state>>

Close ==
    /\ outcome = "open" /\ log # <<>>
    /\ outcome' \in Outcomes
    /\ UNCHANGED <<executed, log, from, sent, state>>

Delete ==
    /\ outcome' = "deleted"
    /\ UNCHANGED <<executed, log, from, sent, state>>

Send(f) ==
    LET n == from[f] + Len(sent[f]) + 1 IN
    /\ state[f] = "in" /\ n <= Len(log)
    /\ sent' = [sent EXCEPT ![f] = Append(@, log[n])]
    /\ UNCHANGED <<executed, log, outcome, from, state>>

End(f) ==
    /\ state[f] = "in" /\ outcome # "open"
    /\ from[f] + Len(sent[f]) >= Len(log)
    /\ state' = [state EXCEPT ![f] = "ended"]
    /\ UNCHANGED <<executed, log, outcome, from, sent>>

(* Refused, told that the stream is gone, disconnected or lost with its      *)
(* process: any number at once; what the lost ones had is forgotten.        *)
Leave ==
    /\ UNCHANGED <<executed, log, outcome, from>>
    /\ \E fs \in SUBSET {f \in Followers : state[f] = "in"} :
        /\ state' = [f \in Followers |-> IF f \in fs THEN "left" ELSE state[f]]
        /\ \E lost \in SUBSET fs :
              sent' = [f \in Followers |-> IF f \in lost THEN <<>> ELSE sent[f]]

ANext ==
    \/ Leave \/ Write \/ Close \/ Delete
    \/ \E f \in Followers : Enter(f) \/ Execute(f) \/ Send(f) \/ End(f)

ASpec == AInit /\ [][ANext]_avars
=============================================================================
