---------------------------- MODULE KeyedDelivery ----------------------------
(***************************************************************************)
(* What an outbox promises to those who put messages into it, without rows, *)
(* claims, leases, attempts or processes: callers with one key are given the *)
(* same box; a box waits until its message was handed over or it is given up; *)
(* only what waits is handed over; a box that was given up may be taken up    *)
(* again, and a sent one is closed for good.                                *)
(***************************************************************************)
EXTENDS Naturals

CONSTANTS Callers, KeyOf, NoKey, Boxes

VARIABLES
    box,        \* "none", "waiting", "sent" or "dead"
    key,        \* the key of each box
    given,      \* the box that a caller was given, or NoBox
    handed      \* the boxes whose message was handed over, once or more often

avars == <<box, key, given, handed>>

NoBox == 0

AInit ==
    /\ box = [b \in Boxes |-> "none"]
    /\ key = [b \in Boxes |-> NoKey]
    /\ given = [c \in Callers |-> NoBox]
    /\ handed = {}

Give(c, b) == given[c] = NoBox /\ given' = [given EXCEPT ![c] = b]

Reuse(c, b) ==
    /\ Give(c, b)
    /\ box[b] # "none" /\ key[b] = KeyOf[c] /\ KeyOf[c] # NoKey
    /\ UNCHANGED <<box, key, handed>>

Fill(c, b) ==
    /\ Give(c, b)
    /\ box[b] = "none" /\ \A a \in Boxes : key[a] = KeyOf[c] => KeyOf[c] = NoKey
    /\ box' = [box EXCEPT ![b] = "waiting"]
    /\ key' = [key EXCEPT ![b] = KeyOf[c]]
    /\ UNCHANGED handed

HandOver(b) ==
    /\ box[b] = "waiting"
    /\ handed' = handed \cup {b}
    /\ UNCHANGED <<box, key, given>>

Settle(b) ==
    /\ box[b] = "waiting"
    /\ \/ b \in handed /\ box' = [box EXCEPT ![b] = "sent"]
       \/ box' = [box EXCEPT ![b] = "dead"]
    /\ UNCHANGED <<key, given, handed>>

Revive(bs) ==
    /\ \A b \in bs : box[b] = "dead"
    /\ box' = [b \in Boxes |-> IF b \in bs THEN "waiting" ELSE box[b]]
    /\ UNCHANGED <<key, given, handed>>

ANext ==
    \/ \E b \in Boxes :
          \/ \E c \in Callers : Reuse(c, b) \/ Fill(c, b)
          \/ HandOver(b) \/ Settle(b)
    \/ \E bs \in SUBSET Boxes : Revive(bs)

ASpec == AInit /\ [][ANext]_avars
=============================================================================
