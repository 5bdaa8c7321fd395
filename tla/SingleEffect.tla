---------------------------- MODULE SingleEffect ----------------------------
(***************************************************************************)
(* What is promised to whoever orders an effect at a provider, without rows, *)
(* messages, handlers or tokens: an order is performed once at most, however *)
(* often it is taken up again; what is said to have succeeded was performed  *)
(* and stands; an order that was refused is not performed, then or later;    *)
(* and a halted one is not performed until work is resumed.                  *)
(***************************************************************************)
CONSTANT Orders

VARIABLES
    word,       \* of each order: "none", "open", "succeeded", "failed", "refused", "void"
    done,       \* how often each was performed
    halted      \* the orders that must not be

avars == <<word, done, halted>>

AInit ==
    /\ word = [o \in Orders |-> "none"]
    /\ done = [o \in Orders |-> 0]
    /\ halted = {}

Says(o, answer) == word' = [word EXCEPT ![o] = answer]

(* An order is taken up, also once more after it has failed.                *)
Take(o) == word[o] \in {"none", "failed"} /\ Says(o, "open") /\ UNCHANGED <<done, halted>>

Perform(o) ==
    /\ word[o] = "open"
    /\ o \notin halted
    /\ done[o] = 0
    /\ done' = [done EXCEPT ![o] = 1]
    /\ UNCHANGED <<word, halted>>

Succeed(o) == word[o] = "open" /\ done[o] = 1 /\ Says(o, "succeeded") /\ UNCHANGED <<done, halted>>

Fail(o) == word[o] = "open" /\ Says(o, "failed") /\ UNCHANGED <<done, halted>>

Refuse(o) ==
    /\ word[o] \in {"none", "open"}
    /\ done[o] = 0
    /\ Says(o, "refused")
    /\ UNCHANGED <<done, halted>>

(* An accident after which nothing is promised of this order.               *)
Lapse(o) ==
    /\ word[o] # "void"
    /\ Says(o, "void")
    /\ done' = [done EXCEPT ![o] = 0]
    /\ UNCHANGED halted

Halt == halted \subseteq halted' /\ UNCHANGED <<word, done>>

Resume == halted' = {} /\ UNCHANGED <<word, done>>

ANext ==
    \/ \E o \in Orders :
          Take(o) \/ Perform(o) \/ Succeed(o) \/ Fail(o) \/ Refuse(o) \/ Lapse(o)
    \/ Halt \/ Resume

ASpec == AInit /\ [][ANext]_avars
=============================================================================
