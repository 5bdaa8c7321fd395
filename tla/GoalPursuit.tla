----------------------------- MODULE GoalPursuit -----------------------------
(***************************************************************************)
(* What an autonomous loop promises to whoever sets it a goal, without       *)
(* leases, owner ids, ledgers or cycles: a goal that waits is taken by one   *)
(* process, which alone gives it back or hands it out; it is handed out once *)
(* in its life, closed once, and then left alone.  It is void when whoever   *)
(* has taken it cannot tell whether it was handed out.                       *)
(***************************************************************************)
CONSTANTS Goals, Takers

VARIABLES
    stage,      \* "none", "waiting", "taken", "handed", "closed", "left", "deleted", "void"
    taker       \* the process that has taken a goal, as a set

avars == <<stage, taker>>

AInit ==
    /\ stage = [g \in Goals |-> "none"]
    /\ taker = [g \in Goals |-> {}]

Becomes(g, there, ps) ==
    /\ stage' = [stage EXCEPT ![g] = there]
    /\ taker' = [taker EXCEPT ![g] = ps]

Set(g) == stage[g] = "none" /\ Becomes(g, "waiting", {})

Take(p, g) ==
    /\ stage[g] = "waiting"
    /\ \A h \in Goals : taker[h] = {}
    /\ Becomes(g, "taken", {p})

GiveBack(p, g) == taker[g] = {p} /\ Becomes(g, "waiting", {})

HandOut(p, g) == taker[g] = {p} /\ Becomes(g, "handed", {})

Close(g) == stage[g] = "handed" /\ Becomes(g, "closed", {})

(* An accident: nobody will take it up again.                               *)
Leave(g) == stage[g] \in {"waiting", "taken", "handed"} /\ Becomes(g, "left", {})

Delete(g) == stage[g] \notin {"none", "void"} /\ Becomes(g, "deleted", {})

(* The pursuit fails with the goal handed out: it may be handed out again.    *)
Lapse(g) ==
    /\ stage[g] \in {"taken", "handed", "closed", "left", "deleted"}
    /\ Becomes(g, "void", {})

ANext ==
    \E g \in Goals :
        \/ Set(g) \/ Close(g) \/ Leave(g) \/ Delete(g) \/ Lapse(g)
        \/ \E p \in Takers : Take(p, g) \/ GiveBack(p, g) \/ HandOut(p, g)

ASpec == AInit /\ [][ANext]_avars
=============================================================================
