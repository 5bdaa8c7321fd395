------------------------------ MODULE MCOutbox ------------------------------
(* Small instances of Outbox for TLC.                                      *)
EXTENDS Outbox, TLC

CONSTANTS p1, p2, p3, d1, d2, d3

(* p1 and p2 enqueue the same document twice; p3 has no key.                *)
MCKey == [p \in Producers |-> IF p = p3 THEN NoKey ELSE "key"]

AnyDispatcher == Permutations(Dispatchers)
=============================================================================
