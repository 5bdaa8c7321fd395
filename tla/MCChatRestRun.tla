--------------------------- MODULE MCChatRestRun ---------------------------
(* A small instance of ChatRestRun for TLC.                                *)
EXTENDS ChatRestRun, TLC

CONSTANTS r1, r2, r3, r4

(* r4 reuses the key for another message.                                  *)
MCFingerprint == [r \in Requests |-> IF r = r4 THEN "other" ELSE "same"]

SameMessage == Permutations({r1, r2, r3})
=============================================================================
