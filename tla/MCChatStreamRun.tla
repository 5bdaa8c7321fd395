-------------------------- MODULE MCChatStreamRun --------------------------
(* Small instances of ChatStreamRun for TLC.                               *)
EXTENDS ChatStreamRun, TLC

CONSTANTS r1, r2, r3, p1, p2

(* r1 and r2 share a process, r3 is served by another.                     *)
MCHome == [r \in Requests |-> IF r = r3 THEN p2 ELSE p1]

SameFingerprint == [r \in Requests |-> "fp"]

(* r3 reuses the key for another message.                                  *)
OneDiffers == [r \in Requests |-> IF r = r3 THEN "other" ELSE "fp"]

(* Two requests of one process are interchangeable.                        *)
SameProcess == Permutations({r1, r2})
=============================================================================
