------------------------- MODULE MCProductivityTask -------------------------
(* A small instance of ProductivityTask for TLC: no symmetry, because the run *)
(* checks liveness.                                                        *)
EXTENDS ProductivityTask

MCFaults == {"crash", "database", "offline", "publish", "google", "channel"}
=============================================================================
