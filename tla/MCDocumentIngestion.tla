------------------------ MODULE MCDocumentIngestion ------------------------
(* Small instances of DocumentIngestion for TLC.                            *)
EXTENDS DocumentIngestion, TLC

CONSTANTS d1, d2, w1, w2

AnyDocument == Permutations(Docs)
AnyWorker == Permutations(Workers)
AnyOfBoth == AnyDocument \cup AnyWorker
=============================================================================
