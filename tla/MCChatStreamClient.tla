------------------------- MODULE MCChatStreamClient -------------------------
(* Small instances of ChatStreamClient for TLC: the bounds are in the cfg.  *)
EXTENDS ChatStreamClient
=============================================================================
