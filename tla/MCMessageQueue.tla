--------------------------- MODULE MCMessageQueue ---------------------------
(* Two threads add three messages; the dispatch thread drains them.        *)
EXTENDS MessageQueue
=============================================================================
