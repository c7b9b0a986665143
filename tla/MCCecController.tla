-------------------------- MODULE MCCecController ---------------------------
(* LGTVCecHandler, which takes nothing, DefaultCecHandler, and two handlers *)
(* of the rank between them that take some commands, as HandlerRank allows. *)
EXTENDS CecController

CONSTANTS lgtv, other1, other2, scan, send, config

MCRank == [h \in Handlers |-> CASE h = lgtv -> 0 [] h = Default -> 2 [] OTHER -> 1]
MCTakes ==
  [h \in Handlers |-> CASE h = Default -> Commands
                        [] h = lgtv -> {}
                        [] h = other1 -> {send}
                        [] OTHER -> {send, config}]
=============================================================================
