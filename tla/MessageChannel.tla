--------------------------- MODULE MessageChannel ---------------------------
(***************************************************************************)
(* What MessageQueue promises to its one client, DefaultCecHandler: a FIFO *)
(* channel from the threads that call addMessage to the dispatch thread.   *)
(* A message is taken once, in the order of the addMessage calls, and as   *)
(* long as the channel is open every message is taken.  Closing it drops   *)
(* what has not been taken.                                                *)
(***************************************************************************)
EXTENDS Sequences

CONSTANT Messages

VARIABLES chan,     \* messages added and not yet taken, oldest first
          taken,    \* messages the dispatch thread has taken, in order
          closed    \* the queue has been destroyed

vars == <<chan, taken, closed>>

Elements(s) == {s[i] : i \in DOMAIN s}

Init == chan = <<>> /\ taken = <<>> /\ closed = FALSE

Send(m) ==
  /\ ~closed
  /\ m \notin Elements(chan) \cup Elements(taken)
  /\ chan' = Append(chan, m)
  /\ UNCHANGED <<taken, closed>>

Receive ==
  /\ ~closed
  /\ chan # <<>>
  /\ taken' = Append(taken, Head(chan))
  /\ chan' = Tail(chan)
  /\ UNCHANGED closed

Close ==
  /\ ~closed
  /\ closed' = TRUE
  /\ chan' = <<>>
  /\ UNCHANGED taken

Next == Receive \/ Close \/ \E m \in Messages : Send(m)

\* The safety part, which the proofs are about.
SafeSpec == Init /\ [][Next]_vars

Spec == SafeSpec /\ WF_vars(Receive)
=============================================================================
