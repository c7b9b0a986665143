---------------------------- MODULE RequestLine -----------------------------
(***************************************************************************)
(* What the service promises its clients when nyx answers synchronously:   *)
(* requests are decided one at a time, as they arrive.  A request is       *)
(* refused, or joins a line that is served strictly in order; everyone in  *)
(* the line is served, once, with the answer to his own request.           *)
(***************************************************************************)
EXTENDS Naturals, Sequences

CONSTANT MaxRequests

VARIABLES asked,    \* number of requests that have arrived
          line,     \* the accepted ones that wait for their answer
          outcome   \* what each request has come to

vars == <<asked, line, outcome>>

Decided(k) == outcome[k] # "none" \/ \E i \in DOMAIN line : line[i] = k

Init ==
  /\ asked = 0
  /\ line = <<>>
  /\ outcome = [k \in 1..MaxRequests |-> "none"]

\* Some requests are refused on sight.
Ask ==
  /\ asked < MaxRequests
  /\ asked > 0 => Decided(asked)
  /\ asked' = asked + 1
  /\ outcome' \in {outcome, [outcome EXCEPT ![asked + 1] = "refused"]}
  /\ UNCHANGED line

Refuse ==
  /\ asked > 0 /\ ~Decided(asked)
  /\ outcome' = [outcome EXCEPT ![asked] = "refused"]
  /\ UNCHANGED <<asked, line>>

Join ==
  /\ asked > 0 /\ ~Decided(asked)
  /\ line' = Append(line, asked)
  /\ UNCHANGED <<asked, outcome>>

Serve ==
  /\ line # <<>>
  /\ outcome' = [outcome EXCEPT ![Head(line)] = "served"]
  /\ line' = Tail(line)
  /\ UNCHANGED asked

Next == Ask \/ Refuse \/ Join \/ Serve

SafeSpec == Init /\ [][Next]_vars

Spec == SafeSpec /\ WF_vars(Refuse \/ Join) /\ WF_vars(Serve)
=============================================================================
