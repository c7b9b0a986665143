----------------------- MODULE RequestMessagesProofs ------------------------
(***************************************************************************)
(* Proofs about RequestMessages, for any set of messages and any finite    *)
(* set of threads: the references balance, so that no message dies while   *)
(* its pointer may be used.                                                *)
(***************************************************************************)
EXTENDS RequestMessages, FiniteSetTheorems, TLAPS

\* Where a message can be: what is registered was delivered; who is in the
\* callback of a message, or will be called back for it, has it registered.
Placement ==
  /\ registered \subseteq delivered
  /\ m_clients \subseteq registered /\ owed \subseteq registered
  /\ method # "none" => message["main"] \in delivered
  /\ method = "parse" => message["main"] \notin registered
  /\ method = "command" => message["main"] \in registered
  /\ \A t \in Threads : pc[t] # "idle" => message[t] \in registered
  /\ pc["main"] # "idle" => method = "return"

MessagesInv == TypeOK /\ Placement /\ ReferencesBalance

-----------------------------------------------------------------------------
(* Counting callbacks.                                                     *)

LEMMA ThreadsFinite == IsFiniteSet(Threads) /\ "main" \in Threads
BY MessagesAssumption, FS_Singleton, FS_Union DEF MessagesAssumption, Threads

LEMMA HoldersFinite ==
  ASSUME NEW m
  PROVE  IsFiniteSet(HeldByCallbacks(m)) /\ Cardinality(HeldByCallbacks(m)) \in Nat
<1>1. HeldByCallbacks(m) \in SUBSET Threads
  BY DEF HeldByCallbacks
<1> QED
  BY <1>1, ThreadsFinite, FS_Subset, FS_CardinalityType

\* A thread that changes nothing but its place, and not into or out of the
\* lines where it has a reference, does not change the count.
LEMMA SameHolders ==
  ASSUME NEW m, \A t \in Threads :
           (message[t] = m /\ pc[t] \in {"respond", "erase"})
             <=> (message'[t] = m /\ pc'[t] \in {"respond", "erase"})
  PROVE  HeldByCallbacks(m)' = HeldByCallbacks(m)
BY DEF HeldByCallbacks

-----------------------------------------------------------------------------
LEMMA InitMessagesInv == Init => MessagesInv
<1> SUFFICES ASSUME Init PROVE MessagesInv
  OBVIOUS
<1>1. TypeOK
  BY DEF Init, TypeOK
<1>2. Placement
  BY ThreadsFinite DEF Init, Placement
<1>3. ReferencesBalance
  <2> SUFFICES ASSUME NEW m \in Messages
               PROVE  refcount[m] = HeldByMethod(m) + Cardinality(HeldByCallbacks(m))
                                      + (IF m \in registered THEN 1 ELSE 0)
    BY DEF ReferencesBalance
  <2>1. HeldByCallbacks(m) = {}
    BY DEF Init, HeldByCallbacks
  <2> QED
    BY <2>1, FS_EmptySet DEF Init, HeldByMethod
<1> QED
  BY <1>1, <1>2, <1>3 DEF MessagesInv

\* What one message has, before a step.
LEMMA BalanceOf ==
  ASSUME MessagesInv, NEW m \in Messages
  PROVE  /\ refcount[m] = HeldByMethod(m) + Cardinality(HeldByCallbacks(m))
                            + (IF m \in registered THEN 1 ELSE 0)
         /\ refcount[m] \in Nat /\ HeldByMethod(m) \in Nat
         /\ Cardinality(HeldByCallbacks(m)) \in Nat
BY HoldersFinite DEF MessagesInv, TypeOK, ReferencesBalance, HeldByMethod

LEMMA NextTypeOK ==
  ASSUME MessagesInv, [Next]_vars, ReferencesBalance' PROVE TypeOK'
<1> USE ThreadsFinite DEF MessagesInv, TypeOK, Placement
<1>1. ASSUME NEW m \in Messages, refcount' \in [Messages -> Int]
      PROVE  refcount'[m] >= 0
  <2>1. refcount'[m] = HeldByMethod(m)' + Cardinality(HeldByCallbacks(m)')
                        + (IF m \in registered' THEN 1 ELSE 0)
    BY DEF ReferencesBalance
  <2>2. HeldByCallbacks(m)' \in SUBSET Threads
    BY DEF HeldByCallbacks
  <2>3. Cardinality(HeldByCallbacks(m)') \in Nat
    BY <2>2, FS_Subset, FS_CardinalityType
  <2>4. HeldByMethod(m)' \in Nat
    BY DEF HeldByMethod
  <2> QED
    BY <2>1, <2>3, <2>4
<1>2. refcount' \in [Messages -> Int] => refcount' \in [Messages -> Nat]
  BY <1>1
<1>3. ASSUME NEW m \in Messages, Deliver(m) PROVE TypeOK'
  BY <1>3 DEF Deliver
<1>4. CASE ParseError
  BY <1>4 DEF ParseError
<1>5. CASE Register
  BY <1>5 DEF Register, Ref
<1>6. CASE Dispatch
  BY <1>6 DEF Dispatch, Goto
<1>7. CASE Return
  BY <1>7, <1>2 DEF Return, Unref, callbackVars
<1>8. CASE Release
  BY <1>8, <1>2 DEF Release, Unref, callbackVars
<1>9. ASSUME NEW t \in Callers, NEW m \in Messages, Begin(t, m) PROVE TypeOK'
  BY <1>9 DEF Begin, Goto, busVars, Threads
<1>10. ASSUME NEW t \in Threads, LookUp(t) PROVE TypeOK'
  BY <1>10 DEF LookUp, Goto, busVars
<1>11. ASSUME NEW t \in Threads, Wrap(t) PROVE TypeOK'
  BY <1>11 DEF Wrap, Ref, Goto, busVars
<1>12. ASSUME NEW t \in Threads, Respond(t) PROVE TypeOK'
  BY <1>12 DEF Respond, Goto, busVars
<1>13. ASSUME NEW t \in Threads, Erase(t) PROVE TypeOK'
  BY <1>13, <1>2 DEF Erase, Unref, Goto, busVars
<1>14. CASE UNCHANGED vars
  BY <1>14 DEF vars
<1> QED
  BY <1>3, <1>4, <1>5, <1>6, <1>7, <1>8, <1>9, <1>10, <1>11, <1>12, <1>13, <1>14
     DEF Next, MethodStep, CallbackStep

LEMMA NextPlacement ==
  ASSUME MessagesInv, [Next]_vars PROVE Placement'
<1> USE ThreadsFinite DEF MessagesInv, TypeOK, Placement
<1>3. ASSUME NEW m \in Messages, Deliver(m) PROVE Placement'
  BY <1>3 DEF Deliver
<1>4. CASE ParseError
  BY <1>4 DEF ParseError
<1>5. CASE Register
  BY <1>5 DEF Register, Ref
<1>6. CASE Dispatch
  BY <1>6 DEF Dispatch, Goto
<1>7. CASE Return
  BY <1>7 DEF Return, Unref, callbackVars
<1>8. CASE Release
  BY <1>8 DEF Release, Unref, callbackVars
<1>9. ASSUME NEW t \in Callers, NEW m \in Messages, Begin(t, m) PROVE Placement'
  BY <1>9, MessagesAssumption DEF Begin, Goto, busVars, Threads, MessagesAssumption
<1>10. ASSUME NEW t \in Threads, LookUp(t) PROVE Placement'
  BY <1>10 DEF LookUp, Goto, busVars
<1>11. ASSUME NEW t \in Threads, Wrap(t) PROVE Placement'
  BY <1>11 DEF Wrap, Ref, Goto, busVars
<1>12. ASSUME NEW t \in Threads, Respond(t) PROVE Placement'
  BY <1>12 DEF Respond, Goto, busVars
<1>13. ASSUME NEW t \in Threads, Erase(t) PROVE Placement'
  BY <1>13 DEF Erase, Unref, Goto, busVars
<1>14. CASE UNCHANGED vars
  BY <1>14 DEF vars
<1> QED
  BY <1>3, <1>4, <1>5, <1>6, <1>7, <1>8, <1>9, <1>10, <1>11, <1>12, <1>13, <1>14
     DEF Next, MethodStep, CallbackStep

-----------------------------------------------------------------------------
(* The references of message m balance after each step.                    *)

LEMMA NextReferencesBalance ==
  ASSUME MessagesInv, [Next]_vars PROVE ReferencesBalance'
<1> USE ThreadsFinite DEF Placement
<1>0. TypeOK /\ Placement
  BY DEF MessagesInv
<1> DEFINE Balanced(m) == refcount[m] = HeldByMethod(m) + Cardinality(HeldByCallbacks(m))
                                          + (IF m \in registered THEN 1 ELSE 0)
<1> SUFFICES ASSUME NEW m \in Messages PROVE Balanced(m)'
  BY DEF ReferencesBalance
<1>1. Balanced(m) /\ refcount[m] \in Nat /\ HeldByMethod(m) \in Nat
        /\ Cardinality(HeldByCallbacks(m)) \in Nat
  BY BalanceOf
<1>2. refcount \in [Messages -> Nat] /\ message \in [Threads -> Messages]
        /\ pc \in [Threads -> {"idle", "lookup", "wrap", "respond", "erase"}]
        /\ method \in {"none", "parse", "command", "return", "release"}
  BY <1>0 DEF TypeOK
\* The callbacks that hold m do not change, then the rest is arithmetic.
<1>3. ASSUME NEW n \in Messages, Deliver(n) PROVE Balanced(m)'
  <2>1. method = "none" /\ pc["main"] = "idle" /\ n \notin registered
    BY <1>3, <1>0 DEF Deliver
  <2>2. HeldByCallbacks(m)' = HeldByCallbacks(m)
    BY <1>3, <1>2, <2>1 DEF Deliver, HeldByCallbacks
  <2>3. m = n => HeldByCallbacks(m) = {}
    BY <1>0, <2>1 DEF HeldByCallbacks
  <2>4. m = n => refcount[m] = 0 /\ Cardinality(HeldByCallbacks(m)) = 0
    <3>1. Cardinality({}) = 0
      BY FS_EmptySet
    <3>2. HeldByMethod(m) = 0 /\ (m = n => m \notin registered)
      BY <2>1 DEF HeldByMethod
    <3>3. m = n => Cardinality(HeldByCallbacks(m)) = 0
      BY <3>1, <2>3
    <3> QED
      BY <1>1, <3>2, <3>3
  <2>5. HeldByMethod(m) = 0 /\ HeldByMethod(m)' = (IF m = n THEN 2 ELSE 0)
    BY <1>3, <1>2, <2>1 DEF Deliver, HeldByMethod
  <2>6. registered' = registered /\ refcount'[m] = (IF m = n THEN 2 ELSE refcount[m])
    BY <1>3, <1>2 DEF Deliver
  <2> QED
    BY <1>1, <2>1, <2>2, <2>4, <2>5, <2>6
<1>4. CASE ParseError
  BY <1>4, <1>1, <1>2 DEF ParseError, HeldByMethod, HeldByCallbacks
<1>5. CASE Register
  <2>1. HeldByCallbacks(m)' = HeldByCallbacks(m) /\ HeldByMethod(m)' = HeldByMethod(m)
    BY <1>5, <1>2 DEF Register, HeldByCallbacks, HeldByMethod
  <2>2. message["main"] \notin registered
    BY <1>5, <1>0 DEF Register
  <2>3. /\ refcount'[m] = refcount[m] + (IF m = message["main"] THEN 1 ELSE 0)
        /\ registered' = registered \cup {message["main"]}
    BY <1>5, <1>2 DEF Register, Ref
  <2>4. CASE m = message["main"]
    BY <1>1, <2>1, <2>2, <2>3, <2>4
  <2>5. CASE m # message["main"]
    BY <1>1, <2>1, <2>3, <2>5
  <2> QED
    BY <2>4, <2>5
<1>6. CASE Dispatch
  <2>1. HeldByCallbacks(m)' = HeldByCallbacks(m)
    BY <1>6, <1>2, <1>0 DEF Dispatch, Goto, HeldByCallbacks
  <2> QED
    BY <1>6, <1>1, <1>2, <2>1 DEF Dispatch, HeldByMethod
<1>7. CASE Return
  <2>1. HeldByCallbacks(m)' = HeldByCallbacks(m)
    BY <1>7 DEF Return, callbackVars, HeldByCallbacks
  <2>2. refcount'[m] = refcount[m] - (IF m = message["main"] THEN 1 ELSE 0)
    BY <1>7, <1>2 DEF Return, Unref
  <2>3. HeldByMethod(m) - HeldByMethod(m)' = (IF m = message["main"] THEN 1 ELSE 0)
    BY <1>7, <1>2 DEF Return, callbackVars, HeldByMethod
  <2>4. HeldByMethod(m)' \in Nat /\ registered' = registered
    BY <1>7 DEF Return, callbackVars, HeldByMethod
  <2> QED
    BY <1>1, <2>1, <2>2, <2>3, <2>4
<1>8. CASE Release
  <2>1. HeldByCallbacks(m)' = HeldByCallbacks(m)
    BY <1>8 DEF Release, callbackVars, HeldByCallbacks
  <2>2. refcount'[m] = refcount[m] - (IF m = message["main"] THEN 1 ELSE 0)
    BY <1>8, <1>2 DEF Release, Unref
  <2>3. HeldByMethod(m) - HeldByMethod(m)' = (IF m = message["main"] THEN 1 ELSE 0)
    BY <1>8, <1>2 DEF Release, callbackVars, HeldByMethod
  <2>4. HeldByMethod(m)' \in Nat /\ registered' = registered
    BY <1>8 DEF Release, callbackVars, HeldByMethod
  <2> QED
    BY <1>1, <2>1, <2>2, <2>3, <2>4
<1>9. ASSUME NEW t \in Callers, NEW n \in Messages, Begin(t, n) PROVE Balanced(m)'
  <2>1. HeldByCallbacks(m)' = HeldByCallbacks(m)
    BY <1>9, <1>2 DEF Begin, Goto, HeldByCallbacks, Threads
  <2>2. HeldByMethod(m)' = HeldByMethod(m)
    BY <1>9, <1>2, MessagesAssumption DEF Begin, busVars, HeldByMethod, Threads, MessagesAssumption
  <2> QED
    BY <1>9, <1>1, <2>1, <2>2 DEF Begin
<1>10. ASSUME NEW t \in Threads, LookUp(t) PROVE Balanced(m)'
  <2>1. HeldByCallbacks(m)' = HeldByCallbacks(m)
    BY <1>10, <1>2 DEF LookUp, Goto, HeldByCallbacks
  <2> QED
    BY <1>10, <1>1, <2>1 DEF LookUp, busVars, HeldByMethod
\* Wrap and Erase are where a callback takes its reference, and drops it.
<1>11. ASSUME NEW t \in Threads, Wrap(t) PROVE Balanced(m)'
  <2>1. HeldByCallbacks(m)' =
          IF m = message[t] THEN HeldByCallbacks(m) \cup {t} ELSE HeldByCallbacks(m)
    BY <1>11, <1>2 DEF Wrap, Goto, HeldByCallbacks
  <2>2. t \notin HeldByCallbacks(m)
    BY <1>11 DEF Wrap, HeldByCallbacks
  <2>3. Cardinality(HeldByCallbacks(m)') =
          Cardinality(HeldByCallbacks(m)) + (IF m = message[t] THEN 1 ELSE 0)
    <3>1. IsFiniteSet(HeldByCallbacks(m))
      BY HoldersFinite
    <3>2. CASE m = message[t]
      BY <3>1, <3>2, <2>1, <2>2, FS_AddElement
    <3>3. CASE m # message[t]
      BY <3>3, <1>1, <2>1
    <3> QED
      BY <3>2, <3>3
  <2>4. refcount'[m] = refcount[m] + (IF m = message[t] THEN 1 ELSE 0)
    BY <1>11, <1>2 DEF Wrap, Ref
  <2>5. HeldByMethod(m)' = HeldByMethod(m) /\ registered' = registered
    BY <1>11 DEF Wrap, busVars, HeldByMethod
  <2> QED
    BY <1>1, <2>3, <2>4, <2>5
<1>12. ASSUME NEW t \in Threads, Respond(t) PROVE Balanced(m)'
  <2>1. HeldByCallbacks(m)' = HeldByCallbacks(m)
    BY <1>12, <1>2 DEF Respond, Goto, HeldByCallbacks
  <2> QED
    BY <1>12, <1>1, <2>1 DEF Respond, busVars, HeldByMethod
<1>13. ASSUME NEW t \in Threads, Erase(t) PROVE Balanced(m)'
  <2>1. HeldByCallbacks(m)' =
          IF m = message[t] THEN HeldByCallbacks(m) \ {t} ELSE HeldByCallbacks(m)
    BY <1>13, <1>2 DEF Erase, Goto, HeldByCallbacks
  <2>2. m = message[t] => t \in HeldByCallbacks(m)
    BY <1>13 DEF Erase, HeldByCallbacks
  <2>3. Cardinality(HeldByCallbacks(m)') =
          Cardinality(HeldByCallbacks(m)) - (IF m = message[t] THEN 1 ELSE 0)
    <3>1. IsFiniteSet(HeldByCallbacks(m))
      BY HoldersFinite
    <3>2. CASE m = message[t]
      BY <3>1, <3>2, <2>1, <2>2, FS_RemoveElement
    <3>3. CASE m # message[t]
      BY <3>3, <1>1, <2>1
    <3> QED
      BY <3>2, <3>3
  <2>4. refcount'[m] = refcount[m] - (IF m = message[t] THEN 1 ELSE 0)
    BY <1>13, <1>2 DEF Erase, Unref
  <2>5. HeldByMethod(m)' = HeldByMethod(m) /\ registered' = registered
    BY <1>13 DEF Erase, busVars, HeldByMethod
  <2> QED
    BY <1>1, <2>3, <2>4, <2>5
<1>14. CASE UNCHANGED vars
  BY <1>14, <1>1 DEF vars, HeldByMethod, HeldByCallbacks
<1> QED
  BY <1>3, <1>4, <1>5, <1>6, <1>7, <1>8, <1>9, <1>10, <1>11, <1>12, <1>13, <1>14
     DEF Next, MethodStep, CallbackStep

-----------------------------------------------------------------------------
\* The inductive invariant: types, who can hold which message, and the count
\* of the references of each (src/CecLunaService.cpp lines 53-76, 294-321).
THEOREM MessagesInvariant == Spec => []MessagesInv
<1>1. MessagesInv /\ [Next]_vars => MessagesInv'
  BY NextReferencesBalance, NextPlacement, NextTypeOK DEF MessagesInv
<1> QED
  BY InitMessagesInv, <1>1, PTL DEF Spec

\* For any number of requests and threads the references of a message are
\* those of the method, of its callbacks, and the one that nobody gives back.
THEOREM ReferencesAreCounted == Spec => []ReferencesBalance
<1>1. MessagesInv => ReferencesBalance
  BY DEF MessagesInv
<1> QED
  BY <1>1, MessagesInvariant, PTL

\* For any number of requests and threads a message is alive whenever the
\* method or a callback may use its pointer: its registration holds it.
THEOREM NeverUsedAfterRelease == Spec => []AliveWhenUsed
<1>1. MessagesInv => AliveWhenUsed
  <2> SUFFICES ASSUME MessagesInv PROVE AliveWhenUsed
    OBVIOUS
  <2>1. message \in [Threads -> Messages]
    BY DEF MessagesInv, TypeOK
  <2>2. ASSUME method # "none" PROVE refcount[message["main"]] > 0
    <3>1. message["main"] \in Messages
      BY <2>1, ThreadsFinite
    <3>2. HeldByMethod(message["main"]) > 0
      BY <2>2 DEF HeldByMethod
    <3> QED
      BY <3>1, <3>2, BalanceOf
  <2>3. ASSUME NEW t \in Threads, pc[t] # "idle" PROVE refcount[message[t]] > 0
    <3>1. message[t] \in Messages /\ message[t] \in registered
      BY <2>1, <2>3 DEF MessagesInv, Placement
    <3> QED
      BY <3>1, BalanceOf
  <2> QED
    BY <2>2, <2>3 DEF AliveWhenUsed
<1> QED
  BY <1>1, MessagesInvariant, PTL

\* The types of the messages, and of the locals of the threads that use them.
THEOREM MessagesTypes == Spec => []TypeOK
<1>1. MessagesInv => TypeOK
  BY DEF MessagesInv
<1> QED
  BY <1>1, MessagesInvariant, PTL
=============================================================================
