-------------------------- MODULE LifecycleProofs ---------------------------
(***************************************************************************)
(* Proofs about Lifecycle, for any number of signals and calls.            *)
(***************************************************************************)
EXTENDS Lifecycle, FiniteSetTheorems, TLAPS

Early == {"parse", "sigterm", "sigint", "new", "construct", "attach", "run"}
Outside == {"poll", "dispatch"}

\* Before the loop no signal has met it at work, and none is needed; a loop
\* that was stopped, and whatever comes after the loop, goes back to a signal
\* that found main outside the lock.
LoopHistory ==
  /\ stage \in Early => Interrupted \cap Running = {} /\ mainLoop \in {"null", "stopped"}
  /\ stage \in Running => mainLoop \in {"running", "stopped"}
  /\ stage \in Running /\ mainLoop = "stopped" => Interrupted \cap Outside # {}
  /\ stage = "unref" => Interrupted \cap Outside # {}
  /\ mainLoop = "freed" => Interrupted \cap Outside # {}

\* The signals are numbered, so that each one adds an element.
Numbered ==
  /\ IsFiniteSet(signals)
  /\ \A s \in signals : s[1] \in Nat /\ s[1] < Cardinality(signals)

\* Nobody but the thread of std::async starts work, and it starts with the
\* service; there are no more jobs of clients than there were calls.
WorkHasOrigin ==
  /\ jobs.clients <= calls
  /\ service = "none" => init = "none" /\ jobs.own = 0 /\ jobs.clients = 0
  /\ stage \in Early \ {"attach", "run"} => service = "none" /\ init = "none"
  /\ stage \in {"attach", "run", "unref", "destroy"} \cup Running => service = "alive"

LifecycleInv ==
  /\ TypeOK /\ LoopHistory /\ Numbered /\ WorkHasOrigin
  /\ InVainOnlyEarly /\ ReleasedLoopNeedsTwoSignals /\ FailedStartLeavesNothing

LEMMA InitLifecycleInv == Init => LifecycleInv
<1> SUFFICES ASSUME Init PROVE LifecycleInv
  OBVIOUS
<1>1. TypeOK /\ WorkHasOrigin
  BY LifecycleAssumption DEF LifecycleAssumption, Init, TypeOK, WorkHasOrigin, Early, Running
<1>2. LoopHistory /\ InVainOnlyEarly
  BY DEF Init, LoopHistory, InVainOnlyEarly, Early, Running, Outside, Interrupted
<1>3. Numbered
  BY FS_EmptySet DEF Init, Numbered
<1>4. ReleasedLoopNeedsTwoSignals /\ FailedStartLeavesNothing
  BY DEF Init, ReleasedLoopNeedsTwoSignals, FailedStartLeavesNothing
<1> QED
  BY <1>1, <1>2, <1>3, <1>4 DEF LifecycleInv

-----------------------------------------------------------------------------
(* One lemma for each part of the invariant.                               *)

LEMMA NextTypeOK == TypeOK /\ WorkHasOrigin /\ [Next]_vars => TypeOK' /\ WorkHasOrigin'
<1> USE LifecycleAssumption
    DEF LifecycleAssumption, TypeOK, WorkHasOrigin, Early, Running, Ended, Goto,
        objects, work, history
<1> SUFFICES ASSUME TypeOK, WorkHasOrigin, [Next]_vars PROVE TypeOK' /\ WorkHasOrigin'
  OBVIOUS
<1>1. CASE ParseOptions
  BY <1>1 DEF ParseOptions
<1>2. CASE InstallHandlers
  BY <1>2 DEF InstallHandlers, Handle, Signals
<1>3. CASE NewLoop
  BY <1>3 DEF NewLoop
<1>4. CASE ConstructService
  BY <1>4 DEF ConstructService
<1>5. CASE Attach
  BY <1>5 DEF Attach
<1>6. CASE Run
  BY <1>6 DEF Run
<1>7. CASE Iterate
  BY <1>7 DEF Iterate
<1>8. CASE PollReturns
  BY <1>8 DEF PollReturns
<1>9. CASE BusCall
  BY <1>9 DEF BusCall
<1>10. CASE Unref
  BY <1>10 DEF Unref
<1>11. CASE DestroyService
  BY <1>11 DEF DestroyService
<1>12. CASE Return
  BY <1>12 DEF Return
<1>13. CASE Exit
  BY <1>13 DEF Exit
<1>14. CASE Initialize
  BY <1>14 DEF Initialize, Use
<1>15. CASE HandleOwn
  BY <1>15 DEF HandleOwn, Use
<1>16. CASE HandleClients
  BY <1>16 DEF HandleClients, Use
<1>17. ASSUME NEW s \in Signals, Killed(s) PROVE TypeOK' /\ WorkHasOrigin'
  BY <1>17 DEF Killed
<1>18. ASSUME NEW s \in Signals, TermHandler(s) PROVE TypeOK' /\ WorkHasOrigin'
  BY <1>18 DEF TermHandler
<1>19. CASE UNCHANGED vars
  BY <1>19 DEF vars
<1> QED
  BY <1>1, <1>2, <1>3, <1>4, <1>5, <1>6, <1>7, <1>8, <1>9, <1>10, <1>11, <1>12,
     <1>13, <1>14, <1>15, <1>16, <1>17, <1>18, <1>19 DEF Next, MainStep

\* Only term_handler adds to the history of signals: one element, and a new one.
LEMMA SignalsStep ==
  ASSUME [Next]_vars
  PROVE  \/ UNCHANGED signals
         \/ \E s \in Signals : TermHandler(s)
BY DEF Next, MainStep, ParseOptions, InstallHandlers, Handle, NewLoop, ConstructService,
       Attach, Run, Iterate, PollReturns, BusCall, Unref, DestroyService, Return, Exit,
       Initialize, HandleOwn, HandleClients, Killed, vars, history

LEMMA OneMoreSignal ==
  ASSUME Numbered, NEW s \in Signals, TermHandler(s)
  PROVE  /\ Numbered'
         /\ Cardinality(signals) \in Nat
         /\ Cardinality(signals') = Cardinality(signals) + 1
         /\ Interrupted' = Interrupted \cup {stage}
<1> DEFINE new == <<Cardinality(signals), stage>>
<1>1. signals' = signals \cup {new}
  BY DEF TermHandler
<1>2. Cardinality(signals) \in Nat /\ IsFiniteSet(signals)
  BY FS_CardinalityType DEF Numbered
<1>3. new \notin signals
  <2> SUFFICES ASSUME new \in signals PROVE FALSE
    OBVIOUS
  <2>1. new[1] < Cardinality(signals)
    BY DEF Numbered
  <2> QED
    BY <2>1, <1>2
<1>4. Cardinality(signals') = Cardinality(signals) + 1 /\ IsFiniteSet(signals')
  <2> HIDE DEF new
  <2> QED
    BY <1>1, <1>2, <1>3, FS_AddElement
<1>5. new[1] \in Nat /\ new[1] < Cardinality(signals')
  BY <1>2, <1>4
<1>6. \A n \in signals : n[1] \in Nat /\ n[1] < Cardinality(signals')
  BY <1>2, <1>4 DEF Numbered
<1>7. Numbered'
  <2> HIDE DEF new
  <2> QED
    BY <1>1, <1>4, <1>5, <1>6 DEF Numbered
<1>8. Interrupted' = Interrupted \cup {stage}
  <2>1. new[2] = stage
    OBVIOUS
  <2> HIDE DEF new
  <2>2. Interrupted' = {n[2] : n \in signals \cup {new}}
    BY <1>1 DEF Interrupted
  <2>3. \A x : x \in {n[2] : n \in signals \cup {new}} <=> x \in Interrupted \/ x = new[2]
    BY Zenon DEF Interrupted
  <2> QED
    BY <2>1, <2>2, <2>3
<1> QED
  BY <1>2, <1>4, <1>7, <1>8

LEMMA NextNumbered == Numbered /\ [Next]_vars => Numbered'
<1> SUFFICES ASSUME Numbered, [Next]_vars PROVE Numbered'
  OBVIOUS
<1>1. CASE UNCHANGED signals
  BY <1>1 DEF Numbered
<1> QED
  BY <1>1, SignalsStep, OneMoreSignal

\* The steps of main keep the history of the loop; so does a signal that finds
\* main anywhere, since only one that finds it outside the lock stops the loop.
LEMMA NextLoopHistory ==
  TypeOK /\ LoopHistory /\ Numbered /\ InVainOnlyEarly /\ [Next]_vars
    => LoopHistory' /\ InVainOnlyEarly'
<1> SUFFICES ASSUME TypeOK, LoopHistory, Numbered, InVainOnlyEarly, [Next]_vars
             PROVE  LoopHistory' /\ InVainOnlyEarly'
  OBVIOUS
<1>1. CASE UNCHANGED signals
  <2>1. Interrupted' = Interrupted
    BY <1>1 DEF Interrupted
  <2> USE <2>1 DEF LoopHistory, InVainOnlyEarly, Early, Outside, Running, Ended, Goto,
        objects, work, history
  <2>2. CASE ParseOptions \/ InstallHandlers \/ NewLoop \/ ConstructService \/ Attach
    BY <2>2 DEF ParseOptions, InstallHandlers, Handle, NewLoop, ConstructService, Attach
  <2>3. CASE Run \/ Iterate \/ PollReturns \/ BusCall
    BY <2>3 DEF Run, Iterate, PollReturns, BusCall
  <2>4. CASE Unref \/ DestroyService \/ Return \/ Exit
    BY <2>4 DEF Unref, DestroyService, Return, Exit
  <2>5. CASE Initialize \/ HandleOwn \/ HandleClients
    BY <2>5 DEF Initialize, HandleOwn, HandleClients
  <2>6. ASSUME NEW s \in Signals, Killed(s) PROVE LoopHistory' /\ InVainOnlyEarly'
    BY <2>6 DEF Killed
  <2>7. ASSUME NEW s \in Signals, TermHandler(s) PROVE LoopHistory' /\ InVainOnlyEarly'
    BY <2>7, <1>1, OneMoreSignal
  <2>8. CASE UNCHANGED vars
    BY <2>8 DEF vars
  <2> QED
    BY <2>2, <2>3, <2>4, <2>5, <2>6, <2>7, <2>8 DEF Next, MainStep
<1>2. ASSUME NEW s \in Signals, TermHandler(s) PROVE LoopHistory' /\ InVainOnlyEarly'
  <2>1. Interrupted' = Interrupted \cup {stage}
    BY <1>2, OneMoreSignal
  <2>2. /\ stage' = IF stage = "locked" THEN "stuck" ELSE stage
        /\ mainLoop' = IF mainLoop = "running" /\ stage # "locked" THEN "stopped" ELSE mainLoop
    BY <1>2 DEF TermHandler, Goto
  <2> QED
    BY <2>1, <2>2 DEF TypeOK, LoopHistory, InVainOnlyEarly, Early, Outside, Running, Ended
<1> QED
  BY <1>1, <1>2, SignalsStep

\* A handler that finds the loop released is not the first one to run.
LEMMA NextReleasedLoop ==
  LoopHistory /\ Numbered /\ ReleasedLoopNeedsTwoSignals /\ [Next]_vars
    => ReleasedLoopNeedsTwoSignals'
<1> SUFFICES ASSUME LoopHistory, Numbered, ReleasedLoopNeedsTwoSignals, [Next]_vars,
                    "loop" \in dead'
             PROVE  Cardinality(signals') >= 2 /\ Interrupted' \cap Outside # {}
  BY DEF ReleasedLoopNeedsTwoSignals, Outside
<1>1. CASE \E s \in Signals : TermHandler(s)
  <2>1. /\ Cardinality(signals) \in Nat
        /\ Cardinality(signals') = Cardinality(signals) + 1
        /\ Interrupted' = Interrupted \cup {stage}
    BY <1>1, OneMoreSignal
  <2>2. CASE "loop" \in dead
    BY <2>1, <2>2 DEF ReleasedLoopNeedsTwoSignals, Outside
  <2>3. CASE mainLoop = "freed"
    <3>1. Interrupted \cap Outside # {}
      BY <2>3 DEF LoopHistory
    <3>2. signals # {}
      BY <3>1 DEF Interrupted
    <3>3. Cardinality(signals) # 0
      BY <3>2, FS_EmptySet DEF Numbered
    <3> QED
      BY <2>1, <3>1, <3>3
  <2> QED
    BY <1>1, <2>2, <2>3 DEF TermHandler
<1>2. CASE UNCHANGED signals
  <2>1. CASE \E s \in Signals : TermHandler(s)
    BY <1>1, <2>1
  <2>2. CASE ~\E s \in Signals : TermHandler(s)
    <3>1. "loop" \in dead
      BY <2>2 DEF Next, MainStep, ParseOptions, InstallHandlers, Handle, NewLoop,
           ConstructService, Attach, Run, Iterate, PollReturns, BusCall, Unref,
           DestroyService, Return, Exit, Initialize, HandleOwn, HandleClients, Use,
           Killed, vars, history
    <3>2. Interrupted' = Interrupted
      BY <1>2 DEF Interrupted
    <3> QED
      BY <1>2, <3>1, <3>2 DEF ReleasedLoopNeedsTwoSignals, Outside
  <2> QED
    BY <2>1, <2>2
<1> QED
  BY <1>1, <1>2, SignalsStep

\* Without a service there is no work, and without work nothing is used.
LEMMA NextFailedStart ==
  TypeOK /\ WorkHasOrigin /\ FailedStartLeavesNothing /\ [Next]_vars
    => FailedStartLeavesNothing'
<1> USE DEF TypeOK, WorkHasOrigin, FailedStartLeavesNothing, objects, work, history, Goto
<1> SUFFICES ASSUME TypeOK, WorkHasOrigin, FailedStartLeavesNothing, [Next]_vars,
                    service' = "none"
             PROVE  dead' \subseteq {"loop"}
  OBVIOUS
<1>1. service = "none"
  BY DEF Next, MainStep, ParseOptions, InstallHandlers, Handle, NewLoop, ConstructService,
       Attach, Run, Iterate, PollReturns, BusCall, Unref, DestroyService, Return, Exit,
       Initialize, HandleOwn, HandleClients, Killed, TermHandler, vars
<1>2. ~Initialize /\ ~HandleOwn /\ ~HandleClients
  BY <1>1 DEF Initialize, HandleOwn, HandleClients
<1>3. dead' \subseteq dead \cup {"loop"}
  BY <1>2 DEF Next, MainStep, ParseOptions, InstallHandlers, Handle, NewLoop,
       ConstructService, Attach, Run, Iterate, PollReturns, BusCall, Unref,
       DestroyService, Return, Exit, Killed, TermHandler, vars
<1> QED
  BY <1>1, <1>3

-----------------------------------------------------------------------------
\* The inductive invariant of the process: types, what the signals so far say
\* of the loop, and who started the work under way (src/Main.cpp lines 32-97).
THEOREM LifecycleInvariant == Spec => []LifecycleInv
<1>1. LifecycleInv /\ [Next]_vars => LifecycleInv'
  BY NextTypeOK, NextNumbered, NextLoopHistory, NextReleasedLoop, NextFailedStart
     DEF LifecycleInv
<1> QED
  BY InitLifecycleInv, <1>1, PTL DEF Spec

\* However many signals come, and whenever: none that finds the loop at work
\* leaves it running for main to go on with.
THEOREM SignalStopsLoop == Spec => []InVainOnlyEarly
<1>1. LifecycleInv => InVainOnlyEarly
  BY DEF LifecycleInv
<1> QED
  BY <1>1, LifecycleInvariant, PTL

\* However many signals come, and whenever: the released loop is quit by a
\* second one at the earliest.
THEOREM ReleasedLoopIsSafeFromOneSignal == Spec => []ReleasedLoopNeedsTwoSignals
<1>1. LifecycleInv => ReleasedLoopNeedsTwoSignals
  BY DEF LifecycleInv
<1> QED
  BY <1>1, LifecycleInvariant, PTL

\* A start that fails in the registration with the bus uses nothing of what
\* the return from main destroys.
THEOREM FailedStartIsClean == Spec => []FailedStartLeavesNothing
<1>1. LifecycleInv => FailedStartLeavesNothing
  BY DEF LifecycleInv
<1> QED
  BY <1>1, LifecycleInvariant, PTL

\* The types of the process and of the work of its threads.
THEOREM LifecycleTypes == Spec => []TypeOK
<1>1. LifecycleInv => TypeOK
  BY DEF LifecycleInv
<1> QED
  BY <1>1, LifecycleInvariant, PTL
=============================================================================
