------------------------- MODULE MessageQueueProofs -------------------------
(***************************************************************************)
(* Proofs about MessageQueue, for any set of messages and producers and    *)
(* with or without the destructor.                                         *)
(***************************************************************************)
EXTENDS MessageQueue, TLAPS

LEMMA InitQueueInv == Init => QueueInv
<1> USE QueueAssumption DEF QueueAssumption
<1> SUFFICES ASSUME Init PROVE QueueInv
  OBVIOUS
<1>1. TypeOK
  <2>1. mQueue \in Seq(Messages) /\ taken \in Seq(Messages)
    BY DEF Init
  <2>2. ppc \in [Producers -> {"idle", "locked", "notify"}]
    BY DEF Init
  <2> QED
    BY <2>1, <2>2 DEF Init, TypeOK, WorkerPcs
<1>2. MutexDiscipline /\ DestructorOrder
  BY DEF Init, MutexDiscipline, DestructorOrder
<1>3. NoLostWakeup /\ WaitPostcondition
  BY DEF Init, NoLostWakeup, WaitPostcondition
<1> QED
  BY <1>1, <1>2, <1>3 DEF QueueInv

LEMMA NextQueueInv == QueueInv /\ [Next]_vars => QueueInv'
<1> USE QueueAssumption
    DEF QueueAssumption, QueueInv, TypeOK, WorkerPcs, MutexDiscipline, DestructorOrder,
        NoLostWakeup, WaitPostcondition
<1> SUFFICES ASSUME QueueInv, [Next]_vars PROVE QueueInv'
  OBVIOUS
<1>1. ASSUME NEW p \in Producers, ProducerLock(p) PROVE QueueInv'
  BY <1>1 DEF ProducerLock
<1>2. ASSUME NEW p \in Producers, ProducerPush(p) PROVE QueueInv'
  BY <1>2 DEF ProducerPush
<1>3. ASSUME NEW p \in Producers, ProducerNotify(p) PROVE QueueInv'
  BY <1>3 DEF ProducerNotify, NotifyOne
<1>4. CASE WorkerLock
  BY <1>4 DEF WorkerLock
<1>5. CASE WorkerTest
  BY <1>5 DEF WorkerTest, WakePredicate
<1>6. CASE WorkerBlock
  BY <1>6 DEF WorkerBlock
<1>7. CASE SpuriousWakeup
  BY <1>7 DEF SpuriousWakeup
<1>8. CASE WorkerBranch
  <2>1. CASE mQueue # <<>> /\ ~mQuit
    <3>1. Head(mQueue) \in Messages /\ Tail(mQueue) \in Seq(Messages)
      BY <2>1
    <3>2. taken' = Append(taken, Head(mQueue)) /\ mQueue' = Tail(mQueue)
      BY <1>8, <2>1 DEF WorkerBranch
    <3>3. Append(taken, Head(mQueue)) \in Seq(Messages)
      BY <3>1
    <3> QED
      BY <1>8, <2>1, <3>1, <3>2, <3>3 DEF WorkerBranch
  <2>2. CASE mQueue = <<>> \/ mQuit
    BY <1>8, <2>2 DEF WorkerBranch
  <2> QED
    BY <2>1, <2>2
<1>9. CASE WorkerHandled
  BY <1>9 DEF WorkerHandled
<1>10. CASE WorkerLoop
  BY <1>10 DEF WorkerLoop
<1>11. CASE DestroyBegin
  BY <1>11 DEF DestroyBegin
<1>12. CASE DestroyNotify
  BY <1>12 DEF DestroyNotify, NotifyOne
<1>13. CASE DestroyJoin
  BY <1>13 DEF DestroyJoin
<1>14. CASE UNCHANGED vars
  BY <1>14 DEF vars
<1> QED
  BY <1>1, <1>2, <1>3, <1>4, <1>5, <1>6, <1>7, <1>8, <1>9, <1>10, <1>11, <1>12,
     <1>13, <1>14
     DEF Next, ProducerStep, WorkerStep, DestroyStep

\* The inductive invariant of the queue holds in every reachable state.
THEOREM QueueInvariant == SafeSpec => []QueueInv
BY InitQueueInv, NextQueueInv, PTL DEF SafeSpec

\* The dispatch thread never sleeps on a message nobody is about to announce,
\* whatever the number of threads that call addMessage.
THEOREM NoWakeupLost == SafeSpec => []NoLostWakeup
<1>1. QueueInv => NoLostWakeup
  BY DEF QueueInv
<1> QED
  BY <1>1, QueueInvariant, PTL

\* The branch of dispatchMessage marked "this condition never occurs" is dead
\* code, whatever wakes the thread.
THEOREM WaitLeavesWork == SafeSpec => []WaitPostcondition
<1>1. QueueInv => WaitPostcondition
  BY DEF QueueInv
<1> QED
  BY <1>1, QueueInvariant, PTL

\* The loop never locks a mutex that its thread owns: the branch that keeps the
\* lock is the one that ends the loop.
THEOREM DispatchLoopSound == SafeSpec => []NeverRelocks
<1>1. QueueInv => NeverRelocks
  BY DEF QueueInv, MutexDiscipline, NeverRelocks
<1> QED
  BY <1>1, QueueInvariant, PTL

\* MessageQueue implements the FIFO channel (safety): each step is a Send, a
\* Receive, a Close or invisible to the caller.
THEOREM QueueImplementsChannel == SafeSpec => Channel!SafeSpec
<1>1. Init => Channel!Init
  BY DEF Init, Channel!Init
<1>2. QueueInv /\ [Next]_vars => [Channel!Next]_(Channel!vars)
  <2> SUFFICES ASSUME QueueInv, [Next]_vars PROVE [Channel!Next]_(Channel!vars)
    OBVIOUS
  <2> USE QueueAssumption
      DEF QueueAssumption, QueueInv, TypeOK, DestructorOrder, Channel!vars
  <2>1. ASSUME NEW p \in Producers, ProducerPush(p) PROVE Channel!Next
    <3>1. PICK m \in Messages \ (Elements(mQueue) \cup Elements(taken)) :
                 mQueue' = Append(mQueue, m)
      BY <2>1 DEF ProducerPush
    <3>2. Channel!Send(m)
      BY <2>1, <3>1 DEF ProducerPush, Channel!Send, Elements, Channel!Elements
    <3> QED
      BY <3>1, <3>2 DEF Channel!Next
  <2>2. ASSUME WorkerBranch PROVE [Channel!Next]_(Channel!vars)
    BY <2>2 DEF WorkerBranch, Channel!Next, Channel!Receive
  <2>3. ASSUME DestroyJoin PROVE Channel!Next
    BY <2>3 DEF DestroyJoin, Channel!Next, Channel!Close
  <2>4. ASSUME NEW p \in Producers, ProducerLock(p) \/ ProducerNotify(p)
        PROVE  UNCHANGED Channel!vars
    BY <2>4 DEF ProducerLock, ProducerNotify
  <2>5. ASSUME \/ WorkerLock \/ WorkerTest \/ WorkerBlock \/ WorkerHandled
               \/ WorkerLoop \/ SpuriousWakeup
        PROVE  UNCHANGED Channel!vars
    BY <2>5 DEF WorkerLock, WorkerTest, WorkerBlock, WorkerHandled, WorkerLoop,
                SpuriousWakeup
  <2>6. ASSUME DestroyBegin \/ DestroyNotify PROVE UNCHANGED Channel!vars
    BY <2>6 DEF DestroyBegin, DestroyNotify
  <2>7. ASSUME UNCHANGED vars PROVE UNCHANGED Channel!vars
    BY <2>7 DEF vars
  <2> QED
    BY <2>1, <2>2, <2>3, <2>4, <2>5, <2>6, <2>7
       DEF Next, ProducerStep, WorkerStep, DestroyStep
<1> QED
  BY <1>1, <1>2, QueueInvariant, PTL DEF SafeSpec, Channel!SafeSpec
=============================================================================
