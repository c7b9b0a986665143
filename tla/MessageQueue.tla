---------------------------- MODULE MessageQueue ----------------------------
(***************************************************************************)
(* The MessageQueue class (src/MessageQueue.cpp): producers call           *)
(* addMessage, one thread created by the constructor runs dispatchMessage, *)
(* and the destructor stops that thread.  The mutex, the condition         *)
(* variable and the unguarded flag mQuit are modelled step by step; what   *)
(* handleMessage does with a message is the business of module CecService. *)
(*                                                                         *)
(* The program never deletes the handler that owns the queue, so in the    *)
(* service Destroys = FALSE; Destroys = TRUE is the contract of the class. *)
(***************************************************************************)
EXTENDS Naturals, Sequences

CONSTANTS Messages,   \* the messages that may be added, each at most once
          Producers,  \* threads that call addMessage
          Worker,     \* the dispatch thread, mThread
          NoThread,   \* the owner of a free mutex
          Destroys    \* may ~MessageQueue run?

ASSUME QueueAssumption ==
  /\ Worker \notin Producers
  /\ NoThread \notin Producers \cup {Worker}
  /\ Destroys \in BOOLEAN

VARIABLES
  mQueue,     \* std::vector of requests, front first
  mQuit,      \* written by the destructor without mMutex
  mMutex,     \* the thread that owns the mutex, or NoThread
  wpc,        \* where the dispatch thread is
  ppc,        \* where each producer is in addMessage
  dpc,        \* where the destructor is
  taken       \* history: messages moved out of mQueue, in order

vars == <<mQueue, mQuit, mMutex, wpc, ppc, dpc, taken>>

Elements(s) == {s[i] : i \in DOMAIN s}

-----------------------------------------------------------------------------
(* addMessage: lock, push_back and unlock, then notify_one outside the     *)
(* critical section.                                                       *)

ProducerLock(p) ==
  /\ dpc = "none"
  /\ ppc[p] = "idle"
  /\ Messages \ (Elements(mQueue) \cup Elements(taken)) # {}
  /\ mMutex = NoThread
  /\ mMutex' = p
  /\ ppc' = [ppc EXCEPT ![p] = "locked"]
  /\ UNCHANGED <<mQueue, mQuit, wpc, dpc, taken>>

ProducerPush(p) ==
  /\ ppc[p] = "locked"
  /\ \E m \in Messages \ (Elements(mQueue) \cup Elements(taken)) :
       mQueue' = Append(mQueue, m)
  /\ mMutex' = NoThread
  /\ ppc' = [ppc EXCEPT ![p] = "notify"]
  /\ UNCHANGED <<mQuit, wpc, dpc, taken>>

\* notify_one wakes the dispatch thread if it sleeps, and is lost otherwise.
NotifyOne == wpc' = IF wpc = "waiting" THEN "lock" ELSE wpc

ProducerNotify(p) ==
  /\ ppc[p] = "notify"
  /\ NotifyOne
  /\ ppc' = [ppc EXCEPT ![p] = "idle"]
  /\ UNCHANGED <<mQueue, mQuit, mMutex, dpc, taken>>

-----------------------------------------------------------------------------
(* dispatchMessage.  "lock": about to lock; "test": evaluates the          *)
(* predicate of the wait; "block": the predicate was false, about to       *)
(* release the mutex and sleep; "waiting": asleep; "branch": the wait has  *)
(* returned, mutex held; "handle": inside handleMessage; "loop": at        *)
(* while (!mQuit).                                                         *)

WorkerLock ==
  /\ wpc = "lock"
  /\ mMutex = NoThread
  /\ mMutex' = Worker
  /\ wpc' = "test"
  /\ UNCHANGED <<mQueue, mQuit, ppc, dpc, taken>>

WakePredicate == mQueue # <<>> \/ mQuit

WorkerTestUnlocked ==
  /\ wpc = "test"
  /\ wpc' = IF WakePredicate THEN "branch" ELSE "block"
  /\ mMutex' = IF WakePredicate THEN Worker ELSE NoThread
  /\ UNCHANGED <<mQueue, mQuit, ppc, dpc, taken>>

WorkerTest ==
  /\ wpc = "test"
  /\ wpc' = IF WakePredicate THEN "branch" ELSE "block"
  /\ UNCHANGED <<mQueue, mQuit, mMutex, ppc, dpc, taken>>

WorkerBlock ==
  /\ wpc = "block"
  /\ mMutex' = NoThread
  /\ wpc' = "waiting"
  /\ UNCHANGED <<mQueue, mQuit, ppc, dpc, taken>>

\* std::condition_variable::wait may return without a notification.
SpuriousWakeup ==
  /\ wpc = "waiting"
  /\ wpc' = "lock"
  /\ UNCHANGED <<mQueue, mQuit, mMutex, ppc, dpc, taken>>

WorkerBranchLifo ==
  /\ wpc = "branch"
  /\ IF mQueue # <<>> /\ ~mQuit
     THEN /\ taken' = Append(taken, mQueue[Len(mQueue)])
          /\ mQueue' = SubSeq(mQueue, 1, Len(mQueue) - 1)
          /\ mMutex' = NoThread
          /\ wpc' = "handle"
     ELSE /\ mMutex' = IF mQuit THEN mMutex ELSE NoThread
          /\ wpc' = "loop"
          /\ UNCHANGED <<mQueue, taken>>
  /\ UNCHANGED <<mQuit, ppc, dpc>>

WorkerBranchLocked ==
  /\ wpc = "branch"
  /\ IF mQueue # <<>> /\ ~mQuit
     THEN /\ taken' = Append(taken, Head(mQueue))
          /\ mQueue' = Tail(mQueue)
          /\ wpc' = "handle"
     ELSE wpc' = "loop" /\ UNCHANGED <<mQueue, taken>>
  /\ UNCHANGED <<mQuit, mMutex, ppc, dpc>>

\* With messages and no quit: take the front, unlock, handle it.  With
\* neither: the branch the source says never occurs, which unlocks.  With
\* quit: nothing, the mutex stays locked until the function returns.
WorkerBranch ==
  /\ wpc = "branch"
  /\ IF mQueue # <<>> /\ ~mQuit
     THEN /\ taken' = Append(taken, Head(mQueue))
          /\ mQueue' = Tail(mQueue)
          /\ mMutex' = NoThread
          /\ wpc' = "handle"
     ELSE /\ mMutex' = IF mQuit THEN mMutex ELSE NoThread
          /\ wpc' = "loop"
          /\ UNCHANGED <<mQueue, taken>>
  /\ UNCHANGED <<mQuit, ppc, dpc>>

WorkerHandled ==
  /\ wpc = "handle"
  /\ wpc' = "loop"
  /\ UNCHANGED <<mQueue, mQuit, mMutex, ppc, dpc, taken>>

\* Leaving the function destroys the unique_lock, which unlocks if it owns.
WorkerLoop ==
  /\ wpc = "loop"
  /\ wpc' = IF mQuit THEN "exited" ELSE "lock"
  /\ mMutex' = IF mQuit /\ mMutex = Worker THEN NoThread ELSE mMutex
  /\ UNCHANGED <<mQueue, mQuit, ppc, dpc, taken>>

-----------------------------------------------------------------------------
(* ~MessageQueue: sets mQuit and notifies without taking the mutex, joins, *)
(* then clears the queue and closes the nyx device.                        *)

DestroyBegin ==
  /\ Destroys
  /\ dpc = "none"
  /\ \A p \in Producers : ppc[p] = "idle"
  /\ mQuit' = TRUE
  /\ dpc' = "notify"
  /\ UNCHANGED <<mQueue, mMutex, wpc, ppc, taken>>

DestroyNotifyForgotten ==
  /\ dpc = "notify"
  /\ dpc' = "join"
  /\ UNCHANGED <<mQueue, mQuit, mMutex, wpc, ppc, taken>>

DestroyNotify ==
  /\ dpc = "notify"
  /\ NotifyOne
  /\ dpc' = "join"
  /\ UNCHANGED <<mQueue, mQuit, mMutex, ppc, taken>>

DestroyJoin ==
  /\ dpc = "join"
  /\ wpc = "exited"
  /\ mQueue' = <<>>
  /\ dpc' = "done"
  /\ UNCHANGED <<mQuit, mMutex, wpc, ppc, taken>>

-----------------------------------------------------------------------------
Init ==
  /\ mQueue = <<>>
  /\ mQuit = FALSE
  /\ mMutex = NoThread
  /\ wpc = "lock"
  /\ ppc = [p \in Producers |-> "idle"]
  /\ dpc = "none"
  /\ taken = <<>>

ProducerStep(p) == ProducerLock(p) \/ ProducerPush(p) \/ ProducerNotify(p)

WorkerStep ==
  WorkerLock \/ WorkerTest \/ WorkerBlock \/ WorkerBranch \/ WorkerHandled
    \/ WorkerLoop

DestroyStep == DestroyBegin \/ DestroyNotify \/ DestroyJoin

Next ==
  \/ \E p \in Producers : ProducerStep(p)
  \/ WorkerStep
  \/ SpuriousWakeup
  \/ DestroyStep

SafeSpec == Init /\ [][Next]_vars

\* Runnable threads run.  Nobody has to call addMessage or the destructor,
\* nobody has to be woken spuriously.
Fairness ==
  /\ \A p \in Producers : WF_vars(ProducerPush(p) \/ ProducerNotify(p))
  /\ WF_vars(WorkerStep)
  /\ WF_vars(DestroyNotify \/ DestroyJoin)

Spec == SafeSpec /\ Fairness

-----------------------------------------------------------------------------
(* Properties.                                                             *)

WorkerPcs == {"lock", "test", "block", "waiting", "branch", "handle",
              "loop", "exited"}

\* The types of the variables of MessageQueue (include/MessageQueue.h:60-66).
TypeOK ==
  /\ mQueue \in Seq(Messages)
  /\ mQuit \in BOOLEAN
  /\ mMutex \in Producers \cup {Worker, NoThread}
  /\ wpc \in WorkerPcs
  /\ ppc \in [Producers -> {"idle", "locked", "notify"}]
  /\ dpc \in {"none", "notify", "join", "done"}
  /\ taken \in Seq(Messages)

\* No wake-up is lost: if the dispatch thread sleeps while a message waits,
\* some addMessage has still to call notify_one.  This is what testing the
\* predicate and going to sleep under the mutex of push_back buys.
NoLostWakeup ==
  wpc = "waiting" /\ mQueue # <<>> => \E p \in Producers : ppc[p] = "notify"

\* The comment "this condition never occurs" of dispatchMessage: when the
\* wait returns there is a message or the thread has been told to quit.
WaitPostcondition == wpc = "branch" => (mQueue # <<>> \/ mQuit)

\* The dispatch thread never locks a mutex it already owns (that would throw
\* from the thread function): the branch that keeps the lock is taken only
\* when the loop ends.
NeverRelocks == wpc = "lock" => mMutex # Worker

\* The destructor returns whenever its notify_one does not fall in the one
\* window in which it is lost: the dispatch thread has read mQuit as FALSE
\* and has not yet gone to sleep.  (Inside that window it joins for ever.)
DestructorReturns == (dpc = "notify" /\ wpc # "block") ~> (dpc = "done")

\* The inductive invariant behind the invariants above: who owns the mutex at
\* each program point, and how far the destructor can be.
MutexDiscipline ==
  /\ wpc \in {"test", "block", "branch"} => mMutex = Worker
  /\ mMutex = Worker => wpc \in {"test", "block", "branch", "loop"}
  /\ wpc = "loop" /\ mMutex = Worker => mQuit
  /\ \A p \in Producers : ppc[p] = "locked" <=> mMutex = p
  /\ wpc = "block" => mQueue = <<>>

DestructorOrder ==
  /\ mQuit <=> dpc # "none"
  /\ dpc # "none" => \A p \in Producers : ppc[p] = "idle"
  /\ dpc = "done" => wpc = "exited"

QueueInv ==
  TypeOK /\ MutexDiscipline /\ DestructorOrder /\ NoLostWakeup /\ WaitPostcondition

\* The class implements the FIFO channel: messages are taken once, in the
\* order of addMessage, none is invented and none is dropped but by the
\* destructor.
Channel == INSTANCE MessageChannel
             WITH chan <- mQueue, taken <- taken, closed <- (dpc = "done")

ImplementsChannel == Channel!Spec
=============================================================================
