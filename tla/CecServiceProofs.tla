-------------------------- MODULE CecServiceProofs --------------------------
(***************************************************************************)
(* Proofs about CecService, for any number of requests, ids, adapters and  *)
(* addresses.  Most hold for a synchronous and an asynchronous nyx alike,  *)
(* and whatever the races of m_clients do.  Those that do not say so in    *)
(* their hypotheses: NyxAsync and RacyMap are constants, Window = 1 is a   *)
(* bus whose clients wait for an answer before they send again, and        *)
(* IdsSuffice says that no id is given out while it is still in use.       *)
(***************************************************************************)
EXTENDS CecService, SequenceTheorems, TLAPS

\* The inductive invariant: types, the lines each callback handles, the count
\* of commands against messages, and the agreement of types.
ServiceInv == TypeOK /\ ItemsFit /\ CommandsCoverMessages /\ CastSafe

-----------------------------------------------------------------------------
(* Facts about sequences.                                                  *)

\* Removing one element of a sequence shortens it by one and keeps its type.
LEMMA RemoveAtFacts ==
  ASSUME NEW S, NEW s \in Seq(S), NEW i \in DOMAIN s
  PROVE  RemoveAt(s, i) \in Seq(S) /\ Len(RemoveAt(s, i)) = Len(s) - 1
<1> DEFINE low == SubSeq(s, 1, i - 1)
           high == SubSeq(s, i + 1, Len(s))
<1>1. i \in 1..Len(s) /\ Len(s) \in Nat
  BY LenProperties
<1>2. low \in Seq(S) /\ Len(low) = i - 1
  BY <1>1, SMT
<1>3. high \in Seq(S) /\ Len(high) = Len(s) - i
  BY <1>1, SMT
<1>4. RemoveAt(s, i) = low \o high
  BY Zenon DEF RemoveAt
<1> HIDE DEF low, high
<1>5. low \o high \in Seq(S) /\ Len(low \o high) = Len(low) + Len(high)
  BY <1>2, <1>3, ConcatProperties, Zenon
<1>6. Len(low) + Len(high) = Len(s) - 1
  BY <1>1, <1>2, <1>3
<1> QED
  BY <1>4, <1>5, <1>6

\* The tail of a non-empty sequence, and its head.
LEMMA HeadTailFacts ==
  ASSUME NEW S, NEW s \in Seq(S), s # <<>>
  PROVE  /\ Head(s) \in S /\ Tail(s) \in Seq(S)
         /\ Len(Tail(s)) = Len(s) - 1 /\ Len(s) >= 1
BY HeadTailProperties, EmptySeq, LenProperties

\* The invariant taken apart, with the bounds.
Parts ==
  /\ MaxRequests \in Nat /\ IdMod \in Nat \ {0}
  /\ RegistryType /\ QueueType /\ ListType /\ ThreadType
  /\ ItemsFit /\ CommandsCoverMessages /\ CastSafe

LEMMA InvariantParts == ServiceInv => Parts
BY ServiceAssumption DEF ServiceAssumption, ServiceInv, TypeOK, Parts

-----------------------------------------------------------------------------
LEMMA InitServiceInv == Init => ServiceInv
<1> SUFFICES ASSUME Init PROVE ServiceInv
  OBVIOUS
<1>0. MaxRequests \in Nat /\ IdMod \in Nat \ {0}
  BY ServiceAssumption DEF ServiceAssumption
<1>1. RegistryType
  BY <1>0 DEF Init, RegistryType
<1>2. QueueType
  BY DEF Init, QueueType, Types, SendTypes
<1>3. ListType
  BY DEF Init, ListType
<1>4. ThreadType
  <2>1. NoAnswer \in ResponseRecord
    BY <1>0 DEF NoAnswer, ResponseRecord
  <2>2. ConstructorCmd \in CommandRecord
    BY <1>0 DEF ConstructorCmd, CommandRecord, Types, SendTypes
  <2>3. pc \in [Threads -> CallbackPcs \cup MainPcs] /\ pc["main"] = "idle"
    BY DEF Init, Threads, CallbackPcs, MainPcs
  <2>4. cmd \in [Threads -> CommandRecord]
    BY <2>2 DEF Init
  <2>5. handler \in [CallbackThreads -> Types]
    BY DEF Init, Types, SendTypes
  <2>6. resp \in [CallbackThreads -> ResponseRecord]
    BY <2>1 DEF Init
  <2>7. /\ refusal \in 0..12 /\ pc["main"] \in MainPcs
        /\ pc["main"] # "idle" => issued # <<>>
    BY <2>3 DEF Init, MainPcs
  <2> QED
    BY <2>3, <2>4, <2>5, <2>6, <2>7 DEF ThreadType
<1>5. ItemsFit
  <2> SUFFICES ASSUME NEW t \in CallbackThreads
               PROVE  /\ pc[t] = "idle"
                      /\ resp[t].items \in Seq(Adapters)
                      /\ resp[t].items \in Seq(Addresses)
    BY DEF ItemsFit, CallbackPcs
  <2>1. pc[t] = "idle" /\ resp[t].items = <<>>
    BY DEF Init, Threads, CallbackThreads, NoAnswer
  <2> QED
    BY <2>1
<1>6. CommandsCoverMessages /\ CastSafe
  BY DEF Init, CommandsCoverMessages, Owed, AtFront, CastSafe, Threads,
         CallbackThreads
<1> QED
  BY <1>1, <1>2, <1>3, <1>4, <1>5, <1>6 DEF ServiceInv, TypeOK

-----------------------------------------------------------------------------
(* The bus thread.                                                         *)

\* The request main works on is one of Requests.
LEMMA CurrentRequest ==
  ASSUME RegistryType, issued # <<>>
  PROVE  Current \in RequestType
<1>1. issued \in Seq(IssuedRecord) /\ Len(issued) \in DOMAIN issued
  BY LenProperties, EmptySeq DEF RegistryType
<1>2. issued[Len(issued)] \in IssuedRecord
  BY <1>1, ElementOfSeq
<1> QED
  BY <1>2, ServiceAssumption DEF Current, IssuedRecord, ServiceAssumption

LEMMA BusRequestInv ==
  ASSUME ServiceInv, NEW r \in Requests, BusRequest(r)
  PROVE  ServiceInv'
<1> USE DEF Parts
<1>0. Parts
  BY InvariantParts
<1>1. /\ issued' \in Seq(IssuedRecord)
      /\ Len(issued') = Len(issued) + 1
      /\ issued' # <<>>
      /\ Len(issued) < MaxRequests
  <2> DEFINE arrival == [req |-> r, seen |-> Elements(mAdaptersList)]
  <2>1. arrival \in IssuedRecord
    BY <1>0 DEF ListType, Elements, IssuedRecord
  <2>2. issued' = Append(issued, arrival) /\ Len(issued) < MaxRequests
    BY DEF BusRequest, MaySend
  <2>3. issued \in Seq(IssuedRecord)
    BY <1>0 DEF RegistryType
  <2> HIDE DEF arrival
  <2> QED
    BY <2>1, <2>2, <2>3, AppendProperties
<1>2. RegistryType'
  <2>2. \A code \in {0, 1} : Refused(code) \in ReplyRecord
    BY <1>0 DEF Refused, ReplyRecord
  <2>3. replies' \in [1..MaxRequests -> Seq(ReplyRecord)]
    <3>1. CASE UNCHANGED replies
      BY <1>0, <3>1 DEF RegistryType
    <3>2. CASE \E code \in {0, 1} :
                 replies' = [replies EXCEPT ![Len(issued) + 1] =
                               Append(@, Refused(code))]
      <4> PICK code \in {0, 1} :
            replies' = [replies EXCEPT ![Len(issued) + 1] =
                          Append(@, Refused(code))]
        BY <3>2
      <4>1. Len(issued) + 1 \in 1..MaxRequests
        BY <1>0, <1>1 DEF RegistryType
      <4>2. Append(replies[Len(issued) + 1], Refused(code)) \in Seq(ReplyRecord)
        BY <1>0, <2>2, <4>1, AppendProperties DEF RegistryType
      <4> QED
        BY <1>0, <4>1, <4>2 DEF RegistryType
    <3> QED
      BY <3>1, <3>2 DEF BusRequest, ParseErrors
  <2> QED
    BY <1>0, <1>1, <2>3, SMTT(30) DEF BusRequest, RegistryType, clientVars
<1>3. QueueType'
  BY <1>0 DEF BusRequest, QueueType, queueVars
<1>4. ListType'
  BY <1>0 DEF BusRequest, ListType, listVars
<1>5. /\ pc' \in [Threads -> CallbackPcs \cup MainPcs]
      /\ pc'["main"] \in MainPcs
      /\ \A t \in CallbackThreads : pc'[t] = pc[t]
      /\ pc'["main"] # "enqueue"
  BY <1>0 DEF BusRequest, ThreadType, Goto, Threads, CallbackThreads, MainPcs
<1>6. ThreadType'
  BY <1>0, <1>1, <1>5 DEF BusRequest, ThreadType, frameVars
<1>7. ItemsFit'
  BY <1>0, <1>5 DEF BusRequest, ItemsFit, frameVars
<1>8. CommandsCoverMessages'
  BY <1>0, <1>5 DEF BusRequest, CommandsCoverMessages, Owed, AtFront, queueVars,
                    CallbackThreads
<1>9. CastSafe'
  BY <1>0, <1>5 DEF BusRequest, CastSafe, frameVars
<1> QED
  BY <1>2, <1>3, <1>4, <1>6, <1>7, <1>8, <1>9 DEF ServiceInv, TypeOK

LEMMA InsertClientInv ==
  ASSUME ServiceInv, InsertClient
  PROVE  ServiceInv'
<1> USE DEF Parts
<1>0. Parts
  BY InvariantParts
<1>1. issued # <<>> /\ Len(issued) \in 0..MaxRequests
  BY <1>0, LenProperties DEF InsertClient, RegistryType, ThreadType
<1>2. NextId \in 0..(IdMod - 1)
  BY <1>0, SMT DEF NextId, RegistryType
<1>3. RegistryType'
  BY <1>0, <1>1, <1>2 DEF InsertClient, RegistryType, busVars
<1>4. QueueType'
  BY <1>0 DEF InsertClient, QueueType, queueVars
<1>5. ListType'
  BY <1>0 DEF InsertClient, ListType, listVars
<1>6. /\ pc' \in [Threads -> CallbackPcs \cup MainPcs]
      /\ pc'["main"] = "adapter"
      /\ \A t \in CallbackThreads : pc'[t] = pc[t]
  BY <1>0 DEF InsertClient, ThreadType, Goto, Threads, CallbackThreads, MainPcs
<1>7. Current.type \in Types
  BY <1>0, <1>1, CurrentRequest DEF RequestType
<1>8. /\ cmd' \in [Threads -> CommandRecord]
      /\ \A t \in CallbackThreads : cmd'[t] = cmd[t]
  <2> DEFINE new == [n |-> Len(issued), id |-> NextId, type |-> Current.type]
  <2>1. new \in CommandRecord
    BY <1>1, <1>2, <1>7 DEF CommandRecord
  <2>2. cmd' = [cmd EXCEPT !["main"] = new]
    BY DEF InsertClient
  <2> HIDE DEF new
  <2> QED
    BY <1>0, <2>1, <2>2 DEF ThreadType, Threads, CallbackThreads
<1>9. ThreadType'
  BY <1>0, <1>1, <1>6, <1>8 DEF InsertClient, ThreadType, frameVars, busVars, MainPcs
<1>10. ItemsFit'
  BY <1>0, <1>6 DEF InsertClient, ItemsFit, frameVars
<1>11. CommandsCoverMessages'
  BY <1>0, <1>6 DEF InsertClient, CommandsCoverMessages, Owed, AtFront, queueVars,
                    CallbackThreads
<1>12. CastSafe'
  BY <1>0, <1>6, <1>8 DEF InsertClient, CastSafe, frameVars
<1> QED
  BY <1>3, <1>4, <1>5, <1>9, <1>10, <1>11, <1>12 DEF ServiceInv, TypeOK

\* What the validation does: it moves main on, and may note a code.
Judges ==
  /\ issued # <<>>
  /\ pc' \in [Threads -> CallbackPcs \cup MainPcs]
  /\ pc'["main"] \in {"reply", "push", "address"}
  /\ \A t \in CallbackThreads : pc'[t] = pc[t]
  /\ refusal' \in 0..12
  /\ UNCHANGED <<busVars, clientVars, init, mCmdList, queueVars, listVars, cmd,
                 frameVars>>

LEMMA JudgesInv ==
  ASSUME ServiceInv, Judges
  PROVE  ServiceInv'
<1> USE DEF Parts
<1>0. Parts
  BY InvariantParts
<1>1. RegistryType'
  BY <1>0 DEF Judges, RegistryType, busVars, clientVars
<1>2. QueueType' /\ ListType'
  BY <1>0 DEF Judges, QueueType, ListType, queueVars, listVars
<1>3. ThreadType'
  BY <1>0 DEF Judges, ThreadType, frameVars, busVars, MainPcs
<1>4. ItemsFit' /\ CastSafe'
  BY <1>0 DEF Judges, ItemsFit, CastSafe, frameVars
<1>5. CommandsCoverMessages'
  BY <1>0 DEF Judges, CommandsCoverMessages, Owed, AtFront, queueVars,
              CallbackThreads, QueueType
<1> QED
  BY <1>1, <1>2, <1>3, <1>4, <1>5 DEF ServiceInv, TypeOK

LEMMA ValidationInv ==
  ASSUME ServiceInv, ValidateAdapter \/ ValidateAddress
  PROVE  ServiceInv'
<1> USE DEF Parts
<1>0. Parts
  BY InvariantParts
<1>1. Judges
  <2>1. issued # <<>>
    BY <1>0 DEF ValidateAdapter, ValidateAddress, ThreadType
  <2>2. \/ \E code \in {2, 4, 5, 6} : Refuse(code)
        \/ Accept
        \/ Goto("main", "address") /\ UNCHANGED refusal
    BY DEF ValidateAdapter, ValidateAddress, JudgeRest
  <2>3. /\ \E l \in {"reply", "push", "address"} : Goto("main", l)
        /\ refusal' \in 0..12
    BY <1>0, <2>2 DEF Refuse, Accept, ThreadType
  <2>4. UNCHANGED <<busVars, clientVars, init, mCmdList, queueVars, listVars,
                    cmd, frameVars>>
    BY DEF ValidateAdapter, ValidateAddress
  <2> QED
    BY <1>0, <2>1, <2>3, <2>4 DEF Judges, Goto, ThreadType, Threads,
                                  CallbackThreads, MainPcs
<1> QED
  BY <1>1, JudgesInv

LEMMA PushCommandInv ==
  ASSUME ServiceInv, PushCommand
  PROVE  ServiceInv'
<1> USE DEF Parts
<1>0. Parts
  BY InvariantParts
<1>1. cmd["main"] \in CommandRecord
  BY <1>0 DEF ThreadType, Threads
<1>2. mCmdList' \in Seq(CommandRecord) /\ Len(mCmdList') = Len(mCmdList) + 1
  BY <1>0, <1>1, AppendProperties DEF PushCommand, QueueType
<1>3. /\ pc["main"] = "push"
      /\ pc' \in [Threads -> CallbackPcs \cup MainPcs]
      /\ pc'["main"] = "enqueue"
      /\ \A t \in CallbackThreads : pc'[t] = pc[t]
  BY <1>0 DEF PushCommand, ThreadType, Goto, Threads, CallbackThreads, MainPcs
<1>4. RegistryType'
  BY <1>0 DEF PushCommand, RegistryType, busVars, clientVars
<1>5. QueueType' /\ ListType'
  BY <1>0, <1>2 DEF PushCommand, QueueType, ListType, queueVars, listVars
<1>6. ThreadType'
  BY <1>0, <1>3 DEF PushCommand, ThreadType, frameVars, busVars, MainPcs
<1>7. ItemsFit' /\ CastSafe'
  BY <1>0, <1>3 DEF PushCommand, ItemsFit, CastSafe, frameVars
<1>8. CommandsCoverMessages'
  BY <1>0, <1>2, <1>3, LenProperties DEF PushCommand, CommandsCoverMessages,
     Owed, AtFront, queueVars, CallbackThreads, QueueType
<1> QED
  BY <1>4, <1>5, <1>6, <1>7, <1>8 DEF ServiceInv, TypeOK

LEMMA EnqueueMessageInv ==
  ASSUME ServiceInv, EnqueueMessage
  PROVE  ServiceInv'
<1> USE DEF Parts
<1>0. Parts
  BY InvariantParts
<1>1. MessageOf(cmd["main"]) \in MessageRecord
  BY <1>0 DEF ThreadType, Threads, MessageOf, CommandRecord, MessageRecord
<1>2. mQueue' \in Seq(MessageRecord) /\ Len(mQueue') = Len(mQueue) + 1
  BY <1>0, <1>1, AppendProperties DEF EnqueueMessage, QueueType
<1>3. /\ pc["main"] = "enqueue"
      /\ pc' \in [Threads -> CallbackPcs \cup MainPcs]
      /\ pc'["main"] = "idle"
      /\ \A t \in CallbackThreads : pc'[t] = pc[t]
  BY <1>0 DEF EnqueueMessage, ThreadType, Goto, Threads, CallbackThreads, MainPcs
<1>4. RegistryType'
  BY <1>0 DEF EnqueueMessage, RegistryType, busVars, clientVars
<1>5. QueueType' /\ ListType'
  BY <1>0, <1>2 DEF EnqueueMessage, QueueType, ListType, listVars
<1>6. ThreadType'
  BY <1>0, <1>3 DEF EnqueueMessage, ThreadType, frameVars, busVars, MainPcs
<1>7. ItemsFit' /\ CastSafe'
  BY <1>0, <1>3 DEF EnqueueMessage, ItemsFit, CastSafe, frameVars
<1>8. CommandsCoverMessages'
  BY <1>0, <1>2, <1>3, LenProperties DEF EnqueueMessage, CommandsCoverMessages,
     Owed, AtFront, CallbackThreads, QueueType
<1> QED
  BY <1>4, <1>5, <1>6, <1>7, <1>8 DEF ServiceInv, TypeOK

LEMMA ConstructInv ==
  ASSUME ServiceInv, InitStep
  PROVE  ServiceInv'
<1> USE DEF Parts
<1>0. Parts
  BY InvariantParts
<1>1. /\ ConstructorCmd \in CommandRecord
      /\ MessageOf(ConstructorCmd) \in MessageRecord
  BY <1>0 DEF ConstructorCmd, MessageOf, CommandRecord, MessageRecord, Types, SendTypes
<1>2. /\ RegistryType' /\ ListType' /\ ThreadType' /\ ItemsFit' /\ CastSafe'
      /\ UNCHANGED <<pc, sending, pending, mType>>
  BY <1>0 DEF InitStep, ConstructPush, ConstructEnqueue, RegistryType, ListType,
     ThreadType, ItemsFit, CastSafe, busVars, clientVars, listVars, frameVars,
     queueVars
<1>3. QueueType' /\ CommandsCoverMessages'
  <2>1. CASE ConstructPush
    <3>1. /\ mCmdList' \in Seq(CommandRecord)
          /\ Len(mCmdList') = Len(mCmdList) + 1
      BY <1>0, <1>1, <2>1, AppendProperties DEF ConstructPush, QueueType
    <3>2. QueueType'
      BY <1>0, <2>1, <3>1 DEF ConstructPush, QueueType, queueVars
    <3>3. CommandsCoverMessages'
      BY <1>0, <1>2, <2>1, <3>1, LenProperties DEF ConstructPush,
         CommandsCoverMessages, Owed, AtFront, queueVars, QueueType
    <3> QED
      BY <3>2, <3>3
  <2>2. CASE ConstructEnqueue
    <3>1. mQueue' \in Seq(MessageRecord) /\ Len(mQueue') = Len(mQueue) + 1
      BY <1>0, <1>1, <2>2, AppendProperties DEF ConstructEnqueue, QueueType
    <3>2. QueueType'
      BY <1>0, <2>2, <3>1 DEF ConstructEnqueue, QueueType
    <3>3. CommandsCoverMessages'
      BY <1>0, <1>2, <2>2, <3>1, LenProperties DEF ConstructEnqueue,
         CommandsCoverMessages, Owed, AtFront, QueueType
    <3> QED
      BY <3>2, <3>3
  <2> QED
    BY <2>1, <2>2 DEF InitStep
<1> QED
  BY <1>2, <1>3 DEF ServiceInv, TypeOK

-----------------------------------------------------------------------------
(* The dispatch thread and nyx.                                            *)

LEMMA WorkerTakeInv ==
  ASSUME ServiceInv, WorkerTake
  PROVE  ServiceInv'
<1> USE DEF Parts
<1>0. Parts
  BY InvariantParts
<1>1. /\ Head(mQueue) \in MessageRecord
      /\ mQueue' \in Seq(MessageRecord)
      /\ Len(mQueue') = Len(mQueue) - 1
  BY <1>0, HeadTailFacts DEF WorkerTake, QueueType
<1>2. /\ sending' \in Seq(MessageRecord)
      /\ Len(sending) = 0 /\ Len(sending') = 1
  BY <1>1 DEF WorkerTake
<1>3. mType' \in Types
  BY <1>1 DEF WorkerTake, MessageRecord
<1>4. /\ RegistryType' /\ ListType' /\ ThreadType' /\ ItemsFit' /\ CastSafe'
      /\ UNCHANGED <<pc, init, mCmdList, pending>>
  BY <1>0 DEF WorkerTake, RegistryType, ListType, ThreadType, ItemsFit, CastSafe,
     busVars, clientVars, listVars, frameVars
<1>5. QueueType'
  BY <1>0, <1>1, <1>2, <1>3, <1>4 DEF QueueType
<1>6. CommandsCoverMessages'
  BY <1>0, <1>1, <1>2, <1>4, LenProperties DEF CommandsCoverMessages, Owed,
     AtFront, QueueType
<1> QED
  BY <1>4, <1>5, <1>6 DEF ServiceInv, TypeOK

\* Entering a callback puts the thread at "front", with an answer to parse.
LEMMA EnterCallbackFacts ==
  ASSUME ServiceInv, NEW t \in CallbackThreads, NEW m \in MessageRecord,
         NEW answer \in AnswerType, pc[t] = "idle", EnterCallback(t, m, answer),
         UNCHANGED <<issued, cmd, refusal>>
  PROVE  /\ ThreadType' /\ ItemsFit' /\ CastSafe'
         /\ pc'[t] = "front"
         /\ \A u \in Threads \ {t} : pc'[u] = pc[u]
<1> USE DEF Parts
<1>0. Parts
  BY InvariantParts
<1> DEFINE new == [of |-> m.n, none |-> answer.none, items |-> Items(mType, answer)]
<1>1. /\ pc' = [pc EXCEPT ![t] = "front"]
      /\ handler' = [handler EXCEPT ![t] = mType]
      /\ resp' = [resp EXCEPT ![t] = new]
  BY DEF EnterCallback, Goto
<1>2. /\ pc' \in [Threads -> CallbackPcs \cup MainPcs]
      /\ pc'[t] = "front"
      /\ \A u \in Threads \ {t} : pc'[u] = pc[u]
      /\ t # "main" /\ t \in Threads /\ "main" \in Threads
  BY <1>0, <1>1 DEF ThreadType, Threads, CallbackThreads, CallbackPcs
<1>3. handler' \in [CallbackThreads -> Types]
  BY <1>0, <1>1 DEF ThreadType, QueueType
<1>4. /\ mType = "LIST_ADAPTERS" => new.items \in Seq(Adapters)
      /\ mType = "SCAN" => new.items \in Seq(Addresses)
      /\ new \in ResponseRecord
  <2>1. /\ answer.adapters \in Seq(Adapters) /\ answer.devices \in Seq(Addresses)
        /\ answer.none \in BOOLEAN /\ m.n \in 0..MaxRequests
    BY DEF AnswerType, MessageRecord
  <2>2. \A S, s : s \in Seq(S) /\ S \subseteq Adapters \cup Addresses
                 => s \in Seq(Adapters \cup Addresses)
    OBVIOUS
  <2>3. /\ answer.adapters \in Seq(Adapters \cup Addresses)
        /\ answer.devices \in Seq(Adapters \cup Addresses)
        /\ <<>> \in Seq(Adapters \cup Addresses)
    BY <2>1, <2>2
  <2>4. /\ mType = "LIST_ADAPTERS" => Items(mType, answer) = answer.adapters
        /\ mType = "SCAN" => Items(mType, answer) = answer.devices
        /\ Items(mType, answer) \in {answer.adapters, answer.devices, <<>>}
    BY DEF Items
  <2>5. Items(mType, answer) \in Seq(Adapters \cup Addresses)
    BY <2>3, <2>4
  <2> QED
    BY <2>1, <2>4, <2>5 DEF ResponseRecord
<1> HIDE DEF new
<1>5. /\ resp' \in [CallbackThreads -> ResponseRecord]
      /\ resp'[t] = new
      /\ \A u \in CallbackThreads \ {t} : resp'[u] = resp[u]
  BY <1>0, <1>1, <1>4 DEF ThreadType
<1>6. ThreadType'
  BY <1>0, <1>2, <1>3, <1>5 DEF ThreadType, CallbackThreads, Threads, CallbackPcs
<1>7. /\ handler'[t] = mType
      /\ \A u \in CallbackThreads \ {t} : handler'[u] = handler[u]
  BY <1>0, <1>1 DEF ThreadType
<1>8. ItemsFit'
  BY <1>0, <1>2, <1>4, <1>5, <1>7 DEF ItemsFit, CallbackThreads, Threads, CallbackPcs
<1>9. CastSafe'
  BY <1>0, <1>2, <1>7 DEF CastSafe, CallbackThreads, Threads
<1> QED
  BY <1>2, <1>6, <1>8, <1>9

LEMMA AnswersAreAnswers ==
  /\ \A type \in Types : SynchronousAnswers(type) \subseteq AnswerType
  /\ \A type \in SendTypes : Answers[type] \subseteq AnswerType
<1>1. PlainAnswer \in AnswerType
  BY DEF PlainAnswer, AnswerType
<1>2. \A type \in SendTypes : Answers[type] \subseteq AnswerType
  BY ServiceAssumption DEF ServiceAssumption
<1> QED
  BY <1>1, <1>2 DEF SynchronousAnswers

LEMMA WorkerAnsweredInv ==
  ASSUME ServiceInv, WorkerAnswered
  PROVE  ServiceInv'
<1> USE DEF Parts
<1>0. Parts
  BY InvariantParts
<1>1. /\ Head(sending) \in MessageRecord /\ Len(sending) = 1 /\ Len(sending') = 0
      /\ sending' \in Seq(MessageRecord)
  <2>1. /\ sending \in Seq(MessageRecord) /\ Len(sending) <= 1 /\ sending # <<>>
        /\ sending' = <<>>
    BY <1>0 DEF WorkerAnswered, QueueType
  <2>2. Head(sending) \in MessageRecord /\ Len(sending) >= 1 /\ Len(sending) \in Nat
    BY <2>1, HeadTailFacts, LenProperties
  <2>3. Len(sending') = 0 /\ sending' \in Seq(MessageRecord)
    BY <2>1, EmptySeq
  <2>4. Len(sending) = 1
    <3>1. Len(sending) \in Nat /\ Len(sending) >= 1 /\ Len(sending) <= 1
      BY <2>1, <2>2
    <3> QED
      BY <3>1, SMT
  <2> QED
    BY <2>2, <2>3, <2>4
<1>2. PICK a \in SynchronousAnswers(Head(sending).type) :
        EnterCallback("worker", Head(sending), a)
  BY DEF WorkerAnswered
<1>3. a \in AnswerType
  BY <1>1, AnswersAreAnswers DEF MessageRecord
<1>4. /\ UNCHANGED <<issued, cmd, refusal>> /\ pc["worker"] = "idle"
      /\ UNCHANGED <<init, mCmdList, mQueue, mType, pending>>
      /\ "worker" \in CallbackThreads
  BY DEF WorkerAnswered, busVars, CallbackThreads
<1>5. /\ ThreadType' /\ ItemsFit' /\ CastSafe'
      /\ pc'["worker"] = "front"
      /\ \A u \in Threads \ {"worker"} : pc'[u] = pc[u]
  BY <1>1, <1>2, <1>3, <1>4, EnterCallbackFacts
<1>6. RegistryType' /\ ListType'
  BY <1>0 DEF WorkerAnswered, RegistryType, ListType, busVars, clientVars, listVars
<1>7. QueueType'
  BY <1>0, <1>1, <1>4 DEF QueueType
<1>8. CommandsCoverMessages'
  BY <1>0, <1>1, <1>4, <1>5, LenProperties DEF CommandsCoverMessages, Owed,
     AtFront, QueueType, Threads, CallbackThreads
<1> QED
  BY <1>5, <1>6, <1>7, <1>8 DEF ServiceInv, TypeOK

LEMMA WorkerAcceptedInv ==
  ASSUME ServiceInv, WorkerAccepted
  PROVE  ServiceInv'
<1> USE DEF Parts
<1>0. Parts
  BY InvariantParts
<1>1. /\ Head(sending) \in PendingRecord /\ Len(sending) = 1 /\ Len(sending') = 0
      /\ sending' \in Seq(MessageRecord)
  <2>1. /\ sending \in Seq(MessageRecord) /\ Len(sending) <= 1 /\ sending # <<>>
        /\ sending' = <<>> /\ Head(sending).type \in SendTypes
    BY <1>0 DEF WorkerAccepted, QueueType
  <2>2. Head(sending) \in MessageRecord /\ Len(sending) >= 1 /\ Len(sending) \in Nat
    BY <2>1, HeadTailFacts, LenProperties
  <2>3. Head(sending) \in PendingRecord
    BY <2>1, <2>2 DEF MessageRecord, PendingRecord
  <2>4. Len(sending') = 0 /\ sending' \in Seq(MessageRecord)
    BY <2>1, EmptySeq
  <2>5. Len(sending) = 1
    <3>1. Len(sending) \in Nat /\ Len(sending) >= 1 /\ Len(sending) <= 1
      BY <2>1, <2>2
    <3> QED
      BY <3>1, SMT
  <2> QED
    BY <2>3, <2>4, <2>5
<1>2. pending' \in Seq(PendingRecord) /\ Len(pending') = Len(pending) + 1
  BY <1>0, <1>1, AppendProperties DEF WorkerAccepted, QueueType
<1>3. /\ RegistryType' /\ ListType' /\ ThreadType' /\ ItemsFit' /\ CastSafe'
      /\ UNCHANGED <<pc, init, mCmdList, mQueue, mType>>
  BY <1>0 DEF WorkerAccepted, RegistryType, ListType, ThreadType, ItemsFit,
     CastSafe, busVars, clientVars, listVars, frameVars
<1>4. QueueType'
  BY <1>0, <1>1, <1>2, <1>3 DEF QueueType
<1>5. CommandsCoverMessages'
  BY <1>0, <1>1, <1>2, <1>3, LenProperties DEF CommandsCoverMessages, Owed,
     AtFront, QueueType
<1> QED
  BY <1>3, <1>4, <1>5 DEF ServiceInv, TypeOK

LEMMA NyxCallbackInv ==
  ASSUME ServiceInv, NyxCallback
  PROVE  ServiceInv'
<1> USE DEF Parts
<1>0. Parts
  BY InvariantParts
<1>1. PICK i \in DOMAIN pending :
        /\ pending' = RemoveAt(pending, i)
        /\ \E a \in Answers[pending[i].type] : EnterCallback("nyx", pending[i], a)
  BY DEF NyxCallback
<1>2. pending[i] \in PendingRecord /\ pending[i] \in MessageRecord
  <2>1. pending \in Seq(PendingRecord) /\ i \in 1..Len(pending)
    BY <1>0, LenProperties DEF QueueType
  <2>2. pending[i] \in PendingRecord
    BY <2>1, ElementOfSeq
  <2> QED
    BY <2>2 DEF PendingRecord, MessageRecord, Types
<1>3. PICK a \in Answers[pending[i].type] : EnterCallback("nyx", pending[i], a)
  BY <1>1
<1>4. a \in AnswerType
  BY <1>2, AnswersAreAnswers DEF PendingRecord
<1>5. /\ UNCHANGED <<issued, cmd, refusal>> /\ pc["nyx"] = "idle"
      /\ UNCHANGED <<init, mCmdList, mQueue, mType, sending>>
      /\ "nyx" \in CallbackThreads
  BY DEF NyxCallback, busVars, CallbackThreads
<1>6. /\ ThreadType' /\ ItemsFit' /\ CastSafe'
      /\ pc'["nyx"] = "front"
      /\ \A u \in Threads \ {"nyx"} : pc'[u] = pc[u]
  BY <1>2, <1>3, <1>4, <1>5, EnterCallbackFacts
<1>7. pending' \in Seq(PendingRecord) /\ Len(pending') = Len(pending) - 1
  BY <1>0, <1>1, RemoveAtFacts DEF QueueType
<1>8. RegistryType' /\ ListType'
  BY <1>0 DEF NyxCallback, RegistryType, ListType, busVars, clientVars, listVars
<1>9. QueueType'
  BY <1>0, <1>5, <1>7 DEF QueueType
<1>10. CommandsCoverMessages'
  BY <1>0, <1>5, <1>6, <1>7, LenProperties DEF CommandsCoverMessages, Owed,
     AtFront, QueueType, Threads, CallbackThreads
<1> QED
  BY <1>6, <1>8, <1>9, <1>10 DEF ServiceInv, TypeOK

\* A forgotten command leaves its entry in mCmdList: more commands than messages.
LEMMA NyxForgetsInv ==
  ASSUME ServiceInv, NyxForgets
  PROVE  ServiceInv'
<1> USE DEF Parts
<1>0. Parts
  BY InvariantParts
<1>1. PICK i \in DOMAIN pending : pending' = RemoveAt(pending, i)
  BY DEF NyxForgets
<1>2. pending' \in Seq(PendingRecord) /\ Len(pending') = Len(pending) - 1
  BY <1>0, <1>1, RemoveAtFacts DEF QueueType
<1>3. UNCHANGED <<init, mCmdList, mQueue, mType, sending, pc, cmd, issued, refusal>>
  BY DEF NyxForgets, busVars
<1>4. RegistryType' /\ ListType'
  BY <1>0 DEF NyxForgets, RegistryType, ListType, busVars, clientVars, listVars
<1>5. ThreadType' /\ ItemsFit' /\ CastSafe'
  BY <1>0, <1>3 DEF NyxForgets, ThreadType, ItemsFit, CastSafe, frameVars
<1>6. QueueType'
  BY <1>0, <1>2, <1>3 DEF QueueType
<1>7. CommandsCoverMessages'
  BY <1>0, <1>2, <1>3, LenProperties DEF CommandsCoverMessages, Owed, AtFront, QueueType
<1> QED
  BY <1>4, <1>5, <1>6, <1>7 DEF ServiceInv, TypeOK

-----------------------------------------------------------------------------
(* The callbacks.                                                          *)

LEMMA TakeFrontInv ==
  ASSUME ServiceInv, NEW t \in CallbackThreads, TakeFront(t)
  PROVE  ServiceInv'
<1> USE DEF Parts
<1>0. Parts
  BY InvariantParts
<1>1. /\ mCmdList \in Seq(CommandRecord)
      /\ Head(mCmdList) \in CommandRecord
      /\ Tail(mCmdList) \in Seq(CommandRecord)
      /\ Len(Tail(mCmdList)) = Len(mCmdList) - 1
      /\ Len(mCmdList) \in Nat
  BY <1>0, HeadTailFacts, LenProperties DEF TakeFront, QueueType
<1>2. /\ RegistryType' /\ ListType'
      /\ UNCHANGED <<issued, init, queueVars, handler, resp, refusal>>
  BY <1>0 DEF TakeFront, RegistryType, ListType, busVars, clientVars, listVars,
     frameVars
<1>3. /\ pc[t] = "front" /\ t # "main" /\ t \in Threads /\ "main" \in Threads
      /\ pc \in [Threads -> CallbackPcs \cup MainPcs]
  BY <1>0 DEF TakeFront, ThreadType, Threads, CallbackThreads
<1>4. \/ /\ Head(mCmdList).type = handler[t]
         /\ mCmdList' = Tail(mCmdList)
         /\ cmd' = [cmd EXCEPT ![t] = Head(mCmdList)]
         /\ pc' = [pc EXCEPT ![t] = AfterTake(t)]
      \/ /\ pc' = [pc EXCEPT ![t] = "idle"]
         /\ UNCHANGED <<mCmdList, cmd>>
  BY DEF TakeFront, Goto
<1>5. /\ AfterTake(t) \in {"reply", "clear", "devices"}
      /\ AfterTake(t) = "clear" => handler[t] = "LIST_ADAPTERS"
      /\ AfterTake(t) = "devices" => handler[t] = "SCAN" /\ resp[t].items # <<>>
  BY DEF AfterTake
<1>6. /\ pc' \in [Threads -> CallbackPcs \cup MainPcs]
      /\ pc'[t] \in {"reply", "clear", "devices", "idle"}
      /\ pc'[t] = "clear" => handler[t] = "LIST_ADAPTERS"
      /\ pc'[t] = "devices" => handler[t] = "SCAN" /\ resp[t].items # <<>>
      /\ pc'[t] # "idle" => cmd'[t].type = handler[t]
      /\ \A u \in Threads \ {t} : pc'[u] = pc[u] /\ cmd'[u] = cmd[u]
      /\ cmd' \in [Threads -> CommandRecord]
  BY <1>0, <1>1, <1>3, <1>4, <1>5 DEF ThreadType, CallbackPcs
<1>7. ThreadType'
  BY <1>0, <1>2, <1>3, <1>6 DEF ThreadType, CallbackPcs, Threads, CallbackThreads
<1>8. ItemsFit'
  BY <1>0, <1>2, <1>3, <1>6 DEF ItemsFit, CallbackPcs, Threads, CallbackThreads
<1>9. CastSafe'
  BY <1>0, <1>2, <1>3, <1>6 DEF CastSafe, Threads, CallbackThreads
<1>10. /\ mCmdList' \in Seq(CommandRecord)
       /\ Len(mCmdList') >= Len(mCmdList) - 1
  BY <1>1, <1>4, SMTT(30)
<1>11. QueueType'
  BY <1>0, <1>2, <1>10 DEF QueueType, queueVars
<1>12. CommandsCoverMessages'
  BY <1>0, <1>1, <1>2, <1>3, <1>6, <1>10, LenProperties
     DEF CommandsCoverMessages, Owed, AtFront, QueueType, queueVars, Threads,
         CallbackThreads
<1> QED
  BY <1>2, <1>7, <1>8, <1>9, <1>11, <1>12 DEF ServiceInv, TypeOK

\* Steps of a callback past its critical section on mCmdList: they touch
\* neither the command list nor the queues.
Proceeds(t, next) ==
  /\ pc[t] \in {"clear", "adapters", "devices", "reply", "erase"}
  /\ pc' = [pc EXCEPT ![t] = next]
  /\ UNCHANGED <<issued, init, mCmdList, queueVars, cmd, handler, refusal>>

LEMMA ProceedsInv ==
  ASSUME ServiceInv, NEW t \in CallbackThreads,
         NEW next \in {"adapters", "devices", "reply", "erase", "idle"},
         Proceeds(t, next), RegistryType', ListType',
         resp' \in [CallbackThreads -> ResponseRecord],
         \A u \in CallbackThreads \ {t} : resp'[u] = resp[u],
         handler[t] = "LIST_ADAPTERS" => resp'[t].items \in Seq(Adapters),
         handler[t] = "SCAN" => resp'[t].items \in Seq(Addresses),
         next = "adapters" => handler[t] = "LIST_ADAPTERS",
         next = "devices" => handler[t] = "SCAN",
         next \in {"adapters", "devices"} => resp'[t].items # <<>>,
         next \in {"adapters", "devices", "reply"} => pc[t] # "erase"
  PROVE  ServiceInv'
<1> USE DEF Parts
<1>0. Parts
  BY InvariantParts
<1>1. /\ t # "main" /\ t \in Threads /\ "main" \in Threads
      /\ pc' \in [Threads -> CallbackPcs \cup MainPcs]
      /\ pc'[t] = next /\ next \in CallbackPcs
      /\ \A u \in Threads \ {t} : pc'[u] = pc[u]
      /\ pc[t] # "front" /\ pc'[t] # "front"
  BY <1>0 DEF Proceeds, ThreadType, Threads, CallbackThreads, CallbackPcs
<1>2. QueueType'
  BY <1>0 DEF Proceeds, QueueType, queueVars
<1>3. ThreadType'
  BY <1>0, <1>1 DEF Proceeds, ThreadType, Threads, CallbackThreads
<1>4. ItemsFit'
  BY <1>0, <1>1 DEF Proceeds, ItemsFit, Threads, CallbackThreads
<1>5. CastSafe'
  BY <1>0, <1>1 DEF Proceeds, CastSafe, Threads, CallbackThreads
<1>6. CommandsCoverMessages'
  BY <1>0, <1>1, LenProperties DEF Proceeds, CommandsCoverMessages, Owed, AtFront,
     QueueType, queueVars, Threads, CallbackThreads
<1> QED
  BY <1>2, <1>3, <1>4, <1>5, <1>6 DEF ServiceInv, TypeOK

\* What NextItem does to the lines left and to the program counter.
LEMMA NextItemFacts ==
  ASSUME ServiceInv, NEW t \in CallbackThreads, NEW label, NextItem(t, label),
         pc[t] \in {"adapters", "devices"}
  PROVE  \E next \in {label, "reply"} :
           /\ pc' = [pc EXCEPT ![t] = next]
           /\ next # "reply" => resp'[t].items # <<>>
           /\ resp'[t].items = Tail(resp[t].items)
           /\ resp' \in [CallbackThreads -> ResponseRecord]
           /\ \A u \in CallbackThreads \ {t} : resp'[u] = resp[u]
<1> USE DEF Parts
<1>0. Parts
  BY InvariantParts
<1> DEFINE items == resp[t].items
           left == [resp[t] EXCEPT !.items = Tail(resp[t].items)]
           next == IF Len(items) = 1 THEN "reply" ELSE label
<1>1. pc' = [pc EXCEPT ![t] = next] /\ resp' = [resp EXCEPT ![t] = left]
  BY DEF NextItem, Goto
<1>2. items \in Seq(Adapters \cup Addresses) /\ items # <<>>
  <2>1. resp[t] \in ResponseRecord
    BY <1>0 DEF ThreadType
  <2>2. items # <<>>
    BY <1>0 DEF ItemsFit
  <2> QED
    BY <2>1, <2>2 DEF ResponseRecord
<1>3. /\ Tail(items) \in Seq(Adapters \cup Addresses)
      /\ Len(items) # 1 => Tail(items) # <<>>
  <2>1. /\ Tail(items) \in Seq(Adapters \cup Addresses)
        /\ Len(Tail(items)) = Len(items) - 1 /\ Len(items) \in Nat
    BY <1>2, HeadTailFacts, LenProperties
  <2>2. Tail(items) = <<>> => Len(Tail(items)) = 0
    BY EmptySeq
  <2> QED
    BY <2>1, <2>2
<1>4. left \in ResponseRecord /\ left.items = Tail(items)
  BY <1>0, <1>3 DEF ThreadType, ResponseRecord
<1> HIDE DEF left
<1>5. /\ resp' \in [CallbackThreads -> ResponseRecord]
      /\ resp'[t] = left
      /\ \A u \in CallbackThreads \ {t} : resp'[u] = resp[u]
  BY <1>0, <1>1, <1>4 DEF ThreadType
<1> QED
  BY <1>1, <1>3, <1>4, <1>5

LEMMA ClearAdaptersInv ==
  ASSUME ServiceInv, NEW t \in CallbackThreads, ClearAdapters(t)
  PROVE  ServiceInv'
<1> USE DEF Parts
<1>0. Parts
  BY InvariantParts
<1> DEFINE next == IF resp[t].items = <<>> THEN "reply" ELSE "adapters"
<1>1. Proceeds(t, next)
  BY DEF ClearAdapters, Goto, Proceeds, busVars, frameVars
<1>2. /\ next \in {"adapters", "reply"}
      /\ next = "adapters" => resp[t].items # <<>>
      /\ pc[t] = "clear" /\ UNCHANGED resp
  BY DEF ClearAdapters, frameVars
<1>3. ListType'
  BY <1>0 DEF ClearAdapters, ListType
<1>4. RegistryType'
  BY <1>0 DEF ClearAdapters, RegistryType, busVars, clientVars
<1>5. /\ resp' \in [CallbackThreads -> ResponseRecord]
      /\ handler[t] = "LIST_ADAPTERS"
      /\ handler[t] = "LIST_ADAPTERS" => resp'[t].items \in Seq(Adapters)
      /\ handler[t] = "SCAN" => resp'[t].items \in Seq(Addresses)
  BY <1>0, <1>2 DEF ThreadType, ItemsFit
<1> HIDE DEF next
<1> QED
  BY <1>1, <1>2, <1>3, <1>4, <1>5, ProceedsInv

LEMMA PushAdapterInv ==
  ASSUME ServiceInv, NEW t \in CallbackThreads, PushAdapter(t)
  PROVE  ServiceInv'
<1> USE DEF Parts
<1>0. Parts
  BY InvariantParts
<1>1. pc[t] = "adapters" /\ NextItem(t, "adapters")
  BY DEF PushAdapter
<1>2. PICK next \in {"adapters", "reply"} :
        /\ pc' = [pc EXCEPT ![t] = next]
        /\ next # "reply" => resp'[t].items # <<>>
        /\ resp'[t].items = Tail(resp[t].items)
        /\ resp' \in [CallbackThreads -> ResponseRecord]
        /\ \A u \in CallbackThreads \ {t} : resp'[u] = resp[u]
  BY <1>1, NextItemFacts
<1>3. Proceeds(t, next)
  BY <1>1, <1>2 DEF PushAdapter, Proceeds, busVars
<1>4. /\ handler[t] = "LIST_ADAPTERS"
      /\ resp[t].items \in Seq(Adapters) /\ resp[t].items # <<>>
  BY <1>0, <1>1 DEF ItemsFit
<1>5. Head(resp[t].items) \in Adapters /\ resp'[t].items \in Seq(Adapters)
  BY <1>2, <1>4, HeadTailFacts
<1>6. ListType'
  <2>1. mAdaptersList' = Append(mAdaptersList, Head(resp[t].items))
    BY DEF PushAdapter
  <2>2. mAdaptersList' \in Seq(Adapters)
    BY <1>0, <1>5, <2>1, AppendProperties DEF ListType
  <2> QED
    BY <1>0, <2>2 DEF PushAdapter, ListType
<1>7. RegistryType'
  BY <1>0 DEF PushAdapter, RegistryType, busVars, clientVars
<1> QED
  BY <1>1, <1>2, <1>3, <1>4, <1>5, <1>6, <1>7, ProceedsInv

LEMMA RecordDeviceInv ==
  ASSUME ServiceInv, NEW t \in CallbackThreads, RecordDevice(t)
  PROVE  ServiceInv'
<1> USE DEF Parts
<1>0. Parts
  BY InvariantParts
<1>1. pc[t] = "devices" /\ NextItem(t, "devices")
  BY DEF RecordDevice
<1>2. PICK next \in {"devices", "reply"} :
        /\ pc' = [pc EXCEPT ![t] = next]
        /\ next # "reply" => resp'[t].items # <<>>
        /\ resp'[t].items = Tail(resp[t].items)
        /\ resp' \in [CallbackThreads -> ResponseRecord]
        /\ \A u \in CallbackThreads \ {t} : resp'[u] = resp[u]
  BY <1>1, NextItemFacts
<1>3. Proceeds(t, next)
  BY <1>1, <1>2 DEF RecordDevice, Proceeds, busVars
<1>4. /\ handler[t] = "SCAN"
      /\ resp[t].items \in Seq(Addresses) /\ resp[t].items # <<>>
  BY <1>0, <1>1 DEF ItemsFit
<1>5. Head(resp[t].items) \in Addresses /\ resp'[t].items \in Seq(Addresses)
  BY <1>2, <1>4, HeadTailFacts
<1>6. ListType'
  <2>1. \E kept \in Seq(Addresses) :
          mDeviceInfoList' = Append(kept, Head(resp[t].items))
    BY <1>0, RemoveAtFacts DEF RecordDevice, ListType
  <2>2. mDeviceInfoList' \in Seq(Addresses)
    BY <1>5, <2>1, AppendProperties
  <2> QED
    BY <1>0, <2>2 DEF RecordDevice, ListType
<1>7. RegistryType'
  BY <1>0 DEF RecordDevice, RegistryType, busVars, clientVars
<1> QED
  BY <1>1, <1>2, <1>3, <1>4, <1>5, <1>6, <1>7, ProceedsInv

\* Responding to a client keeps the types of what the bus owns.
LEMMA ReplyRegistry ==
  ASSUME ServiceInv, NEW t \in Threads, ReplyStep(t)
  PROVE  RegistryType'
<1> USE DEF Parts
<1>0. Parts
  BY InvariantParts
<1>1. cmd[t].id \in 0..(IdMod - 1)
  BY <1>0 DEF ThreadType, CommandRecord
<1>2. CASE Reply(t)
  <2>1. replies' \in [1..MaxRequests -> Seq(ReplyRecord)]
    <3>1. CASE UNCHANGED replies
      BY <1>0, <3>1 DEF RegistryType
    <3>2. CASE /\ ReplyTo(t) # 0
               /\ replies' = [replies EXCEPT ![ReplyTo(t)] = Append(@, ReplyOf(t))]
      <4>1. ReplyTo(t) \in 1..MaxRequests
        BY <1>0, <1>1, <3>2 DEF ReplyTo, RegistryType
      <4>2. ReplyOf(t) \in ReplyRecord
        BY <1>0 DEF ReplyOf, Refused, ReplyRecord, ThreadType, ResponseRecord,
                    Threads
      <4>3. Append(replies[ReplyTo(t)], ReplyOf(t)) \in Seq(ReplyRecord)
        BY <1>0, <4>1, <4>2, AppendProperties DEF RegistryType
      <4> QED
        BY <1>0, <3>2, <4>1, <4>3 DEF RegistryType
    <3> QED
      BY <1>2, <3>1, <3>2 DEF Reply
  <2> QED
    BY <1>0, <1>2, <2>1, SMTT(30) DEF Reply, RegistryType, clientVars
<1>3. CASE EraseClient(t)
  BY <1>0, <1>1, <1>3 DEF EraseClient, RegistryType, busVars
<1> QED
  BY <1>2, <1>3 DEF ReplyStep

LEMMA CallbackReplyInv ==
  ASSUME ServiceInv, NEW t \in CallbackThreads, ReplyStep(t)
  PROVE  ServiceInv'
<1> USE DEF Parts
<1>0. Parts
  BY InvariantParts
<1>1. PICK next \in {"erase", "idle"} : Proceeds(t, next)
  BY DEF ReplyStep, Reply, EraseClient, Goto, Proceeds, busVars, frameVars
<1>2. RegistryType'
  BY ReplyRegistry DEF Threads
<1>3. ListType' /\ UNCHANGED resp
  BY <1>0 DEF ReplyStep, Reply, EraseClient, ListType, listVars, frameVars
<1>4. /\ resp' \in [CallbackThreads -> ResponseRecord]
      /\ handler[t] = "LIST_ADAPTERS" => resp'[t].items \in Seq(Adapters)
      /\ handler[t] = "SCAN" => resp'[t].items \in Seq(Addresses)
  BY <1>0, <1>3 DEF ThreadType, ItemsFit
<1> QED
  BY <1>1, <1>2, <1>3, <1>4, ProceedsInv

LEMMA MainReplyInv ==
  ASSUME ServiceInv, ReplyStep("main")
  PROVE  ServiceInv'
<1> USE DEF Parts
<1>0. Parts
  BY InvariantParts
<1>1. RegistryType'
  BY ReplyRegistry DEF Threads
<1>2. /\ pc["main"] \in {"reply", "erase"}
      /\ \E l \in {"idle", "erase"} : pc' = [pc EXCEPT !["main"] = l]
      /\ UNCHANGED <<issued, init, mCmdList, queueVars, listVars, cmd, frameVars,
                     refusal>>
  BY DEF ReplyStep, Reply, EraseClient, Goto, busVars
<1>3. /\ pc' \in [Threads -> CallbackPcs \cup MainPcs]
      /\ pc'["main"] \in {"idle", "erase"}
      /\ \A t \in CallbackThreads : pc'[t] = pc[t]
  BY <1>0, <1>2 DEF ThreadType, Threads, CallbackThreads, MainPcs
<1>4. QueueType' /\ ListType'
  BY <1>0, <1>2 DEF QueueType, ListType, queueVars, listVars
<1>5. ThreadType'
  BY <1>0, <1>2, <1>3 DEF ThreadType, frameVars, MainPcs
<1>6. ItemsFit' /\ CastSafe'
  BY <1>0, <1>2, <1>3 DEF ItemsFit, CastSafe, frameVars
<1>7. CommandsCoverMessages'
  BY <1>0, <1>2, <1>3 DEF CommandsCoverMessages, Owed, AtFront, queueVars,
     QueueType, CallbackThreads
<1> QED
  BY <1>1, <1>4, <1>5, <1>6, <1>7 DEF ServiceInv, TypeOK

-----------------------------------------------------------------------------
(* The theorems.                                                           *)

LEMMA NextServiceInv == ServiceInv /\ [Next]_vars => ServiceInv'
<1> SUFFICES ASSUME ServiceInv, [Next]_vars PROVE ServiceInv'
  OBVIOUS
<1>1. CASE \E r \in Requests : BusRequest(r)
  BY <1>1, BusRequestInv
<1>2. CASE MainStep
  BY <1>2, InsertClientInv, ValidationInv, PushCommandInv, EnqueueMessageInv,
     MainReplyInv DEF MainStep
<1>3. CASE InitStep
  BY <1>3, ConstructInv
<1>4. ASSUME NEW t \in CallbackThreads, CallbackStep(t)
      PROVE  ServiceInv'
  BY <1>4, TakeFrontInv, ClearAdaptersInv, PushAdapterInv, RecordDeviceInv,
     CallbackReplyInv DEF CallbackStep
<1>5. CASE WorkerStep
  BY <1>4, <1>5, WorkerTakeInv, WorkerAnsweredInv, WorkerAcceptedInv
     DEF WorkerStep, CallbackThreads
<1>6. CASE NyxStep
  BY <1>4, <1>6, NyxCallbackInv DEF NyxStep, CallbackThreads
<1>8. CASE NyxForgets
  BY <1>8, NyxForgetsInv
<1>7. CASE UNCHANGED vars
  BY <1>7 DEF vars, busVars, clientVars, queueVars, listVars, frameVars, ServiceInv,
     TypeOK, RegistryType, QueueType, ListType, ThreadType, ItemsFit,
     CommandsCoverMessages, Owed, AtFront, CastSafe
<1> QED
  BY <1>1, <1>2, <1>3, <1>5, <1>6, <1>7, <1>8 DEF Next

\* The service keeps its invariant: the types above all (TypeOK).
THEOREM ServiceInvariant == SafeSpec => []ServiceInv
<1>1. Init => ServiceInv
  BY InitServiceInv
<1>2. ServiceInv /\ [Next]_vars => ServiceInv'
  BY NextServiceInv
<1> QED
  BY <1>1, <1>2, PTL DEF SafeSpec

\* The types of the service's state, the locals of its threads included.
THEOREM ServiceTypes == SafeSpec => []TypeOK
<1>1. ServiceInv => TypeOK
  BY DEF ServiceInv
<1> QED
  BY <1>1, ServiceInvariant, PTL

\* There are never more messages and answers under way than commands that
\* wait in mCmdList, whatever nyx does and whatever m_clients loses.
THEOREM EveryMessageHasCommand == SafeSpec => []CommandsCoverMessages
<1>1. ServiceInv => CommandsCoverMessages
  BY DEF ServiceInv
<1> QED
  BY <1>1, ServiceInvariant, PTL

\* No callback finds the command list empty: the message it answers is covered.
THEOREM FrontIsDefined == SafeSpec => []FrontDefined
<1>1. ServiceInv => FrontDefined
  <2> SUFFICES ASSUME ServiceInv, NEW t \in CallbackThreads, pc[t] = "front"
               PROVE  mCmdList # <<>>
    BY DEF FrontDefined, ServiceInv
  <2> USE DEF Parts
  <2>1. Parts
    BY InvariantParts
  <2>2. Len(mCmdList) >= 1
    BY <2>1, LenProperties DEF CommandsCoverMessages, Owed, AtFront, QueueType,
       CallbackThreads
  <2> QED
    BY <2>2
<1> QED
  BY <1>1, ServiceInvariant, PTL

\* The unchecked casts of parseResponseObject are to the right type.
THEOREM CastsAreSafe == SafeSpec => []CastSafe
<1>1. ServiceInv => CastSafe
  BY DEF ServiceInv
<1> QED
  BY <1>1, ServiceInvariant, PTL

-----------------------------------------------------------------------------
(* What the actions do to the thread that takes them.                      *)

\* A thread that goes somewhere is there, and the others stay.
LEMMA GotoMoves ==
  ASSUME ServiceInv, NEW t \in Threads, NEW l, Goto(t, l)
  PROVE  pc'[t] = l /\ \A u \in Threads \ {t} : pc'[u] = pc[u]
BY InvariantParts DEF Goto, Parts, ThreadType

LEMMA ThreadNames ==
  /\ Threads = {"main", "worker", "nyx"} /\ CallbackThreads = {"worker", "nyx"}
  /\ \A t \in CallbackThreads : t \in Threads /\ t # "main"
BY DEF Threads, CallbackThreads

\* The steps that leave the commands, the messages and the numbers alone: the
\* validation, the parsing of lines, and the replies.
Quiet ==
  /\ UNCHANGED <<issued, init, mCmdList, queueVars, cmd, handler>>
  /\ \A t \in CallbackThreads :
       /\ resp'[t].of = resp[t].of
       /\ \/ pc'[t] = pc[t]
          \/ /\ pc[t] \in {"clear", "adapters", "devices", "reply", "erase"}
             /\ pc'[t] \in {"adapters", "devices", "reply", "erase", "idle"}
             /\ pc[t] = "erase" => pc'[t] = "idle"
             /\ pc[t] = "reply" => pc'[t] \in {"erase", "idle"}
  /\ \/ pc'["main"] = pc["main"]
     \/ /\ pc["main"] \in {"adapter", "address", "reply", "erase"}
        /\ pc'["main"] \in {"address", "push", "reply", "erase", "idle"}
        /\ pc["main"] = "erase" => pc'["main"] = "idle"
        /\ pc["main"] = "reply" => pc'["main"] \in {"erase", "idle"}
        /\ pc["main"] = "adapter" => init = "done"

LEMMA ValidationMoves ==
  ASSUME ServiceInv, ValidateAdapter \/ ValidateAddress
  PROVE  /\ pc["main"] \in {"adapter", "address"}
         /\ pc["main"] = "adapter" => init = "done"
         /\ pc'["main"] \in {"address", "push", "reply"}
         /\ \A t \in CallbackThreads : pc'[t] = pc[t]
         /\ UNCHANGED <<busVars, clientVars, init, mCmdList, queueVars, listVars,
                        cmd, frameVars>>
<1>1. \E l \in {"address", "push", "reply"} : Goto("main", l)
  BY DEF ValidateAdapter, ValidateAddress, JudgeRest, Refuse, Accept
<1>2. /\ pc'["main"] \in {"address", "push", "reply"}
      /\ \A t \in CallbackThreads : pc'[t] = pc[t]
  BY <1>1, GotoMoves, ThreadNames
<1> QED
  BY <1>2 DEF ValidateAdapter, ValidateAddress

LEMMA ParseMoves ==
  ASSUME ServiceInv, NEW t \in CallbackThreads,
         ClearAdapters(t) \/ PushAdapter(t) \/ RecordDevice(t)
  PROVE  /\ pc[t] \in {"clear", "adapters", "devices"}
         /\ pc'[t] \in {"adapters", "devices", "reply"}
         /\ \A u \in Threads \ {t} : pc'[u] = pc[u]
         /\ \A u \in CallbackThreads : resp'[u].of = resp[u].of
         /\ UNCHANGED <<busVars, clientVars, init, mCmdList, queueVars, cmd, handler>>
<1>0. Parts
  BY InvariantParts
<1>1. \E l \in {"adapters", "devices", "reply"} : Goto(t, l)
  BY DEF ClearAdapters, PushAdapter, RecordDevice, NextItem
<1>2. /\ pc'[t] \in {"adapters", "devices", "reply"}
      /\ \A u \in Threads \ {t} : pc'[u] = pc[u]
  BY <1>1, GotoMoves, ThreadNames
<1>3. \A u \in CallbackThreads : resp'[u].of = resp[u].of
  <2>1. CASE ClearAdapters(t)
    BY <2>1 DEF ClearAdapters, frameVars
  <2>2. CASE NextItem(t, "adapters") \/ NextItem(t, "devices")
    <3>1. resp \in [CallbackThreads -> ResponseRecord]
      BY <1>0 DEF Parts, ThreadType
    <3>2. resp' = [resp EXCEPT ![t].items = Tail(resp[t].items)]
      BY <2>2 DEF NextItem
    <3>3. ASSUME NEW u \in CallbackThreads PROVE resp'[u].of = resp[u].of
      <4>1. resp[u] \in ResponseRecord
        BY <3>1
      <4> QED
        BY <3>1, <3>2, <4>1 DEF ResponseRecord
    <3> QED
      BY <3>3
  <2> QED
    BY <2>1, <2>2 DEF PushAdapter, RecordDevice
<1>4. /\ pc[t] \in {"clear", "adapters", "devices"}
      /\ UNCHANGED <<busVars, clientVars, init, mCmdList, queueVars, cmd, handler>>
  BY DEF ClearAdapters, PushAdapter, RecordDevice, frameVars
<1> QED
  BY <1>2, <1>3, <1>4

LEMMA ReplyMoves ==
  ASSUME ServiceInv, NEW t \in Threads, ReplyStep(t)
  PROVE  /\ \/ pc[t] = "reply" /\ pc'[t] \in {"erase", "idle"}
            \/ pc[t] = "erase" /\ pc'[t] = "idle"
         /\ \A u \in Threads \ {t} : pc'[u] = pc[u]
         /\ UNCHANGED <<issued, m_clientId, init, mCmdList, queueVars, listVars,
                        cmd, frameVars>>
<1>1. \/ pc[t] = "reply" /\ \E l \in {"erase", "idle"} : Goto(t, l)
      \/ pc[t] = "erase" /\ Goto(t, "idle")
  BY DEF ReplyStep, Reply, EraseClient
<1>2. UNCHANGED <<issued, m_clientId, init, mCmdList, queueVars, listVars, cmd,
                  frameVars>>
  BY DEF ReplyStep, Reply, EraseClient, busVars, clientVars
<1> QED
  BY <1>1, <1>2, GotoMoves

LEMMA QuietSteps ==
  ASSUME ServiceInv,
         \/ ValidateAdapter \/ ValidateAddress
         \/ \E t \in CallbackThreads :
              ClearAdapters(t) \/ PushAdapter(t) \/ RecordDevice(t)
         \/ \E t \in Threads : ReplyStep(t)
         \/ UNCHANGED vars
  PROVE  Quiet
<1>1. CASE ValidateAdapter \/ ValidateAddress
  BY <1>1, ValidationMoves DEF Quiet, busVars, frameVars
<1>2. CASE \E t \in CallbackThreads :
             ClearAdapters(t) \/ PushAdapter(t) \/ RecordDevice(t)
  BY <1>2, ParseMoves, ThreadNames DEF Quiet, busVars
<1>3. CASE \E t \in Threads : ReplyStep(t)
  BY <1>3, ReplyMoves, ThreadNames DEF Quiet, frameVars
<1>4. CASE UNCHANGED vars
  BY <1>4 DEF vars, Quiet, busVars, frameVars
<1> QED
  BY <1>1, <1>2, <1>3, <1>4

\* The steps of the service, the quiet ones taken together.
LEMMA Steps ==
  ASSUME ServiceInv, [Next]_vars
  PROVE  \/ \E r \in Requests : BusRequest(r)
         \/ InsertClient \/ PushCommand \/ EnqueueMessage
         \/ ConstructPush \/ ConstructEnqueue
         \/ WorkerTake \/ WorkerAnswered \/ WorkerAccepted
         \/ NyxCallback \/ NyxForgets
         \/ \E t \in CallbackThreads : TakeFront(t)
         \/ Quiet
BY QuietSteps, ThreadNames DEF Next, MainStep, InitStep, WorkerStep, NyxStep, CallbackStep

\* What is left of a sequence keeps its order.
LEMMA RemoveAtElements ==
  ASSUME NEW S, NEW s \in Seq(S), NEW i \in DOMAIN s, NEW j \in 1..(Len(s) - 1)
  PROVE  RemoveAt(s, i)[j] = s[IF j < i THEN j ELSE j + 1]
<1> DEFINE low == SubSeq(s, 1, i - 1)
           high == SubSeq(s, i + 1, Len(s))
<1>1. i \in 1..Len(s) /\ Len(s) \in Nat
  BY LenProperties
<1>2. /\ low \in Seq(S) /\ Len(low) = i - 1
      /\ \A k \in 1..(i - 1) : low[k] = s[k]
  BY <1>1, SMT
<1>3. /\ high \in Seq(S) /\ Len(high) = Len(s) - i
      /\ \A k \in 1..(Len(s) - i) : high[k] = s[k + i]
  BY <1>1, SMT
<1>4. RemoveAt(s, i) = low \o high
  BY Zenon DEF RemoveAt
<1> HIDE DEF low, high
<1>5. \A k \in 1..(Len(low) + Len(high)) :
        (low \o high)[k] = IF k <= Len(low) THEN low[k] ELSE high[k - Len(low)]
  BY <1>2, <1>3, ConcatProperties, Zenon
<1>6. j \in 1..(Len(low) + Len(high))
  BY <1>1, <1>2, <1>3
<1>7. (low \o high)[j] = IF j <= Len(low) THEN low[j] ELSE high[j - Len(low)]
  BY <1>5, <1>6
<1>8. CASE j < i
  BY <1>1, <1>2, <1>4, <1>7, <1>8
<1>9. CASE ~(j < i)
  <2>1. ~(j <= Len(low)) /\ j - Len(low) \in 1..(Len(s) - i) /\ j - Len(low) + i = j + 1
    BY <1>1, <1>2, <1>9
  <2> QED
    BY <1>3, <1>4, <1>7, <1>9, <2>1
<1> QED
  BY <1>8, <1>9

LEMMA AppendFacts ==
  ASSUME NEW S, NEW s \in Seq(S), NEW x \in S
  PROVE  /\ Append(s, x) \in Seq(S)
         /\ Len(Append(s, x)) = Len(s) + 1
         /\ \A i \in 1..Len(s) : Append(s, x)[i] = s[i]
         /\ Append(s, x)[Len(s) + 1] = x
BY AppendProperties, LenProperties

LEMMA TailFacts ==
  ASSUME NEW S, NEW s \in Seq(S), s # <<>>
  PROVE  /\ Head(s) = s[1] /\ Tail(s) \in Seq(S)
         /\ Len(s) >= 1 /\ Len(Tail(s)) = Len(s) - 1
         /\ \A i \in 1..(Len(s) - 1) : Tail(s)[i] = s[i + 1]
BY HeadTailProperties, EmptySeq, LenProperties

-----------------------------------------------------------------------------
(* What the other actions do, element by element.                          *)

LEMMA BusMoves ==
  ASSUME ServiceInv, NEW r \in Requests, BusRequest(r)
  PROVE  /\ pc["main"] = "idle" /\ MaySend
         /\ pc'["main"] \in {"idle", "insert"}
         /\ \A t \in CallbackThreads : pc'[t] = pc[t]
         /\ Len(issued') = Len(issued) + 1 /\ Len(issued) < MaxRequests
         /\ \A k \in 1..Len(issued) : issued'[k] = issued[k]
         /\ UNCHANGED <<clientVars, init, mCmdList, queueVars, listVars, cmd,
                        frameVars, refusal>>
<1>0. Parts
  BY InvariantParts
<1>1. issued' = Append(issued, [req |-> r, seen |-> Elements(mAdaptersList)])
  BY DEF BusRequest
<1>2. issued \in Seq(IssuedRecord)
  BY <1>0 DEF Parts, RegistryType
<1>3. [req |-> r, seen |-> Elements(mAdaptersList)] \in IssuedRecord
  BY <1>0 DEF Parts, ListType, Elements, IssuedRecord
<1> DEFINE new == [req |-> r, seen |-> Elements(mAdaptersList)]
<1> HIDE DEF new
<1>4. /\ Len(issued') = Len(issued) + 1
      /\ \A k \in 1..Len(issued) : issued'[k] = issued[k]
  <2>1. issued' = Append(issued, new) /\ new \in IssuedRecord
    BY <1>1, <1>3, Zenon DEF new
  <2> QED
    BY <1>2, <2>1, AppendFacts
<1>5. /\ pc'["main"] \in {"idle", "insert"}
      /\ \A t \in CallbackThreads : pc'[t] = pc[t]
  BY GotoMoves, ThreadNames DEF BusRequest
<1> QED
  BY <1>4, <1>5 DEF BusRequest, MaySend

LEMMA InsertMoves ==
  ASSUME ServiceInv, InsertClient
  PROVE  /\ pc["main"] = "insert" /\ pc'["main"] = "adapter"
         /\ \A t \in CallbackThreads : pc'[t] = pc[t] /\ cmd'[t] = cmd[t]
         /\ cmd'["main"].n = Len(issued)
         /\ cmd'["main"].id = NextId
         /\ cmd'["main"].type = Current.type
         /\ UNCHANGED <<busVars, init, mCmdList, queueVars, listVars, frameVars>>
<1>0. Parts
  BY InvariantParts
<1> DEFINE new == [n |-> Len(issued), id |-> NextId, type |-> Current.type]
<1>1. cmd' = [cmd EXCEPT !["main"] = new] /\ Goto("main", "adapter")
  BY DEF InsertClient
<1>2. new.n = Len(issued) /\ new.id = NextId /\ new.type = Current.type
  OBVIOUS
<1> HIDE DEF new
<1>3. cmd'["main"] = new /\ \A t \in CallbackThreads : cmd'[t] = cmd[t]
  BY <1>0, <1>1, ThreadNames DEF Parts, ThreadType
<1>4. pc'["main"] = "adapter" /\ \A t \in CallbackThreads : pc'[t] = pc[t]
  BY <1>1, GotoMoves, ThreadNames
<1> QED
  BY <1>2, <1>3, <1>4 DEF InsertClient

LEMMA PushMoves ==
  ASSUME ServiceInv, PushCommand
  PROVE  /\ pc["main"] = "push" /\ pc'["main"] = "enqueue"
         /\ \A t \in CallbackThreads : pc'[t] = pc[t]
         /\ Len(mCmdList') = Len(mCmdList) + 1
         /\ \A i \in 1..Len(mCmdList) : mCmdList'[i] = mCmdList[i]
         /\ mCmdList'[Len(mCmdList) + 1] = cmd["main"]
         /\ UNCHANGED <<busVars, clientVars, init, queueVars, listVars, cmd,
                        frameVars>>
<1>0. Parts
  BY InvariantParts
<1>1. cmd["main"] \in CommandRecord /\ mCmdList \in Seq(CommandRecord)
  BY <1>0, ThreadNames DEF Parts, ThreadType, QueueType
<1>2. mCmdList' = Append(mCmdList, cmd["main"]) /\ Goto("main", "enqueue")
  BY DEF PushCommand
<1>3. pc'["main"] = "enqueue" /\ \A t \in CallbackThreads : pc'[t] = pc[t]
  BY <1>2, GotoMoves, ThreadNames
<1> QED
  BY <1>1, <1>2, <1>3, AppendFacts DEF PushCommand

LEMMA EnqueueMoves ==
  ASSUME ServiceInv, EnqueueMessage
  PROVE  /\ pc["main"] = "enqueue" /\ pc'["main"] = "idle"
         /\ \A t \in CallbackThreads : pc'[t] = pc[t]
         /\ Len(mQueue') = Len(mQueue) + 1
         /\ \A i \in 1..Len(mQueue) : mQueue'[i] = mQueue[i]
         /\ mQueue'[Len(mQueue) + 1] = MessageOf(cmd["main"])
         /\ UNCHANGED <<busVars, clientVars, init, mCmdList, mType, sending,
                        pending, listVars, cmd, frameVars>>
<1>0. Parts
  BY InvariantParts
<1>1. MessageOf(cmd["main"]) \in MessageRecord /\ mQueue \in Seq(MessageRecord)
  BY <1>0, ThreadNames DEF Parts, ThreadType, QueueType, MessageOf, CommandRecord,
     MessageRecord
<1>2. mQueue' = Append(mQueue, MessageOf(cmd["main"])) /\ Goto("main", "idle")
  BY DEF EnqueueMessage
<1>3. pc'["main"] = "idle" /\ \A t \in CallbackThreads : pc'[t] = pc[t]
  BY <1>2, GotoMoves, ThreadNames
<1> HIDE DEF MessageOf
<1> QED
  BY <1>1, <1>2, <1>3, AppendFacts DEF EnqueueMessage

LEMMA ConstructMoves ==
  ASSUME ServiceInv
  PROVE  /\ ConstructPush =>
              /\ init = "push" /\ init' = "enqueue"
              /\ Len(mCmdList') = Len(mCmdList) + 1
              /\ \A i \in 1..Len(mCmdList) : mCmdList'[i] = mCmdList[i]
              /\ mCmdList'[Len(mCmdList) + 1] = ConstructorCmd
              /\ UNCHANGED <<busVars, clientVars, queueVars, listVars, pc, cmd,
                             frameVars>>
         /\ ConstructEnqueue =>
              /\ init = "enqueue" /\ init' = "done"
              /\ Len(mQueue') = Len(mQueue) + 1
              /\ \A i \in 1..Len(mQueue) : mQueue'[i] = mQueue[i]
              /\ mQueue'[Len(mQueue) + 1] = MessageOf(ConstructorCmd)
              /\ UNCHANGED <<busVars, clientVars, mCmdList, mType, sending,
                             pending, listVars, pc, cmd, frameVars>>
<1>0. Parts
  BY InvariantParts
<1>1. ConstructorCmd \in CommandRecord /\ MessageOf(ConstructorCmd) \in MessageRecord
  BY <1>0 DEF Parts, ConstructorCmd, CommandRecord, MessageOf, MessageRecord,
     Types, SendTypes
<1>2. mCmdList \in Seq(CommandRecord) /\ mQueue \in Seq(MessageRecord)
  BY <1>0 DEF Parts, QueueType
<1> HIDE DEF ConstructorCmd, MessageOf
<1>3. ASSUME ConstructPush
      PROVE  /\ Len(mCmdList') = Len(mCmdList) + 1
             /\ \A i \in 1..Len(mCmdList) : mCmdList'[i] = mCmdList[i]
             /\ mCmdList'[Len(mCmdList) + 1] = ConstructorCmd
  BY <1>1, <1>2, <1>3, AppendFacts DEF ConstructPush
<1>4. ASSUME ConstructEnqueue
      PROVE  /\ Len(mQueue') = Len(mQueue) + 1
             /\ \A i \in 1..Len(mQueue) : mQueue'[i] = mQueue[i]
             /\ mQueue'[Len(mQueue) + 1] = MessageOf(ConstructorCmd)
  BY <1>1, <1>2, <1>4, AppendFacts DEF ConstructEnqueue
<1> QED
  BY <1>3, <1>4 DEF ConstructPush, ConstructEnqueue

LEMMA TakeMoves ==
  ASSUME ServiceInv, WorkerTake
  PROVE  /\ pc["worker"] = "idle" /\ Len(sending) = 0 /\ Len(sending') = 1
         /\ Len(mQueue) >= 1 /\ Len(mQueue') = Len(mQueue) - 1
         /\ \A i \in 1..(Len(mQueue) - 1) : mQueue'[i] = mQueue[i + 1]
         /\ sending'[1] = mQueue[1] /\ mType' = mQueue[1].type
         /\ UNCHANGED <<busVars, clientVars, init, mCmdList, pending, listVars,
                        pc, cmd, frameVars>>
<1>0. Parts
  BY InvariantParts
<1>1. mQueue \in Seq(MessageRecord) /\ mQueue # <<>>
  BY <1>0 DEF Parts, QueueType, WorkerTake
<1>2. /\ sending = <<>> /\ sending' = <<mQueue[1]>>
      /\ mQueue' = Tail(mQueue) /\ mType' = mQueue[1].type
  BY <1>1, TailFacts DEF WorkerTake
<1>3. Len(sending) = 0 /\ Len(sending') = 1 /\ sending'[1] = mQueue[1]
  BY <1>2
<1>4. /\ Len(mQueue) >= 1 /\ Len(mQueue') = Len(mQueue) - 1
      /\ \A i \in 1..(Len(mQueue) - 1) : mQueue'[i] = mQueue[i + 1]
  BY <1>1, <1>2, TailFacts
<1> QED
  BY <1>2, <1>3, <1>4 DEF WorkerTake

\* A callback thread that is called goes to the critical section, with the
\* number of the message answered and the type of the message sent last.
Enters(t, number) ==
  /\ pc[t] = "idle" /\ pc'[t] = "front"
  /\ \A u \in Threads \ {t} : pc'[u] = pc[u]
  /\ handler'[t] = mType /\ resp'[t].of = number
  /\ \A u \in CallbackThreads \ {t} : handler'[u] = handler[u] /\ resp'[u] = resp[u]

LEMMA EnterMoves ==
  ASSUME ServiceInv, NEW t \in CallbackThreads, NEW m, NEW a, pc[t] = "idle",
         EnterCallback(t, m, a)
  PROVE  Enters(t, m.n)
<1>0. Parts
  BY InvariantParts
<1> DEFINE new == [of |-> m.n, none |-> a.none, items |-> Items(mType, a)]
<1>1. /\ Goto(t, "front") /\ handler' = [handler EXCEPT ![t] = mType]
      /\ resp' = [resp EXCEPT ![t] = new]
  BY DEF EnterCallback
<1>2. new.of = m.n
  OBVIOUS
<1> HIDE DEF new
<1>3. pc'[t] = "front" /\ \A u \in Threads \ {t} : pc'[u] = pc[u]
  BY <1>1, GotoMoves, ThreadNames
<1>4. /\ handler'[t] = mType /\ resp'[t] = new
      /\ \A u \in CallbackThreads \ {t} : handler'[u] = handler[u] /\ resp'[u] = resp[u]
  BY <1>0, <1>1 DEF Parts, ThreadType
<1> QED
  BY <1>2, <1>3, <1>4 DEF Enters

LEMMA SendingOne ==
  ASSUME ServiceInv, sending # <<>>
  PROVE  Len(sending) = 1 /\ Head(sending) = sending[1] /\ sending[1] \in MessageRecord
<1>1. sending \in Seq(MessageRecord) /\ Len(sending) <= 1
  BY InvariantParts DEF Parts, QueueType
<1>2. Head(sending) = sending[1] /\ Len(sending) >= 1 /\ Head(sending) \in MessageRecord
  BY <1>1, TailFacts, HeadTailFacts
<1>3. Len(sending) \in Nat
  BY <1>1, LenProperties
<1>4. Len(sending) \in Nat /\ Len(sending) <= 1 /\ Len(sending) >= 1
  BY <1>1, <1>2, <1>3
<1>5. Len(sending) = 1
  BY <1>4, SMT
<1> QED
  BY <1>2, <1>5

LEMMA AnsweredMoves ==
  ASSUME ServiceInv, WorkerAnswered
  PROVE  /\ Enters("worker", sending[1].n)
         /\ Len(sending) = 1 /\ Len(sending') = 0 /\ sending' = <<>>
         /\ UNCHANGED <<busVars, clientVars, init, mCmdList, mQueue, mType,
                        pending, listVars, cmd>>
<1>1. sending # <<>> /\ sending' = <<>> /\ pc["worker"] = "idle"
  BY DEF WorkerAnswered
<1>2. \E a : EnterCallback("worker", Head(sending), a)
  BY DEF WorkerAnswered
<1>3. Len(sending) = 1 /\ Head(sending) = sending[1]
  BY <1>1, SendingOne
<1>4. Enters("worker", sending[1].n)
  BY <1>1, <1>2, <1>3, EnterMoves, ThreadNames
<1>5. Len(sending') = 0
  BY <1>1
<1> QED
  BY <1>1, <1>3, <1>4, <1>5 DEF WorkerAnswered

LEMMA AcceptedMoves ==
  ASSUME ServiceInv, WorkerAccepted
  PROVE  /\ NyxAsync /\ pc["worker"] = "idle"
         /\ Len(sending) = 1 /\ Len(sending') = 0 /\ sending' = <<>>
         /\ Len(pending') = Len(pending) + 1
         /\ \A i \in 1..Len(pending) : pending'[i] = pending[i]
         /\ pending'[Len(pending) + 1] = sending[1]
         /\ UNCHANGED <<busVars, clientVars, init, mCmdList, mQueue, mType,
                        listVars, pc, cmd, frameVars>>
<1>0. Parts
  BY InvariantParts
<1>1. sending # <<>> /\ sending' = <<>> /\ pending' = Append(pending, Head(sending))
  BY DEF WorkerAccepted
<1>2. Len(sending) = 1 /\ Head(sending) = sending[1] /\ sending[1] \in MessageRecord
  BY <1>1, SendingOne
<1>3. pending \in Seq(PendingRecord) /\ sending[1] \in PendingRecord
  BY <1>0, <1>2 DEF Parts, QueueType, WorkerAccepted, MessageRecord, PendingRecord
<1>4. /\ Len(pending') = Len(pending) + 1
      /\ \A i \in 1..Len(pending) : pending'[i] = pending[i]
      /\ pending'[Len(pending) + 1] = sending[1]
  BY <1>1, <1>2, <1>3, AppendFacts
<1>5. Len(sending') = 0
  BY <1>1
<1> QED
  BY <1>1, <1>2, <1>4, <1>5 DEF WorkerAccepted

\* Message i of those nyx holds goes.
Drops(i) ==
  /\ Len(pending') = Len(pending) - 1
  /\ \A j \in 1..(Len(pending) - 1) :
       pending'[j] = pending[IF j < i THEN j ELSE j + 1]

LEMMA NyxMoves ==
  ASSUME ServiceInv, NyxCallback
  PROVE  /\ \E i \in 1..Len(pending) : Drops(i) /\ Enters("nyx", pending[i].n)
         /\ UNCHANGED <<busVars, clientVars, init, mCmdList, mQueue, mType,
                        sending, listVars, cmd>>
<1>1. PICK i \in DOMAIN pending :
        /\ pending' = RemoveAt(pending, i)
        /\ \E a : EnterCallback("nyx", pending[i], a)
  BY DEF NyxCallback
<1>2. pending \in Seq(PendingRecord) /\ i \in 1..Len(pending)
  BY InvariantParts, LenProperties DEF Parts, QueueType
<1>3. Drops(i)
  BY <1>1, <1>2, RemoveAtFacts, RemoveAtElements DEF Drops
<1>4. Enters("nyx", pending[i].n)
  BY <1>1, EnterMoves, ThreadNames DEF NyxCallback
<1> QED
  BY <1>2, <1>3, <1>4 DEF NyxCallback

LEMMA ForgetMoves ==
  ASSUME ServiceInv, NyxForgets
  PROVE  /\ NyxLossy /\ \E i \in 1..Len(pending) : Drops(i)
         /\ UNCHANGED <<busVars, clientVars, init, mCmdList, mQueue, mType,
                        sending, listVars, pc, cmd, frameVars>>
<1>1. PICK i \in DOMAIN pending : pending' = RemoveAt(pending, i)
  BY DEF NyxForgets
<1>2. pending \in Seq(PendingRecord) /\ i \in 1..Len(pending)
  BY InvariantParts, LenProperties DEF Parts, QueueType
<1>3. Drops(i)
  BY <1>1, <1>2, RemoveAtFacts, RemoveAtElements DEF Drops
<1> QED
  BY <1>2, <1>3 DEF NyxForgets

\* A callback takes the front of the list, of its own type, or drops its answer.
Takes(t) ==
  /\ mCmdList[1].type = handler[t]
  /\ Len(mCmdList') = Len(mCmdList) - 1
  /\ \A i \in 1..(Len(mCmdList) - 1) : mCmdList'[i] = mCmdList[i + 1]
  /\ cmd'[t] = mCmdList[1] /\ \A u \in Threads \ {t} : cmd'[u] = cmd[u]
  /\ pc'[t] \in {"clear", "devices", "reply"}

LEMMA FrontMoves ==
  ASSUME ServiceInv, NEW t \in CallbackThreads, TakeFront(t)
  PROVE  /\ pc[t] = "front" /\ Len(mCmdList) >= 1
         /\ \/ Takes(t)
            \/ /\ mCmdList[1].type # handler[t]
               /\ pc'[t] = "idle" /\ UNCHANGED <<mCmdList, cmd>>
         /\ \A u \in Threads \ {t} : pc'[u] = pc[u]
         /\ UNCHANGED <<busVars, clientVars, init, queueVars, listVars, frameVars>>
<1>0. Parts
  BY InvariantParts
<1>1. mCmdList \in Seq(CommandRecord) /\ mCmdList # <<>>
  BY <1>0 DEF Parts, QueueType, TakeFront
<1>2. /\ Head(mCmdList) = mCmdList[1] /\ Len(mCmdList) >= 1
      /\ Len(Tail(mCmdList)) = Len(mCmdList) - 1
      /\ \A i \in 1..(Len(mCmdList) - 1) : Tail(mCmdList)[i] = mCmdList[i + 1]
  BY <1>1, TailFacts
<1>3. \/ /\ mCmdList[1].type = handler[t]
         /\ mCmdList' = Tail(mCmdList)
         /\ cmd' = [cmd EXCEPT ![t] = mCmdList[1]]
         /\ Goto(t, AfterTake(t))
      \/ /\ mCmdList[1].type # handler[t]
         /\ Goto(t, "idle") /\ UNCHANGED <<mCmdList, cmd>>
  BY <1>2 DEF TakeFront
<1>4. AfterTake(t) \in {"clear", "devices", "reply"}
  BY DEF AfterTake
<1>5. \A u \in Threads \ {t} : pc'[u] = pc[u]
  BY <1>3, GotoMoves, ThreadNames
<1>6. \/ Takes(t)
      \/ mCmdList[1].type # handler[t] /\ pc'[t] = "idle" /\ UNCHANGED <<mCmdList, cmd>>
  <2>1. CASE mCmdList[1].type = handler[t]
    <3>1. pc'[t] = AfterTake(t)
      BY <1>3, <2>1, GotoMoves, ThreadNames
    <3>2. cmd'[t] = mCmdList[1] /\ \A u \in Threads \ {t} : cmd'[u] = cmd[u]
      BY <1>0, <1>3, <2>1, ThreadNames DEF Parts, ThreadType
    <3> QED
      BY <1>2, <1>3, <1>4, <2>1, <3>1, <3>2 DEF Takes
  <2>2. CASE mCmdList[1].type # handler[t]
    BY <1>3, <2>2, GotoMoves, ThreadNames
  <2> QED
    BY <2>1, <2>2
<1> QED
  BY <1>2, <1>5, <1>6 DEF TakeFront

-----------------------------------------------------------------------------
(* Numbers: every command and message bears the number of a request that   *)
(* was issued, and its type; 0 is the constructor's.                       *)

TypeOf(n) == IF n = 0 THEN "LIST_ADAPTERS" ELSE issued[n].req.type

\* The command main works on is the last request's.
MainWorks ==
  pc["main"] \notin {"idle", "insert"} =>
    cmd["main"].n = Len(issued) /\ cmd["main"].type = Current.type

CommandsIssued ==
  \A i \in 1..Len(mCmdList) :
    mCmdList[i].n <= Len(issued) /\ mCmdList[i].type = TypeOf(mCmdList[i].n)

MessagesIssued ==
  /\ \A i \in 1..Len(mQueue) : mQueue[i].n <= Len(issued)
  /\ \A i \in 1..Len(sending) : sending[i].n <= Len(issued)
  /\ \A i \in 1..Len(pending) : pending[i].n <= Len(issued)
  /\ \A t \in Threads : cmd[t].n <= Len(issued)
  /\ \A t \in CallbackThreads : resp[t].of <= Len(issued)

\* Until the constructor is done its own command is the only one.
Starting ==
  /\ init = "push" => Len(mCmdList) = 0
  /\ init = "enqueue" => Len(mCmdList) = 1 /\ mCmdList[1] = ConstructorCmd
  /\ init # "done" =>
       /\ Len(mQueue) = 0 /\ Len(sending) = 0 /\ Len(pending) = 0
       /\ \A t \in CallbackThreads : pc[t] = "idle"
       /\ pc["main"] \in {"idle", "insert", "adapter"}

Books == MainWorks /\ CommandsIssued /\ MessagesIssued /\ Starting

\* The types of what the queues and the threads hold.
LEMMA HeldTypes ==
  ASSUME ServiceInv
  PROVE  /\ Len(issued) \in Nat /\ Len(issued) <= MaxRequests /\ MaxRequests \in Nat
         /\ Len(mCmdList) \in Nat /\ Len(mQueue) \in Nat /\ Len(sending) \in Nat
         /\ Len(pending) \in Nat /\ Len(sending) <= 1
         /\ \A i \in 1..Len(mCmdList) : mCmdList[i] \in CommandRecord /\ mCmdList[i].n \in Nat
         /\ \A i \in 1..Len(mQueue) : mQueue[i] \in MessageRecord /\ mQueue[i].n \in Nat
         /\ \A i \in 1..Len(sending) : sending[i] \in MessageRecord /\ sending[i].n \in Nat
         /\ \A i \in 1..Len(pending) : pending[i] \in PendingRecord /\ pending[i].n \in Nat
         /\ \A t \in Threads : cmd[t] \in CommandRecord /\ cmd[t].n \in Nat
         /\ \A t \in CallbackThreads : resp[t] \in ResponseRecord /\ resp[t].of \in Nat
         /\ \A t \in CallbackThreads : pc[t] \in CallbackPcs
         /\ pc["main"] \in MainPcs
<1> USE DEF Parts
<1>0. Parts
  BY InvariantParts
<1>1. /\ issued \in Seq(IssuedRecord) /\ Len(issued) <= MaxRequests
      /\ mCmdList \in Seq(CommandRecord) /\ mQueue \in Seq(MessageRecord)
      /\ sending \in Seq(MessageRecord) /\ pending \in Seq(PendingRecord)
      /\ Len(sending) <= 1
      /\ cmd \in [Threads -> CommandRecord]
      /\ resp \in [CallbackThreads -> ResponseRecord]
      /\ pc["main"] \in MainPcs
      /\ \A t \in CallbackThreads : pc[t] \in CallbackPcs
  BY <1>0 DEF RegistryType, QueueType, ThreadType, ItemsFit
<1>2. /\ \A c \in CommandRecord : c.n \in Nat
      /\ \A m \in MessageRecord : m.n \in Nat
      /\ \A m \in PendingRecord : m.n \in Nat
      /\ \A a \in ResponseRecord : a.of \in Nat
  BY <1>0 DEF CommandRecord, MessageRecord, PendingRecord, ResponseRecord
<1>3. /\ \A i \in 1..Len(mCmdList) : mCmdList[i] \in CommandRecord
      /\ \A i \in 1..Len(mQueue) : mQueue[i] \in MessageRecord
      /\ \A i \in 1..Len(sending) : sending[i] \in MessageRecord
      /\ \A i \in 1..Len(pending) : pending[i] \in PendingRecord
  BY <1>1, ElementOfSeq
<1>4. /\ Len(issued) \in Nat /\ Len(mCmdList) \in Nat /\ Len(mQueue) \in Nat
      /\ Len(sending) \in Nat /\ Len(pending) \in Nat
  BY <1>1, LenProperties
<1> QED
  BY <1>0, <1>1, <1>2, <1>3, <1>4

LEMMA InitBooks == Init => Books
<1> SUFFICES ASSUME Init PROVE Books
  OBVIOUS
<1>1. /\ pc["main"] = "idle" /\ \A t \in CallbackThreads : pc[t] = "idle"
      /\ \A t \in Threads : cmd[t].n = 0
      /\ \A t \in CallbackThreads : resp[t].of = 0
  BY DEF Init, Threads, CallbackThreads, ConstructorCmd, NoAnswer
<1>2. /\ Len(issued) = 0 /\ Len(mCmdList) = 0 /\ Len(mQueue) = 0
      /\ Len(sending) = 0 /\ Len(pending) = 0 /\ init = "push"
  BY EmptySeq DEF Init
<1> QED
  BY <1>1, <1>2 DEF Books, MainWorks, CommandsIssued, MessagesIssued, Starting

\* Nothing but a request from a client changes what was issued.
LEMMA SameTypes ==
  ASSUME ServiceInv, UNCHANGED issued
  PROVE  /\ \A n : TypeOf(n)' = TypeOf(n)
         /\ Current' = Current
BY DEF TypeOf, Current

LEMMA MainWorksStep ==
  ASSUME ServiceInv, [Next]_vars, MainWorks
  PROVE  MainWorks'
<1>1. CASE \E r \in Requests : BusRequest(r)
  BY <1>1, BusMoves DEF MainWorks
<1>2. CASE InsertClient
  <2>1. UNCHANGED issued
    BY <1>2 DEF InsertClient, busVars
  <2> QED
    BY <1>2, <2>1, InsertMoves, SameTypes DEF MainWorks
<1>3. CASE UNCHANGED <<issued, cmd["main"]>> /\ (pc'["main"] = pc["main"] \/ pc["main"] \notin {"idle", "insert"})
  BY <1>3, SameTypes DEF MainWorks
<1>4. CASE PushCommand \/ EnqueueMessage
  BY <1>3, <1>4, PushMoves, EnqueueMoves DEF busVars
<1>5. CASE ConstructPush \/ ConstructEnqueue
  BY <1>3, <1>5, ConstructMoves DEF busVars
<1>6. CASE WorkerTake \/ WorkerAnswered \/ WorkerAccepted \/ NyxCallback \/ NyxForgets
  BY <1>3, <1>6, TakeMoves, AnsweredMoves, AcceptedMoves, NyxMoves, ForgetMoves,
     ThreadNames DEF busVars, Enters
<1>7. CASE \E t \in CallbackThreads : TakeFront(t)
  BY <1>3, <1>7, FrontMoves, ThreadNames DEF busVars, Takes
<1>8. CASE Quiet
  BY <1>3, <1>8 DEF Quiet
<1> QED
  BY <1>1, <1>2, <1>4, <1>5, <1>6, <1>7, <1>8, Steps

LEMMA CommandsIssuedStep ==
  ASSUME ServiceInv, [Next]_vars, MainWorks, CommandsIssued
  PROVE  CommandsIssued'
<1>0. /\ Len(issued) \in Nat /\ Len(mCmdList) \in Nat
      /\ \A i \in 1..Len(mCmdList) : mCmdList[i].n \in Nat
  BY HeldTypes
<1>1. CASE \E r \in Requests : BusRequest(r)
  <2>1. /\ Len(issued') = Len(issued) + 1 /\ UNCHANGED mCmdList
        /\ \A k \in 1..Len(issued) : issued'[k] = issued[k]
    BY <1>1, BusMoves
  <2>2. ASSUME NEW n \in Nat, n <= Len(issued)
        PROVE  TypeOf(n)' = TypeOf(n)
    BY <1>0, <2>1, <2>2 DEF TypeOf
  <2> QED
    BY <1>0, <2>1, <2>2 DEF CommandsIssued
<1>2. ASSUME UNCHANGED issued, NEW k \in {0, 1}, Len(mCmdList') = Len(mCmdList) - k,
             \A i \in 1..Len(mCmdList') : mCmdList'[i] = mCmdList[i + k]
      PROVE  CommandsIssued'
  <2> SUFFICES ASSUME NEW i \in 1..Len(mCmdList')
               PROVE  /\ mCmdList'[i].n <= Len(issued)
                      /\ mCmdList'[i].type = TypeOf(mCmdList'[i].n)
    BY <1>2, SameTypes DEF CommandsIssued
  <2>1. i + k \in 1..Len(mCmdList) /\ mCmdList'[i] = mCmdList[i + k]
    BY <1>0, <1>2
  <2> QED
    BY <2>1 DEF CommandsIssued
<1>3. ASSUME UNCHANGED <<issued, mCmdList>> PROVE CommandsIssued'
  BY <1>3, SameTypes DEF CommandsIssued
<1>4. CASE PushCommand
  <2>1. cmd["main"].n = Len(issued) /\ cmd["main"].type = Current.type
    BY <1>4, PushMoves DEF MainWorks
  <2>2. issued # <<>>
    BY <1>4, PushMoves, InvariantParts DEF Parts, ThreadType
  <2>3. Len(issued) # 0
    BY <2>2, InvariantParts, EmptySeq DEF Parts, RegistryType
  <2>4. TypeOf(Len(issued)) = Current.type
    BY <2>3 DEF TypeOf, Current
  <2>5. UNCHANGED issued
    BY <1>4 DEF PushCommand, busVars
  <2> QED
    BY <1>0, <1>4, <2>1, <2>4, <2>5, PushMoves, SameTypes DEF CommandsIssued
<1>5. CASE ConstructPush
  <2>1. UNCHANGED issued
    BY <1>5 DEF ConstructPush, busVars
  <2>2. TypeOf(0) = "LIST_ADAPTERS"
    BY DEF TypeOf
  <2> QED
    BY <1>0, <1>5, <2>1, <2>2, ConstructMoves, SameTypes DEF CommandsIssued, ConstructorCmd
<1>6. CASE InsertClient \/ EnqueueMessage \/ ConstructEnqueue
  BY <1>3, <1>6 DEF InsertClient, EnqueueMessage, ConstructEnqueue, busVars
<1>7. CASE WorkerTake \/ WorkerAnswered \/ WorkerAccepted \/ NyxCallback \/ NyxForgets
  BY <1>3, <1>7 DEF WorkerTake, WorkerAnswered, WorkerAccepted, NyxCallback, NyxForgets,
                    busVars
<1>8. CASE \E t \in CallbackThreads : TakeFront(t)
  <2>1. UNCHANGED issued
    BY <1>8 DEF TakeFront, busVars
  <2>2. \/ UNCHANGED mCmdList
        \/ /\ Len(mCmdList') = Len(mCmdList) - 1
           /\ \A i \in 1..(Len(mCmdList) - 1) : mCmdList'[i] = mCmdList[i + 1]
    BY <1>8, FrontMoves DEF Takes
  <2> QED
    BY <1>2, <1>3, <2>1, <2>2
<1>9. CASE Quiet
  BY <1>3, <1>9 DEF Quiet
<1> QED
  BY <1>1, <1>4, <1>5, <1>6, <1>7, <1>8, <1>9, Steps

LEMMA StartingStep ==
  ASSUME ServiceInv, [Next]_vars, Starting
  PROVE  Starting'
<1>0. Len(mCmdList) \in Nat /\ Len(pending) \in Nat
  BY HeldTypes
<1>1. CASE \E r \in Requests : BusRequest(r)
  BY <1>1, BusMoves DEF Starting, queueVars
<1>2. CASE InsertClient
  BY <1>2, InsertMoves DEF Starting, queueVars
<1>3. CASE PushCommand \/ EnqueueMessage
  BY <1>3, PushMoves, EnqueueMoves DEF Starting
<1>4. CASE ConstructPush
  BY <1>0, <1>4, ConstructMoves DEF Starting, queueVars
<1>5. CASE ConstructEnqueue
  BY <1>5, ConstructMoves DEF Starting
<1>6. CASE WorkerTake
  BY <1>6, TakeMoves, HeldTypes DEF Starting
<1>7. CASE WorkerAnswered \/ WorkerAccepted
  BY <1>7, AnsweredMoves, AcceptedMoves DEF Starting
<1>8. CASE NyxCallback \/ NyxForgets
  BY <1>0, <1>8, NyxMoves, ForgetMoves DEF Starting
<1>9. CASE \E t \in CallbackThreads : TakeFront(t)
  BY <1>9, FrontMoves DEF Starting
<1>10. CASE Quiet
  BY <1>10 DEF Quiet, Starting, queueVars
<1> QED
  BY <1>1, <1>2, <1>3, <1>4, <1>5, <1>6, <1>7, <1>8, <1>9, <1>10, Steps

\* What nyx still holds it held before, in the same order.
LEMMA DropsKeeps ==
  ASSUME Len(pending) \in Nat, NEW i \in 1..Len(pending), Drops(i),
         NEW j \in 1..Len(pending')
  PROVE  \E k \in 1..Len(pending) :
           k = (IF j < i THEN j ELSE j + 1) /\ k # i /\ pending'[j] = pending[k]
<1>1. j \in 1..(Len(pending) - 1)
  BY DEF Drops
<1>2. (IF j < i THEN j ELSE j + 1) \in 1..Len(pending)
  BY <1>1
<1> QED
  BY <1>1, <1>2 DEF Drops

LEMMA MessagesIssuedStep ==
  ASSUME ServiceInv, [Next]_vars, MainWorks, CommandsIssued, MessagesIssued
  PROVE  MessagesIssued'
<1>0. /\ Len(issued) \in Nat /\ Len(mCmdList) \in Nat /\ Len(mQueue) \in Nat
      /\ Len(sending) \in Nat /\ Len(pending) \in Nat
      /\ \A t \in Threads : cmd[t].n \in Nat
      /\ \A t \in CallbackThreads : resp[t].of \in Nat
      /\ \A i \in 1..Len(mQueue) : mQueue[i].n \in Nat
      /\ \A i \in 1..Len(sending) : sending[i].n \in Nat
      /\ \A i \in 1..Len(pending) : pending[i].n \in Nat
  BY HeldTypes
<1>1. CASE \E r \in Requests : BusRequest(r)
  BY <1>0, <1>1, BusMoves DEF MessagesIssued, queueVars, frameVars
<1>2. CASE InsertClient
  <2>1. /\ UNCHANGED <<issued, queueVars, resp>> /\ cmd'["main"].n = Len(issued)
        /\ \A t \in CallbackThreads : cmd'[t] = cmd[t]
    BY <1>2, InsertMoves DEF busVars, frameVars
  <2> QED
    BY <1>0, <2>1, ThreadNames, SMTT(30) DEF MessagesIssued, queueVars
<1>3. CASE PushCommand
  BY <1>0, <1>3, PushMoves DEF MessagesIssued, queueVars, busVars, frameVars
<1>4. CASE EnqueueMessage
  <2>1. /\ UNCHANGED <<issued, sending, pending, cmd, resp>>
        /\ Len(mQueue') = Len(mQueue) + 1
        /\ \A i \in 1..Len(mQueue) : mQueue'[i] = mQueue[i]
        /\ mQueue'[Len(mQueue) + 1].n = cmd["main"].n
    BY <1>4, EnqueueMoves DEF busVars, frameVars, MessageOf
  <2>2. \A i \in 1..Len(mQueue') : i \in 1..Len(mQueue) \/ i = Len(mQueue) + 1
    BY <1>0, <2>1
  <2> QED
    BY <1>0, <2>1, <2>2, ThreadNames, SMTT(30) DEF MessagesIssued
<1>5. CASE ConstructPush \/ ConstructEnqueue
  BY <1>0, <1>5, ConstructMoves DEF MessagesIssued, busVars, queueVars, frameVars,
     MessageOf, ConstructorCmd
<1>6. CASE WorkerTake
  <2>1. /\ UNCHANGED <<issued, pending, cmd, resp>>
        /\ Len(mQueue') = Len(mQueue) - 1 /\ Len(mQueue) >= 1
        /\ \A i \in 1..(Len(mQueue) - 1) : mQueue'[i] = mQueue[i + 1]
        /\ Len(sending') = 1 /\ sending'[1] = mQueue[1]
    BY <1>6, TakeMoves DEF busVars, frameVars
  <2>2. ASSUME NEW i \in 1..Len(mQueue')
        PROVE  i + 1 \in 1..Len(mQueue) /\ mQueue'[i] = mQueue[i + 1]
    <3>1. i \in 1..(Len(mQueue) - 1)
      BY <2>1
    <3> QED
      BY <1>0, <2>1, <3>1
  <2>3. 1 \in 1..Len(mQueue) /\ \A i \in 1..Len(sending') : i = 1
    BY <1>0, <2>1
  <2> QED
    BY <2>1, <2>2, <2>3 DEF MessagesIssued
<1>7. CASE WorkerAnswered
  <2>1. /\ UNCHANGED <<issued, pending, cmd, mQueue>>
        /\ Len(sending) = 1 /\ Len(sending') = 0
        /\ \A t \in CallbackThreads : resp'[t].of \in {resp[t].of, sending[1].n}
    BY <1>7, AnsweredMoves, ThreadNames DEF busVars, Enters
  <2> QED
    BY <1>0, <2>1 DEF MessagesIssued
<1>8. CASE WorkerAccepted
  <2>1. /\ UNCHANGED <<issued, cmd, mQueue, resp>>
        /\ Len(sending) = 1 /\ Len(sending') = 0
        /\ Len(pending') = Len(pending) + 1
        /\ \A i \in 1..Len(pending) : pending'[i] = pending[i]
        /\ pending'[Len(pending) + 1] = sending[1]
    BY <1>8, AcceptedMoves DEF busVars, frameVars
  <2> QED
    BY <1>0, <2>1 DEF MessagesIssued
<1>9. CASE NyxCallback
  <2>1. PICK i \in 1..Len(pending) : Drops(i) /\ Enters("nyx", pending[i].n)
    BY <1>9, NyxMoves
  <2>2. UNCHANGED <<issued, cmd, mQueue, sending>>
    BY <1>9, NyxMoves DEF busVars
  <2>3. \A t \in CallbackThreads : resp'[t].of \in {resp[t].of, pending[i].n}
    BY <2>1, ThreadNames DEF Enters
  <2>4. \A j \in 1..Len(pending') : \E k \in 1..Len(pending) : pending'[j] = pending[k]
    BY <1>0, <2>1, DropsKeeps
  <2> QED
    BY <1>0, <2>2, <2>3, <2>4 DEF MessagesIssued
<1>10. CASE NyxForgets
  <2>1. PICK i \in 1..Len(pending) : Drops(i)
    BY <1>10, ForgetMoves
  <2>2. UNCHANGED <<issued, cmd, mQueue, sending, resp>>
    BY <1>10, ForgetMoves DEF busVars, frameVars
  <2>3. \A j \in 1..Len(pending') : \E k \in 1..Len(pending) : pending'[j] = pending[k]
    BY <1>0, <2>1, DropsKeeps
  <2> QED
    BY <1>0, <2>2, <2>3 DEF MessagesIssued
<1>11. CASE \E t \in CallbackThreads : TakeFront(t)
  <2>1. PICK t \in CallbackThreads : TakeFront(t)
    BY <1>11
  <2>2. /\ UNCHANGED <<issued, mQueue, sending, pending, resp>>
        /\ Len(mCmdList) >= 1
        /\ \A u \in Threads : cmd'[u] \in {cmd[u], mCmdList[1]}
    BY <2>1, FrontMoves DEF busVars, queueVars, frameVars, Takes
  <2> QED
    BY <1>0, <2>2 DEF MessagesIssued, CommandsIssued
<1>12. CASE Quiet
  BY <1>12 DEF Quiet, MessagesIssued, queueVars
<1> QED
  BY <1>1, <1>2, <1>3, <1>4, <1>5, <1>6, <1>7, <1>8, <1>9, <1>10, <1>11, <1>12, Steps

\* What main and the constructor are at, and that every command and message in
\* a list or with a thread is of a request that was issued, and of its type.
THEOREM BooksInvariant == SafeSpec => [](ServiceInv /\ Books)
<1>1. Init => ServiceInv /\ Books
  BY InitServiceInv, InitBooks
<1>2. ServiceInv /\ Books /\ [Next]_vars => ServiceInv' /\ Books'
  BY NextServiceInv, MainWorksStep, CommandsIssuedStep, MessagesIssuedStep, StartingStep
     DEF Books
<1> QED
  BY <1>1, <1>2, PTL DEF SafeSpec

-----------------------------------------------------------------------------
(* Destinations.                                                           *)

\* A scan replaces the entries of devices, and forgets none.
LEMMA DevicesKept ==
  ASSUME ServiceInv, [Next]_vars
  PROVE  Elements(mDeviceInfoList) \subseteq Elements(mDeviceInfoList')
<1>1. CASE \E t \in CallbackThreads : RecordDevice(t)
  <2> PICK t \in CallbackThreads : RecordDevice(t)
    BY <1>1
  <2> DEFINE known == mDeviceInfoList
             new == Head(resp[t].items)
  <2>1. known \in Seq(Addresses) /\ new \in Addresses
    <3>1. handler[t] = "SCAN" /\ resp[t].items \in Seq(Addresses) /\ resp[t].items # <<>>
      BY InvariantParts DEF RecordDevice, Parts, ItemsFit
    <3> QED
      BY <3>1, HeadTailFacts, InvariantParts DEF Parts, ListType
  <2>2. \/ mDeviceInfoList' = Append(known, new)
        \/ \E i \in DOMAIN known :
             /\ known[i] = new
             /\ mDeviceInfoList' = Append(RemoveAt(known, i), new)
    BY DEF RecordDevice
  <2> HIDE DEF known, new
  <2>3. Len(known) \in Nat /\ DOMAIN known = 1..Len(known)
    BY <2>1, LenProperties
  <2>4. ASSUME NEW kept \in Seq(Addresses), mDeviceInfoList' = Append(kept, new)
        PROVE  Elements(kept) \cup {new} \subseteq Elements(mDeviceInfoList')
    <3>1. /\ Len(kept) \in Nat /\ DOMAIN kept = 1..Len(kept)
          /\ DOMAIN mDeviceInfoList' = 1..(Len(kept) + 1)
          /\ \A j \in 1..Len(kept) : mDeviceInfoList'[j] = kept[j]
          /\ mDeviceInfoList'[Len(kept) + 1] = new
      BY <2>1, <2>4, AppendFacts, LenProperties
    <3>2. Len(kept) + 1 \in DOMAIN mDeviceInfoList'
      BY <3>1
    <3>3. \A j \in DOMAIN kept : j \in DOMAIN mDeviceInfoList'
      BY <3>1
    <3> QED
      BY <3>1, <3>2, <3>3 DEF Elements
  <2>5. CASE mDeviceInfoList' = Append(known, new)
    BY <2>1, <2>4, <2>5 DEF known
  <2>6. ASSUME NEW i \in DOMAIN known, known[i] = new,
               mDeviceInfoList' = Append(RemoveAt(known, i), new)
        PROVE  Elements(known) \subseteq Elements(mDeviceInfoList')
    <3> DEFINE kept == RemoveAt(known, i)
    <3>1. kept \in Seq(Addresses) /\ Len(kept) = Len(known) - 1
      BY <2>1, RemoveAtFacts
    <3>2. \A j \in 1..(Len(known) - 1) : kept[j] = known[IF j < i THEN j ELSE j + 1]
      BY <2>1, RemoveAtElements
    <3> HIDE DEF kept
    <3>3. Elements(kept) \cup {new} \subseteq Elements(mDeviceInfoList')
      BY <2>4, <2>6, <3>1 DEF kept
    <3>4. ASSUME NEW j \in DOMAIN known PROVE known[j] \in Elements(kept) \cup {new}
      <4>1. DOMAIN kept = 1..(Len(known) - 1)
        BY <3>1, LenProperties
      <4>2. CASE j = i
        BY <2>6, <4>2
      <4>3. CASE j < i
        <5>1. j \in DOMAIN kept /\ kept[j] = known[j]
          BY <2>3, <3>2, <4>1, <4>3
        <5> QED
          BY <5>1 DEF Elements
      <4>4. CASE j > i
        <5>1. j - 1 \in 1..(Len(known) - 1) /\ ~(j - 1 < i) /\ j - 1 + 1 = j
          BY <2>3, <4>4
        <5>2. j - 1 \in DOMAIN kept /\ kept[j - 1] = known[j]
          BY <3>2, <4>1, <5>1
        <5> QED
          BY <5>2 DEF Elements
      <4> QED
        BY <2>3, <4>2, <4>3, <4>4
    <3> QED
      BY <3>3, <3>4 DEF Elements
  <2> QED
    BY <2>2, <2>5, <2>6 DEF known
<1>2. CASE \E r \in Requests : BusRequest(r)
  BY <1>2 DEF BusRequest, listVars
<1>3. CASE MainStep \/ InitStep
  BY <1>3 DEF MainStep, InitStep, InsertClient, ValidateAdapter, ValidateAddress,
     PushCommand, EnqueueMessage, ReplyStep, Reply, EraseClient, ConstructPush,
     ConstructEnqueue, listVars
<1>4. CASE WorkerTake \/ WorkerAnswered \/ WorkerAccepted \/ NyxCallback \/ NyxForgets
  BY <1>4 DEF WorkerTake, WorkerAnswered, WorkerAccepted, NyxCallback, NyxForgets,
     listVars
<1>5. ASSUME NEW t \in CallbackThreads, CallbackStep(t)
      PROVE  UNCHANGED mDeviceInfoList \/ RecordDevice(t)
  BY <1>5 DEF CallbackStep, TakeFront, ClearAdapters, PushAdapter, ReplyStep, Reply,
     EraseClient, listVars
<1>6. CASE UNCHANGED vars
  BY <1>6 DEF vars, listVars
<1> QED
  BY <1>1, <1>2, <1>3, <1>4, <1>5, <1>6, ThreadNames DEF Next, WorkerStep, NyxStep

\* A command about to be appended has been checked, and scans forget nothing.
DestinationChecked ==
  pc["main"] = "push" /\ Current.type = "SEND_COMMAND" =>
    Current.dest \in Elements(mDeviceInfoList)

LEMMA DestinationCheckedStep ==
  ASSUME ServiceInv, [Next]_vars, DestinationChecked
  PROVE  DestinationChecked'
<1>1. CASE \E r \in Requests : BusRequest(r)
  BY <1>1, BusMoves DEF DestinationChecked
<1>2. CASE InsertClient
  BY <1>2, InsertMoves DEF DestinationChecked
<1>3. CASE ValidateAdapter \/ ValidateAddress
  <2>1. UNCHANGED <<issued, mDeviceInfoList>>
    BY <1>3, ValidationMoves DEF busVars, listVars
  <2>2. CASE ValidateAdapter
    <3>1. pc'["main"] = "push" => Current.type # "SEND_COMMAND"
      <4>1. ASSUME Refuse(6) \/ Goto("main", "address") PROVE pc'["main"] # "push"
        BY <4>1, GotoMoves, ThreadNames DEF Refuse
      <4> QED
        BY <2>2, <4>1 DEF ValidateAdapter
    <3> QED
      BY <2>1, <3>1, SameTypes DEF DestinationChecked
  <2>3. CASE ValidateAddress
    <3>1. pc'["main"] = "push" => Current.dest \in Elements(mDeviceInfoList)
      <4>1. ASSUME Refuse(4) PROVE pc'["main"] # "push"
        BY <4>1, GotoMoves, ThreadNames DEF Refuse
      <4> QED
        BY <2>3, <4>1 DEF ValidateAddress
    <3> QED
      BY <2>1, <3>1, SameTypes DEF DestinationChecked, Elements
  <2> QED
    BY <1>3, <2>2, <2>3
<1>4. ASSUME UNCHANGED issued, pc'["main"] # "push" \/ UNCHANGED (pc["main"])
      PROVE  DestinationChecked'
  BY <1>4, SameTypes, DevicesKept DEF DestinationChecked, Elements
<1>5. CASE PushCommand \/ EnqueueMessage \/ ConstructPush \/ ConstructEnqueue
  BY <1>4, <1>5, PushMoves, EnqueueMoves, ConstructMoves DEF busVars
<1>6. CASE WorkerTake \/ WorkerAnswered \/ WorkerAccepted \/ NyxCallback \/ NyxForgets
  BY <1>4, <1>6, TakeMoves, AnsweredMoves, AcceptedMoves, NyxMoves, ForgetMoves,
     ThreadNames DEF busVars, Enters
<1>7. ASSUME NEW t \in CallbackThreads, CallbackStep(t)
      PROVE  DestinationChecked'
  BY <1>4, <1>7, FrontMoves, ParseMoves, ReplyMoves, ThreadNames
     DEF CallbackStep, busVars
<1>8. CASE ReplyStep("main")
  BY <1>4, <1>8, ReplyMoves, ThreadNames
<1>9. CASE UNCHANGED vars
  BY <1>4, <1>9 DEF vars, busVars
<1> QED
  BY <1>1, <1>2, <1>3, <1>5, <1>6, <1>7, <1>8, <1>9, ThreadNames
     DEF Next, MainStep, InitStep, WorkerStep, NyxStep

LEMMA DestinationsKnownStep ==
  ASSUME ServiceInv, [Next]_vars, Books, DestinationChecked, DestinationsKnown
  PROVE  DestinationsKnown'
<1> USE DEF Books
<1>0. /\ Len(issued) \in Nat /\ Len(mCmdList) \in Nat /\ DOMAIN mCmdList = 1..Len(mCmdList)
      /\ \A i \in 1..Len(mCmdList) : mCmdList[i].n \in Nat
  BY HeldTypes, InvariantParts, LenProperties DEF Parts, QueueType
<1>1. DOMAIN mCmdList' = 1..Len(mCmdList')
  BY NextServiceInv, InvariantParts, LenProperties, HeldTypes DEF ServiceInv, TypeOK, QueueType
<1> SUFFICES ASSUME NEW i \in DOMAIN mCmdList', mCmdList'[i].type = "SEND_COMMAND"
             PROVE  issued'[mCmdList'[i].n].req.dest \in Elements(mDeviceInfoList')
  BY DEF DestinationsKnown, Elements
<1>2. ASSUME NEW k \in DOMAIN mCmdList, mCmdList'[i] = mCmdList[k]
      PROVE  issued'[mCmdList'[i].n].req.dest \in Elements(mDeviceInfoList')
  <2>1. mCmdList[k].n # 0 /\ mCmdList[k].n \in 1..Len(issued)
    <3>1. mCmdList[k].type = TypeOf(mCmdList[k].n) /\ mCmdList[k].n <= Len(issued)
      BY <1>0 DEF CommandsIssued
    <3>2. mCmdList[k].n # 0
      BY <1>2, <3>1 DEF TypeOf
    <3> QED
      BY <1>0, <3>1, <3>2
  <2>2. issued[mCmdList[k].n].req.dest \in Elements(mDeviceInfoList')
    BY <1>2, DevicesKept DEF DestinationsKnown
  <2>3. issued'[mCmdList[k].n] = issued[mCmdList[k].n]
    <3>1. CASE \E r \in Requests : BusRequest(r)
      BY <2>1, <3>1, BusMoves
    <3>2. CASE UNCHANGED issued
      BY <3>2
    <3> QED
      BY <3>1, <3>2, Steps, InsertMoves, PushMoves, EnqueueMoves, ConstructMoves,
         TakeMoves, AnsweredMoves, AcceptedMoves, NyxMoves, ForgetMoves, FrontMoves
         DEF busVars, Quiet
  <2> QED
    BY <1>2, <2>2, <2>3
<1>3. CASE PushCommand /\ i = Len(mCmdList) + 1
  <2>1. mCmdList'[i] = cmd["main"] /\ pc["main"] = "push" /\ UNCHANGED issued
    BY <1>3, PushMoves DEF busVars
  <2>2. mCmdList'[i].n = Len(issued) /\ Current.type = "SEND_COMMAND"
    BY <2>1 DEF MainWorks
  <2>3. Current.dest \in Elements(mDeviceInfoList)
    BY <2>1, <2>2 DEF DestinationChecked
  <2> QED
    BY <2>1, <2>2, <2>3, DevicesKept DEF Current
<1>4. CASE PushCommand /\ i # Len(mCmdList) + 1
  <2>1. i \in DOMAIN mCmdList /\ mCmdList'[i] = mCmdList[i]
    BY <1>0, <1>1, <1>4, PushMoves
  <2> QED
    BY <1>2, <2>1
<1>5. CASE ConstructPush
  <2>1. i = Len(mCmdList) + 1 \/ (i \in DOMAIN mCmdList /\ mCmdList'[i] = mCmdList[i])
    BY <1>0, <1>1, <1>5, ConstructMoves
  <2>2. mCmdList'[Len(mCmdList) + 1].type = "LIST_ADAPTERS"
    BY <1>5, ConstructMoves DEF ConstructorCmd
  <2> QED
    BY <1>2, <2>1, <2>2
<1>6. CASE \E t \in CallbackThreads : TakeFront(t)
  <2>1. CASE UNCHANGED mCmdList
    BY <1>2, <2>1
  <2>2. CASE \E t \in CallbackThreads : Takes(t)
    <3>1. i \in 1..(Len(mCmdList) - 1)
      BY <1>1, <2>2 DEF Takes
    <3>2. i + 1 \in DOMAIN mCmdList /\ mCmdList'[i] = mCmdList[i + 1]
      BY <1>0, <2>2, <3>1 DEF Takes
    <3> QED
      BY <1>2, <3>2
  <2> QED
    BY <1>6, <2>1, <2>2, FrontMoves
<1>7. CASE UNCHANGED mCmdList
  BY <1>2, <1>7
<1> QED
  BY <1>3, <1>4, <1>5, <1>6, <1>7, Steps, BusMoves, InsertMoves, EnqueueMoves, ConstructMoves,
     TakeMoves, AnsweredMoves, AcceptedMoves, NyxMoves, ForgetMoves DEF Quiet

\* The destination of an accepted command stays known until it is answered,
\* however many scans replace entries meanwhile, and on whatever threads.
THEOREM DestinationsStayKnown == SafeSpec => []DestinationsKnown
<1>1. Init => DestinationChecked /\ DestinationsKnown
  BY ThreadNames DEF Init, DestinationChecked, DestinationsKnown
<1>2. ServiceInv /\ Books /\ DestinationChecked /\ DestinationsKnown /\ [Next]_vars
        => DestinationChecked' /\ DestinationsKnown'
  BY DestinationCheckedStep, DestinationsKnownStep
<1> QED
  BY <1>1, <1>2, BooksInvariant, PTL DEF SafeSpec

-----------------------------------------------------------------------------
(* Order.                                                                  *)

\* The threads that have a command which is not, or no longer, in mCmdList.
Working(t) ==
  pc[t] \in {"adapter", "address", "push", "clear", "adapters", "devices",
             "reply", "erase"}

\* The commands wait in the order of their requests; one that a callback has
\* taken is older than they are, and the one main works on is younger.
ListAscends ==
  \A i, j \in 1..Len(mCmdList) : i < j => mCmdList[i].n < mCmdList[j].n

TakenAreOlder ==
  /\ \A t \in CallbackThreads : Working(t) =>
       \A i \in 1..Len(mCmdList) : cmd[t].n < mCmdList[i].n
  /\ Working("worker") /\ Working("nyx") => cmd["worker"].n # cmd["nyx"].n

MainIsYoungest ==
  pc["main"] \in {"insert", "adapter", "address", "push", "reply", "erase"} =>
    /\ \A i \in 1..Len(mCmdList) : mCmdList[i].n < Len(issued)
    /\ \A t \in CallbackThreads : Working(t) => cmd[t].n < Len(issued)

Ordered == ListAscends /\ TakenAreOlder /\ MainIsYoungest

LEMMA InitOrdered == Init => Ordered
<1> SUFFICES ASSUME Init PROVE Ordered
  OBVIOUS
<1>1. Len(mCmdList) = 0 /\ \A t \in Threads : pc[t] = "idle"
  BY EmptySeq DEF Init
<1> QED
  BY <1>1, ThreadNames DEF Ordered, ListAscends, TakenAreOlder, MainIsYoungest, Working

LEMMA OrderedStep ==
  ASSUME ServiceInv, [Next]_vars, Books, Ordered
  PROVE  Ordered'
<1> USE DEF Books, Ordered
<1>0. /\ Len(issued) \in Nat /\ Len(mCmdList) \in Nat
      /\ \A i \in 1..Len(mCmdList) : mCmdList[i].n \in Nat
      /\ \A t \in Threads : cmd[t].n \in Nat
  BY HeldTypes
<1>1. CASE \E r \in Requests : BusRequest(r)
  <2>1. /\ Len(issued') = Len(issued) + 1 /\ UNCHANGED <<mCmdList, cmd>>
        /\ pc'["main"] \in {"idle", "insert"}
        /\ \A t \in CallbackThreads : pc'[t] = pc[t]
    BY <1>1, BusMoves
  <2>2. ListAscends' /\ TakenAreOlder'
    BY <2>1, ThreadNames DEF ListAscends, TakenAreOlder, Working
  <2>3. MainIsYoungest'
    BY <1>0, <2>1, ThreadNames DEF MainIsYoungest, CommandsIssued, MessagesIssued, Working
  <2> QED
    BY <2>2, <2>3
<1>2. ASSUME UNCHANGED <<issued, mCmdList>>,
             \A t \in CallbackThreads : cmd'[t] = cmd[t] /\ (Working(t)' => Working(t)),
             pc'["main"] \in {"idle", "enqueue"} \/
               pc["main"] \in {"insert", "adapter", "address", "push", "reply", "erase"}
      PROVE  Ordered'
  BY <1>2, ThreadNames DEF ListAscends, TakenAreOlder, MainIsYoungest, Working
<1>3. CASE InsertClient \/ EnqueueMessage \/ ConstructEnqueue
  <2>1. pc["main"] \in MainPcs
    BY HeldTypes
  <2> QED
    BY <1>2, <1>3, <2>1, InsertMoves, EnqueueMoves, ConstructMoves, ThreadNames
       DEF busVars, Working, MainPcs
<1>4. CASE PushCommand
  <2>1. /\ Len(mCmdList') = Len(mCmdList) + 1
        /\ \A i \in 1..Len(mCmdList) : mCmdList'[i] = mCmdList[i]
        /\ mCmdList'[Len(mCmdList) + 1].n = Len(issued)
        /\ UNCHANGED cmd /\ \A t \in CallbackThreads : pc'[t] = pc[t]
        /\ pc["main"] = "push" /\ pc'["main"] = "enqueue"
    BY <1>4, PushMoves DEF MainWorks
  <2>2. \A i \in 1..Len(mCmdList') : i \in 1..Len(mCmdList) \/ i = Len(mCmdList) + 1
    BY <1>0, <2>1
  <2>3. \A i \in 1..Len(mCmdList) : mCmdList[i].n < Len(issued)
    BY <2>1 DEF MainIsYoungest
  <2>4. ListAscends'
    BY <1>0, <2>1, <2>2, <2>3 DEF ListAscends
  <2>5. TakenAreOlder'
    BY <1>0, <2>1, <2>2, ThreadNames, SMTT(30) DEF TakenAreOlder, MainIsYoungest, Working
  <2> QED
    BY <2>1, <2>4, <2>5 DEF MainIsYoungest
<1>5. CASE ConstructPush
  <2>1. /\ Len(mCmdList') = 1 /\ mCmdList'[1].n = 0 /\ UNCHANGED <<pc, cmd, issued>>
        /\ \A t \in CallbackThreads : pc[t] = "idle"
    BY <1>5, ConstructMoves DEF Starting, ConstructorCmd, busVars
  <2>2. \A i \in 1..Len(mCmdList') : i = 1
    BY <2>1
  <2>3. ListAscends' /\ TakenAreOlder'
    BY <2>1, <2>2, ThreadNames DEF ListAscends, TakenAreOlder, Working
  <2>4. pc["main"] # "idle" => Len(issued) > 0
    <3>1. pc["main"] # "idle" => issued # <<>>
      BY InvariantParts DEF Parts, ThreadType
    <3> QED
      BY <1>0, <3>1, InvariantParts, EmptySeq DEF Parts, RegistryType
  <2>5. MainIsYoungest'
    BY <2>1, <2>2, <2>4 DEF MainIsYoungest, Working
  <2> QED
    BY <2>3, <2>5
<1>6. ASSUME UNCHANGED <<issued, mCmdList, cmd>>, \A t \in Threads : Working(t)' => Working(t),
             pc'["main"] = pc["main"]
      PROVE  Ordered'
  BY <1>6, ThreadNames DEF ListAscends, TakenAreOlder, MainIsYoungest, Working
<1>7. CASE WorkerTake \/ WorkerAnswered \/ WorkerAccepted \/ NyxCallback \/ NyxForgets
  BY <1>6, <1>7, TakeMoves, AnsweredMoves, AcceptedMoves, NyxMoves, ForgetMoves,
     ThreadNames DEF busVars, Enters, Working
<1>8. ASSUME NEW t \in CallbackThreads, TakeFront(t)
      PROVE  Ordered'
  <2>1. CASE UNCHANGED <<mCmdList, cmd>> /\ pc'[t] = "idle"
    BY <1>6, <1>8, <2>1, FrontMoves, ThreadNames DEF Working, busVars
  <2>2. CASE Takes(t)
    <3>1. /\ UNCHANGED issued /\ \A u \in Threads \ {t} : pc'[u] = pc[u] /\ cmd'[u] = cmd[u]
          /\ Len(mCmdList) >= 1 /\ cmd'[t] = mCmdList[1] /\ pc[t] = "front"
      BY <1>8, <2>2, FrontMoves DEF Takes, busVars
    <3>2. ASSUME NEW i \in 1..Len(mCmdList')
          PROVE  i + 1 \in 1..Len(mCmdList) /\ mCmdList'[i] = mCmdList[i + 1] /\ 1 < i + 1
      <4>1. i \in 1..(Len(mCmdList) - 1)
        BY <2>2 DEF Takes
      <4> QED
        BY <1>0, <2>2, <4>1 DEF Takes
    <3>3. ListAscends'
      <4> SUFFICES ASSUME NEW i \in 1..Len(mCmdList'), NEW j \in 1..Len(mCmdList'), i < j
                   PROVE  mCmdList'[i].n < mCmdList'[j].n
        BY DEF ListAscends
      <4>1. i + 1 < j + 1
        OBVIOUS
      <4> QED
        BY <3>2, <4>1 DEF ListAscends
    <3>4. 1 \in 1..Len(mCmdList)
      BY <1>0, <3>1
    <3>5. \A i \in 1..Len(mCmdList') :
            /\ mCmdList[1].n < mCmdList'[i].n
            /\ \A u \in CallbackThreads : Working(u) => cmd[u].n < mCmdList'[i].n
      BY <3>2, <3>4 DEF ListAscends, TakenAreOlder
    <3>6. \A u \in CallbackThreads : Working(u) => cmd[u].n < mCmdList[1].n
      BY <3>4 DEF TakenAreOlder
    <3>7. \A u \in CallbackThreads \ {t} : (Working(u)' <=> Working(u)) /\ cmd'[u] = cmd[u]
      BY <3>1, ThreadNames DEF Working
    <3>8. TakenAreOlder'
      <4>1. \A u \in CallbackThreads : Working(u)' =>
              \A i \in 1..Len(mCmdList') : cmd'[u].n < mCmdList'[i].n
        BY <3>1, <3>5, <3>7
      <4>2. Working("worker")' /\ Working("nyx")' => cmd'["worker"].n # cmd'["nyx"].n
        BY <1>0, <3>1, <3>4, <3>6, <3>7, ThreadNames
      <4> QED
        BY <4>1, <4>2 DEF TakenAreOlder
    <3>9. MainIsYoungest'
      <4>1. pc'["main"] = pc["main"]
        BY <3>1, ThreadNames
      <4> QED
        BY <3>1, <3>2, <3>4, <3>7, <4>1 DEF MainIsYoungest
    <3> QED
      BY <3>3, <3>8, <3>9
  <2> QED
    BY <1>8, <2>1, <2>2, FrontMoves
<1>9. CASE Quiet
  <2>1. \A t \in CallbackThreads : Working(t)' => Working(t)
    BY <1>9 DEF Quiet, Working
  <2>2. \/ pc'["main"] = pc["main"]
        \/ pc["main"] \in {"insert", "adapter", "address", "push", "reply", "erase"}
    BY <1>9 DEF Quiet
  <2>3. UNCHANGED <<issued, mCmdList, cmd>>
    BY <1>9 DEF Quiet
  <2>4. CASE pc'["main"] = pc["main"]
    BY <2>1, <2>3, <2>4, ThreadNames DEF ListAscends, TakenAreOlder, MainIsYoungest, Working
  <2> QED
    BY <1>2, <2>1, <2>2, <2>3, <2>4
<1> QED
  BY <1>1, <1>3, <1>4, <1>5, <1>7, <1>8, <1>9, Steps

\* The command list ascends by request, and who has taken or will append.
THEOREM OrderInvariant == SafeSpec => [](ServiceInv /\ Books /\ Ordered)
<1>1. Init => Ordered
  BY InitOrdered
<1>2. ServiceInv /\ Books /\ Ordered /\ [Next]_vars => Ordered'
  BY OrderedStep
<1> QED
  BY <1>1, <1>2, BooksInvariant, PTL DEF SafeSpec

-----------------------------------------------------------------------------
(* Alignment: mQueue repeats the end of mCmdList.                          *)

\* Between the two appends of main, or of the constructor, one command of the
\* list has no message yet.
Coming == IF init = "enqueue" \/ pc["main"] = "enqueue" THEN 1 ELSE 0

\* The commands of the list whose message the dispatch thread has taken.
Sent == Len(mCmdList) - Len(mQueue) - Coming

QueueAligned ==
  /\ \A i \in 1..Len(mQueue) : mQueue[i] = MessageOf(mCmdList[Sent + i])
  /\ pc["main"] = "enqueue" => mCmdList[Len(mCmdList)] = cmd["main"]

\* mType is the type of the last of those, and that a callback on the dispatch
\* thread was called with.
TypeAligned ==
  /\ Sent >= 1 => mType = mCmdList[Sent].type
  /\ pc["worker"] = "front" => handler["worker"] = mType

\* If nothing was forgotten or dropped, the thread of nyx that answers the last
\* message it had was called with the type of the oldest command, or the newest.
AnswerAligned ==
  ~Stale /\ Len(pending) = 0 /\ pc["nyx"] = "front" =>
    handler["nyx"] \in {mCmdList[1].type, mCmdList[Sent].type}

\* The dispatch thread holds no message while a callback runs on it.
OneInHand == pc["worker"] # "idle" => Len(sending) = 0

Aligned == QueueAligned /\ TypeAligned /\ OneInHand /\ AnswerAligned

\* Commands and messages counted: what the dispatch thread has taken covers
\* what it holds, what nyx holds, and the callbacks that have yet to take.
LEMMA Counts ==
  ASSUME ServiceInv, Books
  PROVE  /\ Len(mCmdList) \in Nat /\ Len(mQueue) \in Nat /\ Len(sending) \in Nat
         /\ Len(pending) \in Nat /\ Len(sending) <= 1
         /\ AtFront("worker") \in {0, 1} /\ AtFront("nyx") \in {0, 1}
         /\ Coming \in {0, 1} /\ Sent \in Nat
         /\ Len(mCmdList) = Sent + Len(mQueue) + Coming
         /\ Owed = Len(mQueue) + Len(sending) + Len(pending) + AtFront("worker")
                     + AtFront("nyx") + Coming
         /\ Sent >= Len(sending) + Len(pending) + AtFront("worker") + AtFront("nyx")
         /\ Stale <=> Sent > Len(sending) + Len(pending) + AtFront("worker") + AtFront("nyx")
<1>1. /\ Len(mCmdList) \in Nat /\ Len(mQueue) \in Nat /\ Len(sending) \in Nat
      /\ Len(pending) \in Nat /\ Len(sending) <= 1
  BY HeldTypes
<1>2. AtFront("worker") \in {0, 1} /\ AtFront("nyx") \in {0, 1} /\ Coming \in {0, 1}
  BY DEF AtFront, Coming
<1>3. ~(init = "enqueue" /\ pc["main"] = "enqueue")
  BY DEF Books, Starting
<1>4. Owed = Len(mQueue) + Len(sending) + Len(pending) + AtFront("worker")
               + AtFront("nyx") + Coming
  BY <1>1, <1>2, <1>3 DEF Owed, Coming
<1>5. Len(mCmdList) >= Owed
  BY InvariantParts DEF Parts, CommandsCoverMessages
<1> QED
  BY <1>1, <1>2, <1>4, <1>5, SMTT(30) DEF Sent, Stale

\* The same, to be said of the state after a step.
Counted ==
  /\ Sent \in Nat /\ Len(sending) \in Nat /\ Len(pending) \in Nat
  /\ AtFront("worker") \in {0, 1} /\ AtFront("nyx") \in {0, 1}
  /\ Sent >= Len(sending) + Len(pending) + AtFront("worker") + AtFront("nyx")
  /\ Sent > Len(sending) + Len(pending) + AtFront("worker") + AtFront("nyx") => Stale

LEMMA CountsNext == ServiceInv' /\ Books' => Counted'
<1>1. ServiceInv /\ Books => Counted
  BY Counts DEF Counted
<1> QED
  BY <1>1, PTL

LEMMA InitAligned == Init => Aligned
<1> SUFFICES ASSUME Init PROVE Aligned
  OBVIOUS
<1>1. /\ Len(mCmdList) = 0 /\ Len(mQueue) = 0 /\ \A t \in Threads : pc[t] = "idle"
      /\ init = "push"
  BY EmptySeq DEF Init
<1>2. pc["main"] = "idle" /\ Coming = 0
  BY <1>1, ThreadNames DEF Coming
<1>3. Sent = 0
  BY <1>1, <1>2 DEF Sent
<1> QED
  BY <1>1, <1>2, <1>3, ThreadNames DEF Aligned, QueueAligned, TypeAligned, AnswerAligned,
     OneInHand

LEMMA QueueAlignedStep ==
  ASSUME ServiceInv, [Next]_vars, Books, QueueAligned
  PROVE  QueueAligned'
<1>0. /\ Len(mCmdList) \in Nat /\ Len(mQueue) \in Nat /\ Sent \in Nat /\ Coming \in {0, 1}
      /\ Len(mCmdList) = Sent + Len(mQueue) + Coming
  BY Counts
<1>1. ASSUME UNCHANGED <<init, mCmdList, mQueue, cmd["main"]>>, pc'["main"] = pc["main"]
               \/ (pc["main"] # "enqueue" /\ pc'["main"] # "enqueue")
      PROVE  QueueAligned'
  BY <1>1 DEF QueueAligned, Sent, Coming
<1>2. CASE (\E r \in Requests : BusRequest(r)) \/ ValidateAdapter \/ ValidateAddress
  BY <1>1, <1>2, BusMoves, ValidationMoves DEF queueVars
<1>3. CASE InsertClient
  <2>1. UNCHANGED <<init, mCmdList, mQueue>> /\ pc["main"] = "insert" /\ pc'["main"] = "adapter"
    BY <1>3, InsertMoves DEF queueVars
  <2> QED
    BY <2>1 DEF QueueAligned, Sent, Coming
<1>4. CASE PushCommand
  <2>1. /\ Len(mCmdList') = Len(mCmdList) + 1
        /\ \A i \in 1..Len(mCmdList) : mCmdList'[i] = mCmdList[i]
        /\ mCmdList'[Len(mCmdList) + 1] = cmd["main"]
        /\ pc["main"] = "push" /\ pc'["main"] = "enqueue"
        /\ UNCHANGED <<init, mQueue, cmd>>
    BY <1>4, PushMoves DEF queueVars
  <2>2. init = "done"
    BY <2>1, InvariantParts DEF Books, Starting
  <2>3. Coming = 0 /\ Coming' = 1
    BY <2>1, <2>2 DEF Coming
  <2>4. Sent' = Sent
    BY <1>0, <2>1, <2>3 DEF Sent
  <2>5. ASSUME NEW i \in 1..Len(mQueue)
        PROVE  mCmdList'[Sent + i] = mCmdList[Sent + i]
    <3>1. Sent + i \in 1..Len(mCmdList)
      BY <1>0
    <3> QED
      BY <2>1, <3>1
  <2> QED
    BY <2>1, <2>4, <2>5 DEF QueueAligned, MessageOf
<1>5. CASE EnqueueMessage
  <2>1. /\ Len(mQueue') = Len(mQueue) + 1
        /\ \A i \in 1..Len(mQueue) : mQueue'[i] = mQueue[i]
        /\ mQueue'[Len(mQueue) + 1] = MessageOf(cmd["main"])
        /\ pc["main"] = "enqueue" /\ pc'["main"] = "idle"
        /\ UNCHANGED <<init, mCmdList, cmd>>
    BY <1>5, EnqueueMoves
  <2>2. init = "done"
    BY <2>1 DEF Books, Starting
  <2>3. Coming = 1 /\ Coming' = 0
    BY <2>1, <2>2 DEF Coming
  <2>4. Sent' = Sent /\ Sent + Len(mQueue) + 1 = Len(mCmdList)
    BY <1>0, <2>1, <2>3 DEF Sent
  <2>5. mQueue'[Len(mQueue) + 1] = MessageOf(mCmdList[Sent + (Len(mQueue) + 1)])
    <3>1. Sent + (Len(mQueue) + 1) = Len(mCmdList)
      BY <1>0, <2>4
    <3> QED
      BY <2>1, <3>1 DEF QueueAligned
  <2>6. \A i \in 1..Len(mQueue') : i \in 1..Len(mQueue) \/ i = Len(mQueue) + 1
    BY <1>0, <2>1
  <2> QED
    BY <2>1, <2>4, <2>5, <2>6 DEF QueueAligned, MessageOf
<1>6. CASE ConstructPush
  <2>1. UNCHANGED <<mQueue, pc>> /\ init # "done"
    BY <1>6, ConstructMoves DEF queueVars
  <2>2. Len(mQueue') = 0 /\ pc'["main"] # "enqueue"
    BY <2>1 DEF Books, Starting
  <2> QED
    BY <2>2 DEF QueueAligned
<1>7. CASE ConstructEnqueue
  <2>1. /\ Len(mQueue') = Len(mQueue) + 1
        /\ mQueue'[Len(mQueue) + 1] = MessageOf(ConstructorCmd)
        /\ init = "enqueue" /\ init' = "done" /\ UNCHANGED <<mCmdList, pc, cmd>>
    BY <1>7, ConstructMoves
  <2>2. /\ Len(mQueue) = 0 /\ Len(mCmdList) = 1 /\ mCmdList[1] = ConstructorCmd
        /\ pc["main"] # "enqueue"
    BY <2>1 DEF Books, Starting
  <2>3. Sent' = 0 /\ Len(mQueue') = 1
    <3>1. Coming' = 0 /\ Len(mCmdList') = 1 /\ Len(mQueue') = 1
      BY <2>1, <2>2 DEF Coming
    <3> QED
      BY <3>1 DEF Sent
  <2>4. \A i \in 1..Len(mQueue') : i = 1
    BY <2>3
  <2>5. Sent' + 1 = 1 /\ mQueue'[1] = MessageOf(mCmdList'[1])
    BY <2>1, <2>2, <2>3
  <2> QED
    BY <2>1, <2>2, <2>4, <2>5 DEF QueueAligned, MessageOf
<1>8. CASE WorkerTake
  <2>1. /\ Len(mQueue') = Len(mQueue) - 1
        /\ \A i \in 1..(Len(mQueue) - 1) : mQueue'[i] = mQueue[i + 1]
        /\ UNCHANGED <<init, mCmdList, pc, cmd>>
    BY <1>8, TakeMoves
  <2>2. Sent' = Sent + 1
    BY <1>0, <2>1 DEF Sent, Coming
  <2>3. ASSUME NEW i \in 1..Len(mQueue')
        PROVE  mQueue'[i] = MessageOf(mCmdList[Sent' + i])
    <3>1. i \in 1..(Len(mQueue) - 1) /\ i + 1 \in 1..Len(mQueue)
      BY <1>0, <2>1
    <3>2. mQueue'[i] = MessageOf(mCmdList[Sent + (i + 1)])
      BY <2>1, <3>1 DEF QueueAligned
    <3>3. Sent' + i = Sent + (i + 1)
      BY <1>0, <2>2, <3>1
    <3> QED
      BY <3>2, <3>3
  <2> QED
    BY <2>1, <2>3 DEF QueueAligned, MessageOf
<1>9. CASE WorkerAnswered \/ WorkerAccepted \/ NyxCallback \/ NyxForgets
  BY <1>1, <1>9, AnsweredMoves, AcceptedMoves, NyxMoves, ForgetMoves, ThreadNames
     DEF Enters
<1>10. ASSUME NEW t \in CallbackThreads, TakeFront(t)
       PROVE  QueueAligned'
  <2>1. UNCHANGED <<init, mQueue>> /\ pc'["main"] = pc["main"] /\ cmd'["main"] = cmd["main"]
    BY <1>10, FrontMoves, ThreadNames DEF queueVars, Takes
  <2>2. CASE UNCHANGED mCmdList
    BY <1>1, <2>1, <2>2
  <2>3. CASE Takes(t)
    <3>1. Sent >= 1
      <4>1. AtFront(t) = 1
        BY <1>10, FrontMoves DEF AtFront
      <4> QED
        BY <4>1, Counts, ThreadNames
    <3>2. /\ Len(mCmdList') = Len(mCmdList) - 1
          /\ \A i \in 1..(Len(mCmdList) - 1) : mCmdList'[i] = mCmdList[i + 1]
      BY <2>3 DEF Takes
    <3>3. Sent' = Sent - 1
      BY <1>0, <2>1, <3>2 DEF Sent, Coming
    <3>4. ASSUME NEW i \in 1..Len(mQueue)
          PROVE  mCmdList'[Sent' + i] = mCmdList[Sent + i]
      <4>1. Sent' + i \in 1..(Len(mCmdList) - 1) /\ Sent' + i + 1 = Sent + i
        BY <1>0, <3>1, <3>3
      <4> QED
        BY <3>2, <4>1
    <3>5. pc["main"] = "enqueue" => mCmdList'[Len(mCmdList')] = mCmdList[Len(mCmdList)]
      <4> SUFFICES ASSUME pc["main"] = "enqueue"
                   PROVE  mCmdList'[Len(mCmdList')] = mCmdList[Len(mCmdList)]
        OBVIOUS
      <4>1. Coming = 1
        BY DEF Coming
      <4>2. Len(mCmdList') \in 1..(Len(mCmdList) - 1) /\ Len(mCmdList') + 1 = Len(mCmdList)
        BY <1>0, <3>1, <3>2, <4>1
      <4> QED
        BY <3>2, <4>2
    <3> QED
      BY <2>1, <3>4, <3>5 DEF QueueAligned, MessageOf
  <2> QED
    BY <1>10, <2>2, <2>3, FrontMoves
<1>11. CASE Quiet
  BY <1>1, <1>11 DEF Quiet, queueVars
<1> QED
  BY <1>2, <1>3, <1>4, <1>5, <1>6, <1>7, <1>8, <1>9, <1>10, <1>11, Steps

\* What each step does to the commands whose message has been taken.
LEMMA SentMoves ==
  ASSUME ServiceInv, [Next]_vars, Books
  PROVE  /\ PushCommand \/ EnqueueMessage \/ ConstructPush \/ ConstructEnqueue
              => Sent' = Sent /\ \A i \in 1..Sent : mCmdList'[i] = mCmdList[i]
         /\ WorkerTake => Sent' = Sent + 1 /\ UNCHANGED mCmdList
         /\ (\E r \in Requests : BusRequest(r)) \/ InsertClient \/ WorkerAnswered
              \/ WorkerAccepted \/ NyxCallback \/ NyxForgets \/ Quiet
                => Sent' = Sent /\ UNCHANGED mCmdList
         /\ \A t \in CallbackThreads : TakeFront(t) /\ Takes(t) =>
              Sent >= 1 /\ Sent' = Sent - 1 /\
              \A i \in 1..(Sent - 1) : mCmdList'[i] = mCmdList[i + 1]
<1>0. /\ Len(mCmdList) \in Nat /\ Len(mQueue) \in Nat /\ Sent \in Nat /\ Coming \in {0, 1}
      /\ Len(mCmdList) = Sent + Len(mQueue) + Coming
  BY Counts
<1>1. ASSUME PushCommand
      PROVE  Sent' = Sent /\ \A i \in 1..Sent : mCmdList'[i] = mCmdList[i]
  <2>1. /\ Len(mCmdList') = Len(mCmdList) + 1
        /\ \A i \in 1..Len(mCmdList) : mCmdList'[i] = mCmdList[i]
        /\ pc["main"] = "push" /\ pc'["main"] = "enqueue" /\ UNCHANGED <<init, mQueue>>
    BY <1>1, PushMoves DEF queueVars
  <2>2. Coming = 0 /\ Coming' = 1
    BY <2>1 DEF Coming, Books, Starting
  <2>3. Sent' = Sent
    BY <1>0, <2>1, <2>2 DEF Sent
  <2>4. \A i \in 1..Sent : i \in 1..Len(mCmdList)
    BY <1>0
  <2> QED
    BY <2>1, <2>3, <2>4
<1>2. ASSUME EnqueueMessage
      PROVE  Sent' = Sent /\ \A i \in 1..Sent : mCmdList'[i] = mCmdList[i]
  <2>1. /\ Len(mQueue') = Len(mQueue) + 1 /\ pc["main"] = "enqueue" /\ pc'["main"] = "idle"
        /\ UNCHANGED <<init, mCmdList>>
    BY <1>2, EnqueueMoves
  <2>2. Coming = 1 /\ Coming' = 0
    BY <2>1 DEF Coming, Books, Starting
  <2> QED
    BY <1>0, <2>1, <2>2 DEF Sent
<1>3. ASSUME ConstructPush
      PROVE  Sent' = Sent /\ \A i \in 1..Sent : mCmdList'[i] = mCmdList[i]
  <2>1. /\ Len(mCmdList') = Len(mCmdList) + 1 /\ init = "push" /\ init' = "enqueue"
        /\ UNCHANGED <<mQueue, pc>>
    BY <1>3, ConstructMoves DEF queueVars
  <2>2. Coming = 0 /\ Coming' = 1 /\ Len(mCmdList) = 0
    BY <2>1 DEF Coming, Books, Starting
  <2> QED
    BY <1>0, <2>1, <2>2 DEF Sent
<1>4. ASSUME ConstructEnqueue
      PROVE  Sent' = Sent /\ \A i \in 1..Sent : mCmdList'[i] = mCmdList[i]
  <2>1. /\ Len(mQueue') = Len(mQueue) + 1 /\ init = "enqueue" /\ init' = "done"
        /\ UNCHANGED <<mCmdList, pc>>
    BY <1>4, ConstructMoves
  <2>2. Coming = 1 /\ Coming' = 0
    BY <2>1 DEF Coming, Books, Starting
  <2> QED
    BY <1>0, <2>1, <2>2 DEF Sent
<1>5. WorkerTake => Sent' = Sent + 1 /\ UNCHANGED mCmdList
  <2> SUFFICES ASSUME WorkerTake PROVE Sent' = Sent + 1 /\ UNCHANGED mCmdList
    OBVIOUS
  <2>1. Len(mQueue') = Len(mQueue) - 1 /\ UNCHANGED <<init, mCmdList, pc>>
    BY TakeMoves
  <2>2. Coming' = Coming
    BY <2>1 DEF Coming
  <2> QED
    BY <1>0, <2>1, <2>2 DEF Sent
<1>6. ASSUME UNCHANGED <<init, mCmdList, mQueue>>,
             pc'["main"] = pc["main"]
               \/ (pc["main"] # "enqueue" /\ pc'["main"] # "enqueue")
      PROVE  Sent' = Sent /\ UNCHANGED mCmdList
  BY <1>6 DEF Sent, Coming
<1>7. ASSUME (\E r \in Requests : BusRequest(r)) \/ InsertClient
      PROVE  Sent' = Sent /\ UNCHANGED mCmdList
  BY <1>6, <1>7, BusMoves, InsertMoves DEF queueVars
<1>8. ASSUME WorkerAnswered \/ WorkerAccepted \/ NyxCallback \/ NyxForgets
      PROVE  Sent' = Sent /\ UNCHANGED mCmdList
  BY <1>6, <1>8, AnsweredMoves, AcceptedMoves, NyxMoves, ForgetMoves, ThreadNames
     DEF Enters
<1>9. ASSUME Quiet
      PROVE  Sent' = Sent /\ UNCHANGED mCmdList
  BY <1>6, <1>9 DEF Quiet, queueVars
<1>10. ASSUME NEW t \in CallbackThreads, TakeFront(t), Takes(t)
       PROVE  /\ Sent >= 1 /\ Sent' = Sent - 1
              /\ \A i \in 1..(Sent - 1) : mCmdList'[i] = mCmdList[i + 1]
  <2>1. UNCHANGED <<init, mQueue>> /\ pc'["main"] = pc["main"] /\ pc[t] = "front"
    BY <1>10, FrontMoves, ThreadNames DEF queueVars
  <2>2. Sent >= 1
    BY <2>1, Counts, ThreadNames DEF AtFront
  <2>3. /\ Len(mCmdList') = Len(mCmdList) - 1
        /\ \A i \in 1..(Len(mCmdList) - 1) : mCmdList'[i] = mCmdList[i + 1]
    BY <1>10 DEF Takes
  <2>4. Coming' = Coming
    BY <2>1 DEF Coming
  <2>5. Sent' = Sent - 1
    BY <1>0, <2>1, <2>3, <2>4 DEF Sent
  <2>6. \A i \in 1..(Sent - 1) : i \in 1..(Len(mCmdList) - 1)
    BY <1>0
  <2> QED
    BY <2>2, <2>3, <2>5, <2>6
<1>11. PushCommand \/ EnqueueMessage \/ ConstructPush \/ ConstructEnqueue
         => Sent' = Sent /\ \A i \in 1..Sent : mCmdList'[i] = mCmdList[i]
  BY <1>1, <1>2, <1>3, <1>4
<1>12. (\E r \in Requests : BusRequest(r)) \/ InsertClient \/ WorkerAnswered
         \/ WorkerAccepted \/ NyxCallback \/ NyxForgets \/ Quiet
           => Sent' = Sent /\ UNCHANGED mCmdList
  BY <1>7, <1>8, <1>9
<1> QED
  BY <1>5, <1>10, <1>11, <1>12

LEMMA TypeAlignedStep ==
  ASSUME ServiceInv, [Next]_vars, Books, QueueAligned, TypeAligned
  PROVE  TypeAligned'
<1>0. Sent \in Nat /\ Len(mQueue) \in Nat
  BY Counts
<1>1. ASSUME Sent' = Sent, \A i \in 1..Sent : mCmdList'[i] = mCmdList[i],
             UNCHANGED <<mType, handler["worker"]>>,
             pc'["worker"] = "front" => pc["worker"] = "front"
      PROVE  TypeAligned'
  <2>1. Sent >= 1 => Sent \in 1..Sent
    BY <1>0
  <2> QED
    BY <1>1, <2>1 DEF TypeAligned
<1>2. CASE (\E r \in Requests : BusRequest(r)) \/ InsertClient
  <2>1. Sent' = Sent /\ UNCHANGED mCmdList
    BY <1>2, SentMoves
  <2>2. UNCHANGED <<mType, handler>> /\ pc'["worker"] = pc["worker"]
    BY <1>2, BusMoves, InsertMoves, ThreadNames DEF queueVars, frameVars
  <2> QED
    BY <1>1, <2>1, <2>2
<1>3. CASE PushCommand \/ EnqueueMessage \/ ConstructPush \/ ConstructEnqueue
  BY <1>1, <1>3, SentMoves, PushMoves, EnqueueMoves, ConstructMoves, ThreadNames
     DEF queueVars, frameVars
<1>4. CASE WorkerTake
  <2>1. /\ pc["worker"] = "idle" /\ UNCHANGED <<mCmdList, pc>>
        /\ 1 \in 1..Len(mQueue) /\ mType' = mQueue[1].type /\ Sent' = Sent + 1
    BY <1>0, <1>4, TakeMoves, SentMoves
  <2>2. mQueue[1] = MessageOf(mCmdList[Sent + 1])
    BY <2>1 DEF QueueAligned
  <2>3. mType' = mCmdList'[Sent'].type
    BY <2>1, <2>2 DEF MessageOf
  <2> QED
    BY <2>1, <2>3 DEF TypeAligned
<1>5. CASE WorkerAnswered
  <2>1. Sent' = Sent /\ UNCHANGED mCmdList
    BY <1>5, SentMoves
  <2>2. UNCHANGED mType /\ handler'["worker"] = mType
    BY <1>5, AnsweredMoves DEF Enters
  <2> QED
    BY <2>1, <2>2 DEF TypeAligned
<1>6. CASE WorkerAccepted \/ NyxCallback \/ NyxForgets
  <2>1. Sent' = Sent /\ UNCHANGED mCmdList
    BY <1>6, SentMoves
  <2>2. UNCHANGED <<mType, handler["worker"], pc["worker"]>>
    BY <1>6, AcceptedMoves, NyxMoves, ForgetMoves, ThreadNames DEF Enters, frameVars
  <2> QED
    BY <1>1, <2>1, <2>2
<1>7. ASSUME NEW t \in CallbackThreads, TakeFront(t)
      PROVE  TypeAligned'
  <2>1. /\ UNCHANGED <<mType, handler>> /\ pc'[t] # "front"
        /\ \A u \in Threads \ {t} : pc'[u] = pc[u]
    BY <1>7, FrontMoves DEF queueVars, frameVars, Takes
  <2>2. pc'["worker"] = "front" => pc["worker"] = "front"
    BY <2>1, ThreadNames
  <2>3. CASE Takes(t)
    <3>1. /\ Sent' = Sent - 1
          /\ \A i \in 1..(Sent - 1) : mCmdList'[i] = mCmdList[i + 1]
      BY <1>7, <2>3, SentMoves
    <3>2. Sent' >= 1 => Sent - 1 \in 1..(Sent - 1) /\ Sent - 1 + 1 = Sent
      BY <1>0, <3>1
    <3> QED
      BY <1>0, <2>1, <2>2, <3>1, <3>2 DEF TypeAligned
  <2>4. CASE UNCHANGED mCmdList
    <3>1. Sent' = Sent
      <4>1. UNCHANGED <<init, mQueue>> /\ pc'["main"] = pc["main"]
        BY <1>7, FrontMoves, ThreadNames DEF queueVars
      <4> QED
        BY <2>4, <4>1 DEF Sent, Coming
    <3> QED
      BY <1>1, <2>1, <2>2, <2>4, <3>1
  <2> QED
    BY <1>7, <2>3, <2>4, FrontMoves
<1>8. CASE Quiet
  <2>1. Sent' = Sent /\ UNCHANGED mCmdList
    BY <1>8, SentMoves
  <2>2. UNCHANGED <<mType, handler>> /\ (pc'["worker"] = "front" => pc["worker"] = "front")
    BY <1>8, ThreadNames DEF Quiet, queueVars
  <2> QED
    BY <1>1, <2>1, <2>2
<1> QED
  BY <1>2, <1>3, <1>4, <1>5, <1>6, <1>7, <1>8, Steps

LEMMA OneInHandStep ==
  ASSUME ServiceInv, [Next]_vars, OneInHand
  PROVE  OneInHand'
<1>1. CASE (\E r \in Requests : BusRequest(r)) \/ InsertClient
  BY <1>1, BusMoves, InsertMoves, ThreadNames DEF OneInHand, queueVars
<1>2. CASE PushCommand \/ EnqueueMessage \/ ConstructPush \/ ConstructEnqueue
  BY <1>2, PushMoves, EnqueueMoves, ConstructMoves, ThreadNames DEF OneInHand, queueVars
<1>3. CASE WorkerTake \/ WorkerAnswered \/ WorkerAccepted
  BY <1>3, TakeMoves, AnsweredMoves, AcceptedMoves DEF OneInHand
<1>4. CASE NyxCallback \/ NyxForgets
  BY <1>4, NyxMoves, ForgetMoves, ThreadNames DEF OneInHand, Enters
<1>5. CASE \E t \in CallbackThreads : TakeFront(t)
  BY <1>5, FrontMoves, ThreadNames DEF OneInHand, queueVars
<1>6. CASE Quiet
  BY <1>6, ThreadNames DEF Quiet, OneInHand, queueVars
<1> QED
  BY <1>1, <1>2, <1>3, <1>4, <1>5, <1>6, Steps

LEMMA AnswerAlignedStep ==
  ASSUME ServiceInv, [Next]_vars, Books, Aligned
  PROVE  AnswerAligned'
<1> USE DEF Aligned
<1> SUFFICES ASSUME ~Stale', Len(pending') = 0, pc'["nyx"] = "front"
             PROVE  handler'["nyx"] \in {mCmdList'[1].type, mCmdList'[Sent'].type}
  BY DEF AnswerAligned
<1> DEFINE Out == Len(sending) + Len(pending) + AtFront("worker") + AtFront("nyx")
<1>0. /\ Sent \in Nat /\ Len(sending) \in Nat /\ Len(pending) \in Nat
      /\ AtFront("worker") \in {0, 1} /\ AtFront("nyx") \in {0, 1}
      /\ Sent >= Out /\ (Stale <=> Sent > Out)
  BY Counts
<1>1. ServiceInv' /\ Books'
  BY NextServiceInv, MainWorksStep, CommandsIssuedStep, MessagesIssuedStep, StartingStep
     DEF Books
<1>2. Sent' \in Nat /\ Out' \in Nat /\ Sent' = Out'
  <2>1. /\ Sent' \in Nat /\ Len(sending') \in Nat /\ Len(pending') \in Nat
        /\ AtFront("worker")' \in {0, 1} /\ AtFront("nyx")' \in {0, 1}
        /\ Sent' >= Len(sending') + Len(pending') + AtFront("worker")' + AtFront("nyx")'
        /\ ~(Sent' > Len(sending') + Len(pending') + AtFront("worker")' + AtFront("nyx")')
    BY <1>1, CountsNext DEF Counted
  <2> QED
    BY <2>1
<1>3. ASSUME Sent' = Sent, \A i \in 1..Sent : mCmdList'[i] = mCmdList[i],
             Out' = Out, UNCHANGED handler["nyx"], Len(pending) = 0, pc["nyx"] = "front"
      PROVE  handler'["nyx"] \in {mCmdList'[1].type, mCmdList'[Sent'].type}
  <2>1. ~Stale
    BY <1>0, <1>2, <1>3
  <2>2. 1 \in 1..Sent /\ Sent \in 1..Sent
    BY <1>0, <1>3 DEF AtFront
  <2> QED
    BY <1>3, <2>1, <2>2 DEF AnswerAligned
<1>4. ASSUME UNCHANGED <<sending, pending, handler["nyx"]>>,
             \A t \in CallbackThreads : pc'[t] = "front" <=> pc[t] = "front"
      PROVE  Out' = Out /\ Len(pending) = 0 /\ pc["nyx"] = "front"
  BY <1>4, ThreadNames DEF AtFront
<1>5. CASE (\E r \in Requests : BusRequest(r)) \/ InsertClient
  <2>1. Sent' = Sent /\ UNCHANGED mCmdList
    BY <1>5, SentMoves
  <2>2. /\ UNCHANGED <<sending, pending, handler["nyx"]>>
        /\ \A t \in CallbackThreads : pc'[t] = pc[t]
    BY <1>5, BusMoves, InsertMoves DEF queueVars, frameVars
  <2> QED
    BY <1>3, <1>4, <2>1, <2>2
<1>6. CASE PushCommand \/ EnqueueMessage \/ ConstructPush \/ ConstructEnqueue
  <2>1. Sent' = Sent /\ \A i \in 1..Sent : mCmdList'[i] = mCmdList[i]
    BY <1>6, SentMoves
  <2>2. /\ UNCHANGED <<sending, pending, handler["nyx"]>>
        /\ \A t \in CallbackThreads : pc'[t] = pc[t]
    BY <1>6, PushMoves, EnqueueMoves, ConstructMoves DEF queueVars, frameVars
  <2> QED
    BY <1>3, <1>4, <2>1, <2>2
<1>7. CASE Quiet
  <2>1. Sent' = Sent /\ UNCHANGED mCmdList
    BY <1>7, SentMoves
  <2>2. /\ UNCHANGED <<sending, pending, handler["nyx"]>>
        /\ \A t \in CallbackThreads : pc'[t] = "front" <=> pc[t] = "front"
    BY <1>7 DEF Quiet, queueVars
  <2> QED
    BY <1>3, <1>4, <2>1, <2>2
<1>8. CASE WorkerTake
  <2>1. /\ pc["worker"] = "idle" /\ Len(sending) = 0 /\ Len(sending') = 1
        /\ UNCHANGED <<pending, pc, handler, mCmdList>> /\ Sent' = Sent + 1
    BY <1>8, TakeMoves, SentMoves DEF frameVars
  <2>2. Sent = 1 /\ ~Stale
    BY <1>0, <1>2, <2>1 DEF AtFront
  <2>3. handler["nyx"] = mCmdList[1].type
    BY <2>1, <2>2 DEF AnswerAligned
  <2> QED
    BY <2>1, <2>3
<1>9. CASE WorkerAnswered
  <2>1. Sent' = Sent /\ UNCHANGED mCmdList
    BY <1>9, SentMoves
  <2>2. /\ pc["worker"] = "idle" /\ pc'["worker"] = "front" /\ pc'["nyx"] = pc["nyx"]
        /\ Len(sending) = 1 /\ Len(sending') = 0
        /\ UNCHANGED <<pending, handler["nyx"]>>
    BY <1>9, AnsweredMoves, ThreadNames DEF Enters
  <2>3. Out' = Out
    BY <1>0, <2>2 DEF AtFront
  <2> QED
    BY <1>3, <2>1, <2>2, <2>3
<1>10. CASE WorkerAccepted
  <2>1. Len(pending') = Len(pending) + 1
    BY <1>10, AcceptedMoves
  <2>2. FALSE
    BY <1>0, <2>1
  <2> QED
    BY <2>2
<1>11. CASE NyxCallback
  <2>1. handler'["nyx"] = mType /\ Len(pending) >= 1
    BY <1>0, <1>11, NyxMoves DEF Enters
  <2>2. Sent' = Sent /\ UNCHANGED mCmdList
    BY <1>11, SentMoves
  <2>3. Sent >= 1
    BY <1>0, <2>1
  <2> QED
    BY <2>1, <2>2, <2>3 DEF TypeAligned
<1>12. CASE NyxForgets
  <2>1. Len(pending') = Len(pending) - 1 /\ UNCHANGED <<sending, pc>>
    BY <1>12, ForgetMoves DEF Drops
  <2>2. Sent' = Sent
    BY <1>12, SentMoves
  <2>3. Out' = Out - 1
    <3>1. /\ AtFront("worker")' = AtFront("worker") /\ AtFront("nyx")' = AtFront("nyx")
          /\ Len(sending') = Len(sending)
      BY <2>1 DEF AtFront
    <3>2. Len(pending) = 1
      BY <1>0, <2>1
    <3>3. Len(pending') = 0
      OBVIOUS
    <3> QED
      BY <1>0, <3>1, <3>2, <3>3
  <2> QED
    BY <1>0, <1>2, <2>2, <2>3
<1>13. ASSUME NEW t \in CallbackThreads, TakeFront(t)
       PROVE  handler'["nyx"] \in {mCmdList'[1].type, mCmdList'[Sent'].type}
  <2>1. /\ pc[t] = "front" /\ pc'[t] # "front"
        /\ \A u \in Threads \ {t} : pc'[u] = pc[u]
        /\ UNCHANGED <<init, mQueue, sending, pending, handler>>
    BY <1>13, FrontMoves DEF queueVars, frameVars, Takes
  <2>2. t = "worker" /\ pc["nyx"] = "front" /\ pc'["main"] = pc["main"]
    BY <2>1, ThreadNames
  <2>3. Out' = Out - 1 /\ Len(pending) = 0 /\ Len(sending) = 0 /\ Out = 2
    BY <1>0, <2>1, <2>2 DEF AtFront, OneInHand
  <2>4. CASE Takes(t)
    <3>1. /\ Sent >= 1 /\ Sent' = Sent - 1
          /\ \A i \in 1..(Sent - 1) : mCmdList'[i] = mCmdList[i + 1]
      BY <1>13, <2>4, SentMoves
    <3>2. Sent = 2 /\ Sent' = 1 /\ ~Stale
      BY <1>0, <1>2, <2>3, <3>1
    <3>3. mCmdList'[1] = mCmdList[2]
      BY <3>1, <3>2
    <3>4. mCmdList[1].type = mCmdList[2].type
      BY <2>1, <2>2, <2>4, <3>2 DEF Takes, TypeAligned
    <3>5. handler["nyx"] \in {mCmdList[1].type, mCmdList[2].type}
      BY <2>2, <2>3, <3>2 DEF AnswerAligned
    <3> QED
      BY <2>1, <3>3, <3>4, <3>5
  <2>5. CASE UNCHANGED mCmdList
    <3>1. Sent' = Sent
      BY <2>1, <2>2, <2>5 DEF Sent, Coming
    <3> QED
      BY <1>0, <1>2, <2>3, <3>1
  <2> QED
    BY <1>13, <2>4, <2>5, FrontMoves
<1> QED
  BY <1>5, <1>6, <1>7, <1>8, <1>9, <1>10, <1>11, <1>12, <1>13, Steps

\* The command list, the queue and the types called with, lined up.
THEOREM AlignmentInvariant == SafeSpec => [](ServiceInv /\ Books /\ Aligned)
<1>1. Init => Aligned
  BY InitAligned
<1>2. ServiceInv /\ Books /\ Aligned /\ [Next]_vars => Aligned'
  BY QueueAlignedStep, TypeAlignedStep, OneInHandStep, AnswerAlignedStep DEF Aligned
<1> QED
  BY <1>1, <1>2, BooksInvariant, PTL DEF SafeSpec

\* A callback that goes back to rest from the critical section has dropped its
\* answer, and found two commands there or more.
LEMMA DropOverlaps ==
  ASSUME ServiceInv, Books, Aligned, [Next]_vars,
         NEW t \in CallbackThreads, pc[t] = "front", pc'[t] = "idle"
  PROVE  TakeFront(t) /\ Len(mCmdList) >= 2
<1>1. TakeFront(t)
  BY Steps, BusMoves, InsertMoves, PushMoves, EnqueueMoves, ConstructMoves, TakeMoves,
     AnsweredMoves, AcceptedMoves, NyxMoves, ForgetMoves, FrontMoves, ThreadNames
     DEF Enters, Quiet
<1>2. Len(mCmdList) >= 1 /\ mCmdList[1].type # handler[t]
  BY <1>1, FrontMoves DEF Takes
<1>3. Len(mCmdList) # 1
  <2> SUFFICES ASSUME Len(mCmdList) = 1 PROVE FALSE
    OBVIOUS
  <2>1. AtFront(t) = 1
    BY DEF AtFront
  <2>2. Sent = 1 /\ Len(pending) = 0 /\ ~Stale
    BY <2>1, Counts, ThreadNames, SMTT(30)
  <2>3. CASE t = "worker"
    BY <1>2, <2>2, <2>3 DEF Aligned, TypeAligned
  <2>4. CASE t = "nyx"
    BY <1>2, <2>2, <2>4 DEF Aligned, AnswerAligned
  <2> QED
    BY <2>3, <2>4, ThreadNames
<1>4. Len(mCmdList) \in Nat /\ Len(mCmdList) >= 1
  BY <1>2, HeldTypes
<1>5. \A n \in Nat : n >= 1 /\ n # 1 => n >= 2
  OBVIOUS
<1> QED
  BY <1>1, <1>3, <1>4, <1>5, Zenon

\* An answer is dropped only while two commands or more are outstanding,
\* however late nyx answers, in whatever order, and whatever it forgets.
THEOREM DropNeedsOverlap == SafeSpec => LossNeedsOverlap
<1>1. ServiceInv /\ Books /\ Aligned /\ [Next]_vars =>
        \A t \in CallbackThreads :
          pc[t] = "front" /\ pc'[t] = "idle" => Len(mCmdList) >= 2
  BY DropOverlaps
<1> QED
  BY <1>1, AlignmentInvariant, PTL DEF SafeSpec, LossNeedsOverlap

-----------------------------------------------------------------------------
(* A synchronous nyx.                                                      *)

\* Nothing is ever with nyx, and the dispatch thread works on the front of the
\* list: it has sent its message, or is in the callback that will take it.
FrontInHand ==
  /\ Len(pending) = 0 /\ pc["nyx"] = "idle"
  /\ Sent = Len(sending) + AtFront("worker")
  /\ Len(sending) = 1 => mCmdList[1].n = sending[1].n
  /\ pc["worker"] = "front" => mCmdList[1].n = resp["worker"].of

LEMMA InitFrontInHand == Init => FrontInHand
<1> SUFFICES ASSUME Init PROVE FrontInHand
  OBVIOUS
<1>1. /\ Len(mCmdList) = 0 /\ Len(mQueue) = 0 /\ Len(sending) = 0 /\ Len(pending) = 0
      /\ \A t \in Threads : pc[t] = "idle"
      /\ init = "push"
  BY EmptySeq DEF Init
<1>2. Coming = 0 /\ AtFront("worker") = 0 /\ pc["nyx"] = "idle" /\ pc["worker"] = "idle"
  BY <1>1, ThreadNames DEF Coming, AtFront
<1> QED
  BY <1>1, <1>2 DEF FrontInHand, Sent

LEMMA FrontInHandStep ==
  ASSUME ServiceInv, [Next]_vars, Books, Aligned, ~NyxAsync, FrontInHand
  PROVE  FrontInHand'
<1> USE DEF Aligned
<1>0. /\ Sent \in Nat /\ Len(sending) \in Nat /\ Len(sending) <= 1 /\ Len(mQueue) \in Nat
      /\ AtFront("worker") \in {0, 1}
  BY Counts
<1>1. ASSUME Sent' = Sent, \A i \in 1..Sent : mCmdList'[i] = mCmdList[i],
             UNCHANGED <<sending, pending>>,
             \A t \in CallbackThreads : resp'[t].of = resp[t].of,
             pc'["worker"] = "front" <=> pc["worker"] = "front",
             pc'["nyx"] = "idle"
      PROVE  FrontInHand'
  <2>1. AtFront("worker")' = AtFront("worker")
    BY <1>1 DEF AtFront
  <2>2. Len(sending) = 1 \/ pc["worker"] = "front" => 1 \in 1..Sent
    BY <1>0 DEF FrontInHand, AtFront
  <2> QED
    BY <1>1, <2>1, <2>2, ThreadNames DEF FrontInHand
<1>2. CASE (\E r \in Requests : BusRequest(r)) \/ InsertClient
  <2>1. Sent' = Sent /\ UNCHANGED mCmdList
    BY <1>2, SentMoves
  <2>2. UNCHANGED <<sending, pending, resp>> /\ \A t \in CallbackThreads : pc'[t] = pc[t]
    BY <1>2, BusMoves, InsertMoves DEF queueVars, frameVars
  <2>3. pc'["nyx"] = "idle" /\ pc'["worker"] = pc["worker"]
    BY <2>2, ThreadNames DEF FrontInHand
  <2> QED
    BY <1>1, <2>1, <2>2, <2>3
<1>3. CASE PushCommand \/ EnqueueMessage \/ ConstructPush \/ ConstructEnqueue
  <2>1. Sent' = Sent /\ \A i \in 1..Sent : mCmdList'[i] = mCmdList[i]
    BY <1>3, SentMoves
  <2>2. UNCHANGED <<sending, pending, resp>> /\ \A t \in CallbackThreads : pc'[t] = pc[t]
    BY <1>3, PushMoves, EnqueueMoves, ConstructMoves DEF queueVars, frameVars
  <2>3. pc'["nyx"] = "idle" /\ pc'["worker"] = pc["worker"]
    BY <2>2, ThreadNames DEF FrontInHand
  <2> QED
    BY <1>1, <2>1, <2>2, <2>3
<1>4. CASE Quiet
  <2>1. Sent' = Sent /\ UNCHANGED mCmdList
    BY <1>4, SentMoves
  <2>2. /\ UNCHANGED <<sending, pending>>
        /\ \A t \in CallbackThreads : resp'[t].of = resp[t].of
    BY <1>4 DEF Quiet, queueVars
  <2>3. pc'["nyx"] = "idle" /\ (pc'["worker"] = "front" <=> pc["worker"] = "front")
    BY <1>4, ThreadNames DEF Quiet, FrontInHand
  <2> QED
    BY <1>1, <2>1, <2>2, <2>3
<1>5. CASE WorkerTake
  <2>1. /\ pc["worker"] = "idle" /\ Len(sending) = 0 /\ Len(sending') = 1
        /\ 1 \in 1..Len(mQueue) /\ sending'[1] = mQueue[1]
        /\ UNCHANGED <<pending, pc, mCmdList>> /\ Sent' = Sent + 1
    BY <1>0, <1>5, TakeMoves, SentMoves
  <2>2. Sent = 0 /\ AtFront("worker")' = 0
    BY <2>1 DEF FrontInHand, AtFront
  <2>3. mQueue[1] = MessageOf(mCmdList[1])
    <3>1. mQueue[1] = MessageOf(mCmdList[Sent + 1])
      BY <2>1 DEF QueueAligned
    <3> QED
      BY <2>2, <3>1
  <2> QED
    BY <2>1, <2>2, <2>3 DEF FrontInHand, MessageOf
<1>6. CASE WorkerAnswered
  <2>1. /\ pc["worker"] = "idle" /\ pc'["worker"] = "front" /\ pc'["nyx"] = pc["nyx"]
        /\ Len(sending) = 1 /\ Len(sending') = 0 /\ resp'["worker"].of = sending[1].n
        /\ UNCHANGED <<pending, mCmdList>> /\ Sent' = Sent
    BY <1>6, AnsweredMoves, SentMoves, ThreadNames DEF Enters
  <2>2. AtFront("worker") = 0 /\ AtFront("worker")' = 1
    BY <2>1 DEF AtFront
  <2>3. Sent = 1 /\ mCmdList[1].n = sending[1].n /\ Len(pending) = 0 /\ pc["nyx"] = "idle"
    BY <2>1, <2>2 DEF FrontInHand
  <2>4. Sent' = Len(sending') + AtFront("worker")'
    BY <2>1, <2>2, <2>3
  <2>5. Len(pending') = 0 /\ pc'["nyx"] = "idle" /\ mCmdList'[1].n = resp'["worker"].of
    BY <2>1, <2>3
  <2>6. Len(sending') # 1
    BY <2>1
  <2> QED
    BY <2>4, <2>5, <2>6 DEF FrontInHand
<1>7. CASE WorkerAccepted \/ NyxCallback \/ NyxForgets
  <2>1. Len(pending) = 0
    BY DEF FrontInHand
  <2>2. \A i : i \notin 1..Len(pending)
    BY <2>1
  <2>3. FALSE
    BY <1>7, <2>2, AcceptedMoves, NyxMoves, ForgetMoves
  <2> QED
    BY <2>3
<1>8. ASSUME NEW t \in CallbackThreads, TakeFront(t)
      PROVE  FrontInHand'
  <2>1. /\ pc[t] = "front" /\ pc'[t] # "front"
        /\ \A u \in Threads \ {t} : pc'[u] = pc[u]
        /\ UNCHANGED <<sending, pending, resp>>
    BY <1>8, FrontMoves DEF queueVars, frameVars, Takes
  <2>2. t = "worker"
    BY <2>1, ThreadNames DEF FrontInHand
  <2>3. Len(sending) = 0 /\ AtFront("worker") = 1 /\ Sent = 1
    BY <1>0, <2>1, <2>2 DEF AtFront, FrontInHand, OneInHand
  <2>4. mCmdList[1].type = handler[t]
    BY <2>1, <2>2, <2>3 DEF TypeAligned
  <2>5. Sent' = 0
    BY <1>8, <2>3, <2>4, FrontMoves, SentMoves
  <2>6. pc'["nyx"] = "idle" /\ AtFront("worker")' = 0 /\ pc'["worker"] # "front"
    BY <2>1, <2>2, ThreadNames DEF FrontInHand, AtFront
  <2> QED
    BY <2>1, <2>3, <2>5, <2>6 DEF FrontInHand
<1> QED
  BY <1>2, <1>3, <1>4, <1>5, <1>6, <1>7, <1>8, Steps

\* The numbers of a sequence of commands or messages.
LEMMA NumbersFacts ==
  ASSUME NEW S, NEW s \in Seq(S), \A i \in 1..Len(s) : s[i].n \in Nat
  PROVE  /\ NumbersIn(s) \in Seq(Nat) /\ Len(NumbersIn(s)) = Len(s)
         /\ \A i \in 1..Len(s) : NumbersIn(s)[i] = s[i].n
<1>1. DOMAIN s = 1..Len(s) /\ Len(s) \in Nat
  BY LenProperties
<1>2. NumbersIn(s) = [i \in 1..Len(s) |-> s[i].n]
  BY <1>1 DEF NumbersIn
<1> QED
  BY <1>1, <1>2

\* Concatenation, where the lengths are known.
LEMMA ConcatFacts ==
  ASSUME NEW S, NEW s \in Seq(S), NEW u \in Seq(S), NEW m, NEW k,
         Len(s) = m, Len(u) = k
  PROVE  /\ m \in Nat /\ k \in Nat
         /\ s \o u \in Seq(S) /\ Len(s \o u) = m + k
         /\ \A i \in 1..m : (s \o u)[i] = s[i]
         /\ \A i \in 1..k : (s \o u)[m + i] = u[i]
<1>1. m \in Nat /\ k \in Nat
  BY LenProperties
<1>2. s \o u \in Seq(S) /\ Len(s \o u) = m + k
  BY ConcatProperties
<1>3. \A i \in 1..(m + k) : (s \o u)[i] = IF i <= m THEN s[i] ELSE u[i - m]
  BY ConcatProperties
<1>4. ASSUME NEW i \in 1..m PROVE (s \o u)[i] = s[i]
  BY <1>1, <1>3
<1>5. ASSUME NEW i \in 1..k PROVE (s \o u)[m + i] = u[i]
  <2>1. m + i \in 1..(m + k) /\ ~(m + i <= m) /\ (m + i) - m = i
    BY <1>1
  <2> QED
    BY <1>3, <2>1
<1> QED
  BY <1>1, <1>2, <1>4, <1>5

\* So the list is the command in hand, those queued, and the one to come.
LEMMA FrontInHandOrders ==
  ASSUME ServiceInv, Books, Aligned, FrontInHand
  PROVE  InOrder
<1> USE DEF Aligned
<1> DEFINE l == NumbersIn(mCmdList)
           q == NumbersIn(mQueue)
           h == Held
           b == BeingEnqueued
<1>0. /\ Sent \in Nat /\ Len(sending) \in Nat /\ Len(sending) <= 1 /\ Len(mQueue) \in Nat
      /\ Len(mCmdList) \in Nat /\ AtFront("worker") \in {0, 1} /\ Coming \in {0, 1}
      /\ Len(mCmdList) = Sent + Len(mQueue) + Coming
  BY Counts
<1>a. /\ mCmdList \in Seq(CommandRecord) /\ mQueue \in Seq(MessageRecord)
      /\ sending \in Seq(MessageRecord)
  BY InvariantParts DEF Parts, QueueType
<1>1. /\ l \in Seq(Nat) /\ Len(l) = Len(mCmdList)
      /\ \A i \in 1..Len(mCmdList) : l[i] = mCmdList[i].n
  BY <1>a, HeldTypes, NumbersFacts
<1>2. /\ q \in Seq(Nat) /\ Len(q) = Len(mQueue)
      /\ \A i \in 1..Len(mQueue) : q[i] = mQueue[i].n
  BY <1>a, HeldTypes, NumbersFacts
<1>3. /\ h \in Seq(Nat) /\ Len(h) = Sent
      /\ Sent = 1 => h[1] = mCmdList[1].n
  <2>1. CASE sending # <<>>
    <3>1. Len(sending) = 1 /\ pc["worker"] = "idle"
      BY <2>1, SendingOne DEF OneInHand
    <3>2. h = NumbersIn(sending)
      BY <2>1 DEF Held
    <3>3. h \in Seq(Nat) /\ Len(h) = 1 /\ h[1] = sending[1].n
      <4>1. \A i \in 1..Len(sending) : sending[i].n \in Nat
        BY HeldTypes
      <4>2. /\ NumbersIn(sending) \in Seq(Nat) /\ Len(NumbersIn(sending)) = Len(sending)
            /\ \A i \in 1..Len(sending) : NumbersIn(sending)[i] = sending[i].n
        BY <1>a, <4>1, NumbersFacts
      <4>3. 1 \in 1..Len(sending)
        BY <3>1
      <4> HIDE DEF h
      <4> QED
        BY <3>1, <3>2, <4>2, <4>3
    <3>4. Sent = 1 /\ mCmdList[1].n = sending[1].n
      BY <3>1 DEF FrontInHand, AtFront
    <3> QED
      BY <3>3, <3>4
  <2>2. CASE sending = <<>> /\ pc["worker"] = "front"
    <3>1. h = <<resp["worker"].of>> /\ resp["worker"].of \in Nat
      BY <2>2, HeldTypes, ThreadNames DEF Held
    <3>2. Len(sending) = 0
      BY <2>2
    <3>3. Sent = 1 /\ mCmdList[1].n = resp["worker"].of
      BY <2>2, <3>2 DEF FrontInHand, AtFront
    <3> QED
      BY <3>1, <3>3
  <2>3. CASE sending = <<>> /\ pc["worker"] # "front"
    <3>1. h = <<>>
      BY <2>3 DEF Held
    <3>2. Len(sending) = 0
      BY <2>3
    <3>3. Sent = 0
      BY <2>3, <3>2 DEF FrontInHand, AtFront
    <3> QED
      BY <3>1, <3>3
  <2> QED
    BY <2>1, <2>2, <2>3
<1>4. /\ b \in Seq(Nat) /\ Len(b) = Coming
      /\ Coming = 1 => b[1] = mCmdList[Len(mCmdList)].n
  <2>1. CASE init = "enqueue"
    <3>1. b = <<0>> /\ Coming = 1
      BY <2>1 DEF BeingEnqueued, Coming
    <3>2. Len(mCmdList) = 1 /\ mCmdList[1] = ConstructorCmd
      BY <2>1 DEF Books, Starting
    <3>3. mCmdList[Len(mCmdList)].n = 0
      BY <3>2 DEF ConstructorCmd
    <3> QED
      BY <3>1, <3>3
  <2>2. CASE init # "enqueue" /\ pc["main"] = "enqueue"
    <3>1. b = <<cmd["main"].n>> /\ Coming = 1 /\ cmd["main"].n \in Nat
          /\ mCmdList[Len(mCmdList)] = cmd["main"]
      BY <2>2, HeldTypes, ThreadNames DEF BeingEnqueued, Coming, QueueAligned
    <3> QED
      BY <3>1
  <2>3. CASE init # "enqueue" /\ pc["main"] # "enqueue"
    <3>1. b = <<>> /\ Coming = 0
      BY <2>3 DEF BeingEnqueued, Coming
    <3> QED
      BY <3>1
  <2> QED
    BY <2>1, <2>2, <2>3
<1> HIDE DEF l, q, h, b
<1>5. /\ h \o q \in Seq(Nat) /\ Len(h \o q) = Sent + Len(mQueue)
      /\ \A i \in 1..Sent : (h \o q)[i] = h[i]
      /\ \A i \in 1..Len(mQueue) : (h \o q)[Sent + i] = q[i]
  BY <1>2, <1>3, ConcatFacts, SMTT(30)
<1> DEFINE p == h \o q
           before == Sent + Len(mQueue)
<1>6. /\ p \in Seq(Nat) /\ Len(p) = before /\ before \in Nat
      /\ \A i \in 1..Sent : p[i] = h[i]
      /\ \A i \in 1..Len(mQueue) : p[Sent + i] = q[i]
  <2>1. before \in Nat
    BY <1>0
  <2> QED
    BY <1>5, <2>1, Zenon
<1>b. Len(mCmdList) = before + Coming
  BY <1>0
<1> HIDE DEF p, before
<1>7. /\ p \o b \in Seq(Nat) /\ Len(p \o b) = before + Coming
      /\ \A i \in 1..before : (p \o b)[i] = p[i]
      /\ \A i \in 1..Coming : (p \o b)[before + i] = b[i]
  <2>1. b \in Seq(Nat) /\ Len(b) = Coming /\ p \in Seq(Nat) /\ Len(p) = before
    BY <1>4, <1>6
  <2> QED
    BY <2>1, ConcatFacts, SMTT(30)
<1>8. ASSUME NEW i \in 1..Len(mCmdList)
      PROVE  l[i] = (p \o b)[i]
  <2>1. CASE i <= Sent
    <3>1. Sent <= 1
      <4>1. AtFront("worker") = 1 => Len(sending) = 0
        BY DEF OneInHand, AtFront
      <4> QED
        BY <1>0, <4>1 DEF FrontInHand
    <3>2. i = 1 /\ Sent = 1 /\ i \in 1..before
      BY <1>0, <2>1, <3>1 DEF before
    <3> QED
      BY <1>1, <1>3, <1>6, <1>7, <3>2
  <2>2. CASE i > Sent /\ i <= before
    <3>1. PICK k \in 1..Len(mQueue) : i = Sent + k
      <4>1. i - Sent \in 1..Len(mQueue) /\ i = Sent + (i - Sent)
        BY <1>0, <2>2 DEF before
      <4> QED
        BY <4>1
    <3>2. i \in 1..before
      BY <1>6, <2>2
    <3>3. (p \o b)[i] = q[k]
      BY <1>6, <1>7, <3>1, <3>2
    <3>4. mQueue[k] = MessageOf(mCmdList[i])
      BY <3>1 DEF QueueAligned
    <3> QED
      BY <1>1, <1>2, <3>1, <3>3, <3>4 DEF MessageOf
  <2>3. CASE i > before
    <3>1. Coming = 1 /\ i = Len(mCmdList) /\ i = before + 1 /\ 1 \in 1..Coming
      BY <1>0, <1>6, <1>b, <2>3
    <3>2. (p \o b)[i] = b[1]
      BY <1>7, <3>1
    <3> QED
      BY <1>1, <1>4, <3>1, <3>2
  <2>4. i \in Nat /\ Sent \in Nat /\ before \in Nat
    BY <1>0, <1>6
  <2>5. i <= Sent \/ (i > Sent /\ i <= before) \/ i > before
    BY <2>4
  <2> QED
    BY <2>1, <2>2, <2>3, <2>5, Zenon
<1>9. l = p \o b
  BY <1>1, <1>6, <1>b, <1>7, <1>8, SeqEqual
<1> QED
  BY <1>9 DEF l, p, h, q, b, InOrder

\* With a nyx that answers within the call, mCmdList lists what the dispatch
\* thread holds, then the queue, then what is between the two appends.
THEOREM SynchronousIsInOrder == ~NyxAsync => (SafeSpec => []InOrder)
<1> SUFFICES ASSUME ~NyxAsync PROVE SafeSpec => []InOrder
  OBVIOUS
<1>1. Init => FrontInHand
  BY InitFrontInHand
<1>2. ServiceInv /\ Books /\ Aligned /\ FrontInHand /\ [Next]_vars => FrontInHand'
  BY FrontInHandStep
<1>3. ServiceInv /\ Books /\ Aligned /\ FrontInHand => InOrder
  BY FrontInHandOrders
<1> QED
  BY <1>1, <1>2, <1>3, AlignmentInvariant, PTL DEF SafeSpec

-----------------------------------------------------------------------------
(* Client ids: one reply at most.                                          *)

\* No id is given a second time while a request still goes by it, either
\* because clients wait for the ids to be free or because there are enough.
IdsSuffice == (Window <= IdMod /\ ~NyxLossy) \/ MaxRequests <= IdMod

Ids == 0..(IdMod - 1)

\* A command of request n with this id is in the list or with a thread.
Live(n, id) ==
  \/ \E i \in 1..Len(mCmdList) : mCmdList[i].n = n /\ mCmdList[i].id = id
  \/ \E t \in Threads : Working(t) /\ cmd[t].n = n /\ cmd[t].id = id

\* Request n goes by this id: its entry, or its command, says so.
Tagged(n, id) == n # 0 /\ (m_clients[id] = n \/ Live(n, id))

\* How many ids were given after this one.
Behind(id) == IF id <= m_clientId THEN m_clientId - id ELSE m_clientId + IdMod - id
ToInsert == IF pc["main"] = "insert" THEN 1 ELSE 0

OneOwner ==
  \A id \in Ids : \A n, k \in Nat : Tagged(n, id) /\ Tagged(k, id) => n = k

IdsKeepUp ==
  \A id \in Ids : \A n \in Nat : Tagged(n, id) =>
    Len(issued) - n < IdMod /\ Behind(id) + ToInsert <= Len(issued) - n

\* What is still to be answered has not been, and is erased once it is.
Unreplied ==
  /\ \A i \in 1..Len(mCmdList) : mCmdList[i].n # 0 => replies[mCmdList[i].n] = <<>>
  /\ \A t \in Threads : Working(t) =>
       IF pc[t] = "erase" THEN cmd[t].n # 0 /\ m_clients[cmd[t].id] = cmd[t].n
       ELSE cmd[t].n # 0 => replies[cmd[t].n] = <<>>

Fresh ==
  \A k \in 1..MaxRequests :
    k > Len(issued) \/ (k = Len(issued) /\ pc["main"] = "insert") => replies[k] = <<>>

Registered == OneOwner /\ IdsKeepUp /\ Unreplied /\ Fresh /\ AtMostOneReply

LEMMA IdTypes ==
  ASSUME ServiceInv
  PROVE  /\ IdMod \in Nat /\ IdMod # 0 /\ Ids \subseteq Nat
         /\ m_clients \in [Ids -> 0..MaxRequests] /\ m_clientId \in Ids
         /\ \A i \in 1..Len(mCmdList) : mCmdList[i].id \in Ids
         /\ \A t \in Threads : cmd[t].id \in Ids
         /\ replies \in [1..MaxRequests -> Seq(ReplyRecord)]
<1>0. Parts
  BY InvariantParts
<1>1. IdMod \in Nat /\ IdMod # 0 /\ Ids \subseteq Nat
  BY <1>0 DEF Parts, Ids
<1>2. /\ m_clients \in [Ids -> 0..MaxRequests] /\ m_clientId \in Ids
      /\ replies \in [1..MaxRequests -> Seq(ReplyRecord)]
  BY <1>0 DEF Parts, RegistryType, Ids
<1>3. \A c \in CommandRecord : c.id \in Ids
  BY DEF CommandRecord, Ids
<1> QED
  BY <1>1, <1>2, <1>3, HeldTypes

\* A quiet step leaves the clients alone, unless it is a reply.
StaysUnreplied ==
  /\ UNCHANGED <<busVars, clientVars>>
  /\ \A t \in Threads : pc'[t] # pc[t] => pc[t] # "erase" /\ pc'[t] # "erase"

LEMMA QuietOrReply ==
  ASSUME ServiceInv, [Next]_vars
  PROVE  \/ \E r \in Requests : BusRequest(r)
         \/ InsertClient \/ PushCommand \/ EnqueueMessage
         \/ ConstructPush \/ ConstructEnqueue
         \/ WorkerTake \/ WorkerAnswered \/ WorkerAccepted
         \/ NyxCallback \/ NyxForgets
         \/ \E t \in CallbackThreads : TakeFront(t)
         \/ Quiet /\ StaysUnreplied
         \/ \E t \in Threads : ReplyStep(t)
<1>1. CASE ValidateAdapter \/ ValidateAddress
  BY <1>1, QuietSteps, ValidationMoves, ThreadNames DEF StaysUnreplied
<1>2. CASE \E t \in CallbackThreads :
             ClearAdapters(t) \/ PushAdapter(t) \/ RecordDevice(t)
  BY <1>2, QuietSteps, ParseMoves DEF StaysUnreplied
<1>3. CASE UNCHANGED vars
  BY <1>3, QuietSteps DEF vars, StaysUnreplied
<1> QED
  BY <1>1, <1>2, <1>3, ThreadNames
     DEF Next, MainStep, InitStep, WorkerStep, NyxStep, CallbackStep

\* What responding to a client does to the replies and to the map.
Responds(t) ==
  /\ pc[t] = "reply" /\ pc'[t] = "erase" /\ cmd[t].n # 0 /\ UNCHANGED m_clients
  /\ ReplyTo(t) \in 1..MaxRequests
  /\ replies'[ReplyTo(t)] = Append(replies[ReplyTo(t)], ReplyOf(t))
  /\ \A k \in 1..MaxRequests : k # ReplyTo(t) => replies'[k] = replies[k]
Passes(t) == pc[t] = "reply" /\ pc'[t] = "idle" /\ UNCHANGED <<replies, m_clients>>
Erases(t) ==
  /\ pc[t] = "erase" /\ pc'[t] = "idle" /\ UNCHANGED replies
  /\ m_clients'[cmd[t].id] \in {0, m_clients[cmd[t].id]}
  /\ \A id \in Ids : id # cmd[t].id => m_clients'[id] = m_clients[id]

LEMMA ReplyEffects ==
  ASSUME ServiceInv, NEW t \in Threads, ReplyStep(t)
  PROVE  /\ Responds(t) \/ Passes(t) \/ Erases(t)
         /\ \A id \in Ids : m_clients'[id] \in {0, m_clients[id]}
<1>0. /\ m_clients \in [Ids -> 0..MaxRequests] /\ cmd[t].id \in Ids
      /\ replies \in [1..MaxRequests -> Seq(ReplyRecord)]
  BY IdTypes
<1>1. ASSUME Reply(t) PROVE (Responds(t) \/ Passes(t)) /\ UNCHANGED m_clients
  <2>1. UNCHANGED m_clients /\ pc[t] = "reply"
    BY <1>1 DEF Reply, clientVars
  <2>2. CASE Goto(t, "idle") /\ UNCHANGED replies
    BY <2>1, <2>2, GotoMoves DEF Passes
  <2>3. CASE /\ cmd[t].n # 0 /\ ReplyTo(t) # 0
             /\ replies' = [replies EXCEPT ![ReplyTo(t)] = Append(@, ReplyOf(t))]
             /\ Goto(t, "erase")
    <3>1. ReplyTo(t) \in 1..MaxRequests
      BY <1>0, <2>3, HeldTypes DEF ReplyTo
    <3>2. pc'[t] = "erase"
      BY <2>3, GotoMoves
    <3> QED
      BY <1>0, <2>1, <2>3, <3>1, <3>2 DEF Responds
  <2> QED
    BY <1>1, <2>2, <2>3 DEF Reply
<1>2. ASSUME EraseClient(t)
      PROVE  Erases(t) /\ \A id \in Ids : m_clients'[id] \in {0, m_clients[id]}
  <2>1. pc[t] = "erase" /\ pc'[t] = "idle" /\ UNCHANGED replies
    BY <1>2, GotoMoves DEF EraseClient, busVars
  <2>2. m_clients' = [m_clients EXCEPT ![cmd[t].id] = 0] \/ UNCHANGED m_clients
    BY <1>2 DEF EraseClient
  <2> QED
    BY <1>0, <2>1, <2>2 DEF Erases
<1> QED
  BY <1>1, <1>2 DEF ReplyStep

\* Only InsertClient makes a command,
LEMMA LiveBefore ==
  ASSUME ServiceInv, [Next]_vars, NEW n, n # 0, NEW id, Live(n, id)'
  PROVE  Live(n, id) \/ (InsertClient /\ n = Len(issued) /\ id = NextId)
<1>0. Len(mCmdList) \in Nat
  BY HeldTypes
<1>1. ASSUME UNCHANGED <<mCmdList, cmd>>, \A t \in Threads : Working(t)' => Working(t)
      PROVE  Live(n, id)
  BY <1>1 DEF Live
<1>2. CASE \E r \in Requests : BusRequest(r)
  BY <1>1, <1>2, BusMoves, ThreadNames DEF Working
<1>3. CASE InsertClient
  <2>1. /\ UNCHANGED mCmdList /\ cmd'["main"].n = Len(issued) /\ cmd'["main"].id = NextId
        /\ \A t \in CallbackThreads : pc'[t] = pc[t] /\ cmd'[t] = cmd[t]
    BY <1>3, InsertMoves
  <2>2. CASE \E i \in 1..Len(mCmdList') : mCmdList'[i].n = n /\ mCmdList'[i].id = id
    BY <2>1, <2>2 DEF Live
  <2>3. CASE \E t \in Threads : Working(t)' /\ cmd'[t].n = n /\ cmd'[t].id = id
    BY <1>3, <2>1, <2>3, ThreadNames DEF Live, Working
  <2> QED
    BY <2>2, <2>3 DEF Live
<1>4. CASE PushCommand
  <2>1. /\ UNCHANGED cmd /\ Working("main")
        /\ \A t \in Threads : Working(t)' => Working(t)
        /\ Len(mCmdList') = Len(mCmdList) + 1
        /\ \A i \in 1..Len(mCmdList) : mCmdList'[i] = mCmdList[i]
        /\ mCmdList'[Len(mCmdList) + 1] = cmd["main"]
    BY <1>4, PushMoves, ThreadNames DEF Working
  <2>2. \A i \in 1..Len(mCmdList') : i \in 1..Len(mCmdList) \/ i = Len(mCmdList) + 1
    BY <1>0, <2>1
  <2> QED
    BY <1>0, <2>1, <2>2, ThreadNames DEF Live
<1>5. CASE EnqueueMessage \/ ConstructEnqueue
  BY <1>1, <1>5, EnqueueMoves, ConstructMoves, ThreadNames DEF Working
<1>6. CASE ConstructPush
  <2>1. /\ UNCHANGED <<cmd, pc>>
        /\ Len(mCmdList') = Len(mCmdList) + 1
        /\ \A i \in 1..Len(mCmdList) : mCmdList'[i] = mCmdList[i]
        /\ mCmdList'[Len(mCmdList) + 1].n = 0
    BY <1>6, ConstructMoves DEF ConstructorCmd
  <2>2. \A i \in 1..Len(mCmdList') : i \in 1..Len(mCmdList) \/ i = Len(mCmdList) + 1
    BY <1>0, <2>1
  <2> QED
    BY <1>0, <2>1, <2>2 DEF Live, Working
<1>7. CASE WorkerTake \/ WorkerAnswered \/ WorkerAccepted \/ NyxCallback \/ NyxForgets
  BY <1>1, <1>7, TakeMoves, AnsweredMoves, AcceptedMoves, NyxMoves, ForgetMoves,
     ThreadNames DEF Enters, Working
<1>8. ASSUME NEW t \in CallbackThreads, TakeFront(t)
      PROVE  Live(n, id)
  <2>1. CASE UNCHANGED <<mCmdList, cmd>> /\ pc'[t] = "idle"
    BY <1>1, <1>8, <2>1, FrontMoves, ThreadNames DEF Working
  <2>2. CASE Takes(t)
    <3>1. /\ Len(mCmdList) >= 1 /\ cmd'[t] = mCmdList[1]
          /\ \A u \in Threads \ {t} : cmd'[u] = cmd[u] /\ (Working(u)' => Working(u))
          /\ Len(mCmdList') = Len(mCmdList) - 1
          /\ \A i \in 1..(Len(mCmdList) - 1) : mCmdList'[i] = mCmdList[i + 1]
      BY <1>8, <2>2, FrontMoves DEF Takes, Working
    <3>2. 1 \in 1..Len(mCmdList)
      BY <1>0, <3>1
    <3>3. ASSUME NEW i \in 1..Len(mCmdList')
          PROVE  i + 1 \in 1..Len(mCmdList) /\ mCmdList'[i] = mCmdList[i + 1]
      <4>1. i \in 1..(Len(mCmdList) - 1)
        BY <3>1
      <4> QED
        BY <1>0, <3>1, <4>1
    <3> QED
      BY <1>0, <3>1, <3>2, <3>3 DEF Live
  <2> QED
    BY <1>8, <2>1, <2>2, FrontMoves
<1>9. CASE Quiet /\ StaysUnreplied
  BY <1>1, <1>9, ThreadNames DEF Quiet, StaysUnreplied, Working
<1>10. CASE \E t \in Threads : ReplyStep(t)
  <2>1. PICK t \in Threads : ReplyStep(t)
    BY <1>10
  <2>2. UNCHANGED <<mCmdList, cmd>> /\ \A u \in Threads : Working(u)' => Working(u)
    BY <2>1, ReplyMoves DEF Working
  <2> QED
    BY <1>1, <2>2
<1> QED
  BY <1>2, <1>3, <1>4, <1>5, <1>6, <1>7, <1>8, <1>9, <1>10, QuietOrReply
\* has a request go by an id,
LEMMA TaggedBefore ==
  ASSUME ServiceInv, [Next]_vars, NEW n, NEW id \in Ids, Tagged(n, id)'
  PROVE  Tagged(n, id) \/ (InsertClient /\ n = Len(issued) /\ id = NextId)
<1>0. m_clients \in [Ids -> 0..MaxRequests] /\ n # 0
  BY IdTypes DEF Tagged
<1>1. CASE Live(n, id)'
  BY <1>0, <1>1, LiveBefore DEF Tagged
<1>2. CASE m_clients'[id] = n
  <2>1. CASE m_clients'[id] \in {0, m_clients[id]}
    BY <1>0, <1>2, <2>1 DEF Tagged
  <2>2. CASE InsertClient
    <3>1. \/ m_clients' = [m_clients EXCEPT ![NextId] = Len(issued)]
          \/ UNCHANGED m_clients
      BY <2>2 DEF InsertClient
    <3> QED
      BY <1>0, <1>2, <2>2, <3>1 DEF Tagged
  <2>3. CASE \E t \in Threads : ReplyStep(t)
    BY <2>1, <2>3, ReplyEffects
  <2>4. CASE ~InsertClient /\ ~(\E t \in Threads : ReplyStep(t))
    <3>1. UNCHANGED m_clients
      BY <2>4, QuietOrReply, BusMoves, PushMoves, EnqueueMoves, ConstructMoves, TakeMoves,
         AnsweredMoves, AcceptedMoves, NyxMoves, ForgetMoves, FrontMoves
         DEF StaysUnreplied, clientVars
    <3> QED
      BY <2>1, <3>1
  <2> QED
    BY <2>2, <2>3, <2>4
<1> QED
  BY <1>1, <1>2 DEF Tagged

\* The next id: the one after the last, or 0 again.
LEMMA NextIdIs ==
  ASSUME ServiceInv
  PROVE  /\ NextId = (IF m_clientId + 1 = IdMod THEN 0 ELSE m_clientId + 1)
         /\ NextId \in Ids
<1>1. IdMod \in Nat /\ IdMod # 0 /\ m_clientId \in 0..(IdMod - 1)
  BY IdTypes DEF Ids
<1>2. CASE m_clientId + 1 = IdMod
  <2>1. IdMod % IdMod = 0
    BY <1>1, SMT
  <2> QED
    BY <1>1, <1>2, <2>1 DEF NextId, Ids
<1>3. CASE m_clientId + 1 # IdMod
  <2>1. \A a, m \in Nat : a < m => a % m = a
    BY SMT
  <2>2. m_clientId + 1 \in Nat /\ m_clientId + 1 < IdMod
    BY <1>1, <1>3
  <2>3. (m_clientId + 1) % IdMod = m_clientId + 1
    BY <1>1, <2>1, <2>2
  <2> QED
    BY <1>1, <1>3, <2>2, <2>3 DEF NextId, Ids
<1> QED
  BY <1>2, <1>3

\* Nothing goes by the id that is given next.
LEMMA NextIdFree ==
  ASSUME ServiceInv, IdsKeepUp, pc["main"] = "insert", NEW n \in Nat
  PROVE  ~Tagged(n, NextId)
<1>1. SUFFICES ASSUME Tagged(n, NextId) PROVE FALSE
  OBVIOUS
<1>2. /\ IdMod \in Nat /\ m_clientId \in 0..(IdMod - 1) /\ Len(issued) \in Nat
      /\ NextId = (IF m_clientId + 1 = IdMod THEN 0 ELSE m_clientId + 1)
      /\ NextId \in Ids
  BY IdTypes, HeldTypes, NextIdIs DEF Ids
<1>3. Behind(NextId) = IdMod - 1
  BY <1>2 DEF Behind
<1>4. Len(issued) - n < IdMod /\ Behind(NextId) + 1 <= Len(issued) - n
  BY <1>1, <1>2 DEF IdsKeepUp, ToInsert
<1> QED
  BY <1>2, <1>3, <1>4

LEMMA OneOwnerStep ==
  ASSUME ServiceInv, [Next]_vars, OneOwner, IdsKeepUp
  PROVE  OneOwner'
<1> SUFFICES ASSUME NEW id \in Ids, NEW n \in Nat, NEW k \in Nat,
                    Tagged(n, id)', Tagged(k, id)'
             PROVE  n = k
  BY DEF OneOwner, Ids
<1>1. Tagged(n, id) \/ (InsertClient /\ n = Len(issued) /\ id = NextId)
  BY TaggedBefore
<1>2. Tagged(k, id) \/ (InsertClient /\ k = Len(issued) /\ id = NextId)
  BY TaggedBefore
<1>3. InsertClient => ~Tagged(n, NextId) /\ ~Tagged(k, NextId)
  BY NextIdFree DEF InsertClient
<1> QED
  BY <1>1, <1>2, <1>3 DEF OneOwner

\* A request that goes by an id is not settled.
LEMMA TaggedUnsettled ==
  ASSUME ServiceInv, Books, Unreplied, pc["main"] = "idle",
         NEW n \in Nat, NEW id \in Ids, Tagged(n, id)
  PROVE  ~Settled(n)
<1>1. CASE m_clients[id] = n
  BY <1>1, IdTypes DEF Settled
<1>2. CASE \E i \in 1..Len(mCmdList) : mCmdList[i].n = n /\ mCmdList[i].id = id
  BY <1>2 DEF Settled, Unreplied, Tagged, Live
<1>3. CASE \E t \in Threads : Working(t) /\ cmd[t].n = n /\ cmd[t].id = id
  <2>1. PICK t \in Threads : Working(t) /\ cmd[t].n = n /\ cmd[t].id = id
    BY <1>3
  <2>2. cmd[t].n # 0
    BY <2>1 DEF Tagged, Live
  <2>3. replies[n] = <<>> \/ m_clients[id] = n
    BY <2>1, <2>2 DEF Unreplied
  <2> QED
    BY <1>1, <2>3 DEF Settled
<1> QED
  BY <1>1, <1>2, <1>3 DEF Tagged, Live

LEMMA IdsKeepUpStep ==
  ASSUME ServiceInv, [Next]_vars, Books, IdsSuffice, IdsKeepUp, Unreplied
  PROVE  IdsKeepUp'
<1> SUFFICES ASSUME NEW id \in Ids, NEW n \in Nat, Tagged(n, id)'
             PROVE  /\ Len(issued') - n < IdMod
                    /\ Behind(id)' + ToInsert' <= Len(issued') - n
  BY DEF IdsKeepUp, Ids
<1>0. /\ Len(issued) \in Nat /\ IdMod \in Nat /\ IdMod # 0 /\ id \in 0..(IdMod - 1)
      /\ m_clientId \in 0..(IdMod - 1) /\ n # 0 /\ pc["main"] \in MainPcs
      /\ MaxRequests \in Nat /\ Window \in Nat
  BY IdTypes, HeldTypes, ServiceAssumption DEF Ids, Tagged, Live, ServiceAssumption
<1>1. CASE InsertClient
  <2>1. /\ UNCHANGED issued /\ ToInsert = 1 /\ ToInsert' = 0
        /\ m_clientId' = NextId
        /\ NextId = (IF m_clientId + 1 = IdMod THEN 0 ELSE m_clientId + 1)
    BY <1>1, InsertMoves, NextIdIs DEF InsertClient, busVars, ToInsert
  <2>2. Tagged(n, id) \/ (n = Len(issued) /\ id = NextId)
    BY TaggedBefore
  <2>3. CASE n = Len(issued) /\ id = NextId
    <3>1. Behind(id)' = 0
      BY <1>0, <2>1, <2>3 DEF Behind
    <3> QED
      BY <1>0, <2>1, <2>3, <3>1
  <2>4. CASE Tagged(n, id)
    <3>1. id # NextId
      BY <1>1, <2>4, NextIdFree DEF InsertClient
    <3>2. Len(issued) - n < IdMod /\ Behind(id) + 1 <= Len(issued) - n
      BY <2>1, <2>4 DEF IdsKeepUp
    <3>3. Behind(id)' + ToInsert' = Behind(id) + 1
      BY <1>0, <2>1, <3>1 DEF Behind
    <3>4. Len(issued') = Len(issued)
      BY <2>1
    <3> QED
      BY <3>2, <3>3, <3>4
  <2> QED
    BY <2>2, <2>3, <2>4
<1>2. CASE \E r \in Requests : BusRequest(r)
  <2>1. /\ pc["main"] = "idle" /\ MaySend /\ UNCHANGED m_clientId
        /\ Len(issued') = Len(issued) + 1 /\ Len(issued) < MaxRequests
        /\ ToInsert = 0 /\ ToInsert' \in {0, 1}
    BY <1>2, BusMoves DEF clientVars, ToInsert
  <2>2. Tagged(n, id)
    BY <1>2, TaggedBefore, BusMoves DEF InsertClient
  <2>3. Len(issued) - n < IdMod /\ Behind(id) <= Len(issued) - n
    BY <1>0, <2>1, <2>2 DEF IdsKeepUp, Behind
  <2>4. Behind(id)' = Behind(id) /\ Behind(id) \in Nat
    BY <1>0, <2>1 DEF Behind
  <2>5. n \in 1..Len(issued)
    BY <1>0, <2>3, <2>4
  <2>6. Len(issued) + 1 - n < IdMod
    <3>1. CASE MaxRequests <= IdMod
      BY <1>0, <2>1, <2>5, <3>1
    <3>2. CASE Window <= IdMod /\ ~NyxLossy
      <4>1. ~Settled(n) /\ ~GivenUp(n)
        BY <2>1, <2>2, <3>2, TaggedUnsettled DEF GivenUp
      <4>2. ~(n + Window <= Len(issued) + 1)
        BY <2>1, <2>5, <4>1 DEF MaySend
      <4> QED
        BY <1>0, <2>5, <3>2, <4>2
    <3> QED
      BY <3>1, <3>2 DEF IdsSuffice
  <2> QED
    BY <1>0, <2>1, <2>3, <2>4, <2>6
<1>3. ASSUME UNCHANGED <<issued, m_clientId>>, ~InsertClient,
             pc'["main"] = "insert" => pc["main"] = "insert"
      PROVE  /\ Len(issued') - n < IdMod
             /\ Behind(id)' + ToInsert' <= Len(issued') - n
  <2>1. Tagged(n, id)
    BY <1>3, TaggedBefore
  <2>2. Behind(id)' = Behind(id) /\ Behind(id) \in Nat
    BY <1>0, <1>3 DEF Behind
  <2>3. ToInsert \in {0, 1} /\ ToInsert' \in {0, 1} /\ (ToInsert' = 1 => ToInsert = 1)
    BY <1>3 DEF ToInsert
  <2>4. Len(issued) - n < IdMod /\ Behind(id) + ToInsert <= Len(issued) - n
    BY <2>1 DEF IdsKeepUp
  <2> QED
    BY <1>0, <1>3, <2>2, <2>3, <2>4
<1>4. CASE ~InsertClient /\ ~(\E r \in Requests : BusRequest(r))
  <2>1. UNCHANGED <<issued, m_clientId>>
    BY <1>4, QuietOrReply, PushMoves, EnqueueMoves, ConstructMoves, TakeMoves,
       AnsweredMoves, AcceptedMoves, NyxMoves, ForgetMoves, FrontMoves, ReplyMoves
       DEF StaysUnreplied, busVars, clientVars
  <2>2. pc'["main"] = "insert" => pc["main"] = "insert"
    BY <1>4, Steps, PushMoves, EnqueueMoves, ConstructMoves, TakeMoves,
       AnsweredMoves, AcceptedMoves, NyxMoves, ForgetMoves, FrontMoves, ThreadNames
       DEF Quiet, Enters
  <2> QED
    BY <1>3, <1>4, <2>1, <2>2
<1> QED
  BY <1>1, <1>2, <1>4

\* A request is replied to by the thread that works on it, once.
LEMMA RespondsToOwner ==
  ASSUME ServiceInv, Books, OneOwner, NEW t \in Threads, Responds(t)
  PROVE  ReplyTo(t) = cmd[t].n /\ cmd[t].n \in 1..MaxRequests
<1>1. cmd[t].id \in Ids /\ cmd[t].n \in Nat /\ ReplyTo(t) \in Nat /\ ReplyTo(t) # 0
  BY IdTypes, HeldTypes DEF Responds
<1>2. Tagged(ReplyTo(t), cmd[t].id)
  BY <1>1 DEF Tagged, Live, ReplyTo
<1>3. Tagged(cmd[t].n, cmd[t].id)
  BY DEF Tagged, Live, Responds, Working
<1>4. ReplyTo(t) = cmd[t].n
  BY <1>1, <1>2, <1>3 DEF OneOwner
<1> QED
  BY <1>4 DEF Responds

\* The commands that are not yet done are of different requests.
LEMMA WorkDistinct ==
  ASSUME ServiceInv, Books, Ordered, NEW t \in Threads, Working(t)
  PROVE  /\ \A i \in 1..Len(mCmdList) : mCmdList[i].n # cmd[t].n
         /\ \A u \in Threads \ {t} : Working(u) => cmd[u].n # cmd[t].n
<1>0. /\ Len(issued) \in Nat /\ \A u \in Threads : cmd[u].n \in Nat
      /\ \A i \in 1..Len(mCmdList) : mCmdList[i].n \in Nat
  BY HeldTypes
<1>1. Working("main") => cmd["main"].n = Len(issued)
  BY DEF Books, MainWorks, Working
<1>2. Working("main") =>
        /\ \A i \in 1..Len(mCmdList) : mCmdList[i].n # cmd["main"].n
        /\ \A u \in CallbackThreads : Working(u) => cmd[u].n # cmd["main"].n
  BY <1>0, <1>1, HeldTypes DEF Ordered, MainIsYoungest, Working, MainPcs
<1>3. \A u \in CallbackThreads : Working(u) =>
        \A i \in 1..Len(mCmdList) : mCmdList[i].n # cmd[u].n
  BY <1>0, ThreadNames DEF Ordered, TakenAreOlder
<1>4. Working("worker") /\ Working("nyx") => cmd["worker"].n # cmd["nyx"].n
  BY DEF Ordered, TakenAreOlder
<1> QED
  BY <1>2, <1>3, <1>4, ThreadNames

LEMMA UnrepliedStep ==
  ASSUME ServiceInv, [Next]_vars, Books, Ordered, Registered
  PROVE  Unreplied'
<1> USE DEF Registered
<1>0. /\ Len(issued) \in Nat /\ Len(mCmdList) \in Nat /\ MaxRequests \in Nat
      /\ \A i \in 1..Len(mCmdList) : mCmdList[i].n \in Nat
      /\ \A t \in Threads : cmd[t].n \in Nat /\ cmd[t].id \in Ids
      /\ replies \in [1..MaxRequests -> Seq(ReplyRecord)]
      /\ m_clients \in [Ids -> 0..MaxRequests]
  BY IdTypes, HeldTypes
<1>1. ASSUME UNCHANGED <<mCmdList, cmd, replies, m_clients>>,
             \A t \in Threads :
               \/ Working(t)' => pc'[t] = pc[t]
               \/ Working(t) /\ pc[t] # "erase" /\ pc'[t] # "erase"
      PROVE  Unreplied'
  BY <1>1 DEF Unreplied, Working
<1>2. CASE \E r \in Requests : BusRequest(r)
  <2>1. /\ UNCHANGED <<mCmdList, cmd, m_clients>> /\ Len(issued) < MaxRequests
        /\ \A t \in Threads : Working(t)' => pc'[t] = pc[t]
    BY <1>2, BusMoves, ThreadNames, SMTT(30) DEF clientVars, Working
  <2>2. \A k \in 1..Len(issued) : replies'[k] = replies[k]
    BY <1>0, <1>2, <2>1 DEF BusRequest
  <2>3. \A i \in 1..Len(mCmdList) : mCmdList[i].n # 0 => mCmdList[i].n \in 1..Len(issued)
    BY <1>0 DEF Books, CommandsIssued
  <2>4. \A t \in Threads : cmd[t].n # 0 => cmd[t].n \in 1..Len(issued)
    BY <1>0 DEF Books, MessagesIssued
  <2> QED
    BY <2>1, <2>2, <2>3, <2>4 DEF Unreplied, Working
<1>3. CASE InsertClient
  <2>1. /\ UNCHANGED <<mCmdList, replies>> /\ pc["main"] = "insert" /\ pc'["main"] = "adapter"
        /\ cmd'["main"].n = Len(issued)
        /\ \A t \in CallbackThreads : pc'[t] = pc[t] /\ cmd'[t] = cmd[t]
    BY <1>3, InsertMoves DEF busVars
  <2>2. Len(issued) # 0 => replies[Len(issued)] = <<>>
    BY <1>0, <2>1, HeldTypes DEF Fresh
  <2>3. ASSUME NEW t \in CallbackThreads, Working(t), pc[t] = "erase"
        PROVE  m_clients'[cmd[t].id] = cmd[t].n
    <3>1. t \in Threads
      BY ThreadNames
    <3>2. cmd[t].n # 0 /\ m_clients[cmd[t].id] = cmd[t].n
      BY <2>3, <3>1 DEF Unreplied
    <3>3. Tagged(cmd[t].n, cmd[t].id)
      BY <3>2 DEF Tagged, Live
    <3>4. cmd[t].id # NextId
      BY <1>0, <2>1, <3>1, <3>3, NextIdFree
    <3> QED
      BY <1>0, <1>3, <3>1, <3>2, <3>4 DEF InsertClient
  <2> QED
    BY <2>1, <2>2, <2>3, ThreadNames DEF Unreplied, Working
<1>4. CASE PushCommand
  <2>1. /\ UNCHANGED <<cmd, replies, m_clients>>
        /\ pc["main"] = "push" /\ pc'["main"] = "enqueue"
        /\ \A t \in CallbackThreads : pc'[t] = pc[t]
        /\ Len(mCmdList') = Len(mCmdList) + 1
        /\ \A i \in 1..Len(mCmdList) : mCmdList'[i] = mCmdList[i]
        /\ mCmdList'[Len(mCmdList) + 1] = cmd["main"]
    BY <1>4, PushMoves DEF busVars, clientVars
  <2>2. \A i \in 1..Len(mCmdList') : i \in 1..Len(mCmdList) \/ i = Len(mCmdList) + 1
    BY <1>0, <2>1
  <2>3. cmd["main"].n # 0 => replies[cmd["main"].n] = <<>>
    BY <2>1, ThreadNames DEF Unreplied, Working
  <2> QED
    BY <2>1, <2>2, <2>3, ThreadNames DEF Unreplied, Working
<1>5. CASE EnqueueMessage \/ ConstructEnqueue
  BY <1>1, <1>5, EnqueueMoves, ConstructMoves, ThreadNames DEF clientVars, busVars, Working
<1>6. CASE ConstructPush
  <2>1. /\ UNCHANGED <<cmd, pc, replies, m_clients>>
        /\ Len(mCmdList') = Len(mCmdList) + 1
        /\ \A i \in 1..Len(mCmdList) : mCmdList'[i] = mCmdList[i]
        /\ mCmdList'[Len(mCmdList) + 1].n = 0
    BY <1>6, ConstructMoves DEF busVars, clientVars, ConstructorCmd
  <2>2. \A i \in 1..Len(mCmdList') : i \in 1..Len(mCmdList) \/ i = Len(mCmdList) + 1
    BY <1>0, <2>1
  <2> QED
    BY <2>1, <2>2 DEF Unreplied, Working
<1>7. CASE WorkerTake \/ WorkerAnswered \/ WorkerAccepted \/ NyxCallback \/ NyxForgets
  BY <1>1, <1>7, TakeMoves, AnsweredMoves, AcceptedMoves, NyxMoves, ForgetMoves,
     ThreadNames DEF clientVars, busVars, Enters, Working
<1>8. ASSUME NEW t \in CallbackThreads, TakeFront(t)
      PROVE  Unreplied'
  <2>1. CASE UNCHANGED <<mCmdList, cmd>> /\ pc'[t] = "idle"
    BY <1>1, <1>8, <2>1, FrontMoves, ThreadNames DEF clientVars, busVars, Working
  <2>2. CASE Takes(t)
    <3>1. /\ UNCHANGED <<replies, m_clients>>
          /\ Len(mCmdList) >= 1 /\ cmd'[t] = mCmdList[1]
          /\ pc'[t] \in {"clear", "devices", "reply"}
          /\ \A u \in Threads \ {t} : cmd'[u] = cmd[u] /\ pc'[u] = pc[u]
          /\ Len(mCmdList') = Len(mCmdList) - 1
          /\ \A i \in 1..(Len(mCmdList) - 1) : mCmdList'[i] = mCmdList[i + 1]
      BY <1>8, <2>2, FrontMoves DEF Takes, clientVars, busVars
    <3>2. 1 \in 1..Len(mCmdList)
      BY <1>0, <3>1
    <3>3. ASSUME NEW i \in 1..Len(mCmdList')
          PROVE  i + 1 \in 1..Len(mCmdList) /\ mCmdList'[i] = mCmdList[i + 1]
      <4>1. i \in 1..(Len(mCmdList) - 1)
        BY <3>1
      <4> QED
        BY <1>0, <3>1, <4>1
    <3>4. cmd'[t].n # 0 => replies[cmd'[t].n] = <<>>
      BY <3>1, <3>2 DEF Unreplied
    <3> QED
      BY <3>1, <3>3, <3>4 DEF Unreplied, Working
  <2> QED
    BY <1>8, <2>1, <2>2, FrontMoves
<1>9. CASE Quiet /\ StaysUnreplied
  <2>1. UNCHANGED <<mCmdList, cmd, replies, m_clients>>
    BY <1>9 DEF Quiet, StaysUnreplied, busVars, clientVars
  <2>2. ASSUME NEW t \in Threads, Working(t)', pc'[t] # pc[t]
        PROVE  Working(t) /\ pc[t] # "erase" /\ pc'[t] # "erase"
    BY <1>9, <2>2, ThreadNames DEF Quiet, StaysUnreplied, Working
  <2> QED
    BY <1>1, <2>1, <2>2
<1>10. ASSUME NEW t \in Threads, ReplyStep(t)
       PROVE  Unreplied'
  <2>1. /\ UNCHANGED <<mCmdList, cmd>> /\ \A u \in Threads \ {t} : pc'[u] = pc[u]
    BY <1>10, ReplyMoves
  <2>2. CASE Responds(t)
    <3>1. /\ ReplyTo(t) = cmd[t].n /\ cmd[t].n # 0 /\ UNCHANGED m_clients
          /\ pc[t] = "reply" /\ pc'[t] = "erase"
          /\ \A k \in 1..MaxRequests : k # cmd[t].n => replies'[k] = replies[k]
      BY <2>2, RespondsToOwner DEF Responds
    <3>2. /\ \A i \in 1..Len(mCmdList) : mCmdList[i].n # cmd[t].n
          /\ \A u \in Threads \ {t} : Working(u) => cmd[u].n # cmd[t].n
      BY <3>1, WorkDistinct DEF Working
    <3>3. /\ \A i \in 1..Len(mCmdList) : mCmdList[i].n # 0 => mCmdList[i].n \in 1..MaxRequests
          /\ \A u \in Threads : cmd[u].n # 0 => cmd[u].n \in 1..MaxRequests
      BY <1>0, HeldTypes, SMTT(30) DEF Books, CommandsIssued, MessagesIssued
    <3>4. m_clients[cmd[t].id] = cmd[t].n
      BY <3>1 DEF ReplyTo
    <3> QED
      BY <2>1, <3>1, <3>2, <3>3, <3>4 DEF Unreplied, Working
  <2>3. CASE Passes(t)
    BY <1>1, <2>1, <2>3 DEF Passes, Working
  <2>4. CASE Erases(t)
    <3>1. cmd[t].n # 0 /\ m_clients[cmd[t].id] = cmd[t].n
      BY <2>4 DEF Erases, Unreplied, Working
    <3>2. ASSUME NEW u \in Threads \ {t}, Working(u), pc[u] = "erase"
          PROVE  m_clients'[cmd[u].id] = m_clients[cmd[u].id]
      <4>1. cmd[u].n # 0 /\ m_clients[cmd[u].id] = cmd[u].n
        BY <3>2 DEF Unreplied
      <4>2. cmd[u].n # cmd[t].n
        BY <2>4, <3>2, WorkDistinct DEF Erases, Working
      <4>3. cmd[u].id # cmd[t].id
        BY <3>1, <4>1, <4>2
      <4> QED
        BY <1>0, <2>4, <4>3 DEF Erases
    <3> QED
      BY <2>1, <2>4, <3>2 DEF Unreplied, Working, Erases
  <2> QED
    BY <1>10, <2>2, <2>3, <2>4, ReplyEffects
<1> QED
  BY <1>2, <1>3, <1>4, <1>5, <1>6, <1>7, <1>8, <1>9, <1>10, QuietOrReply

LEMMA FreshStep ==
  ASSUME ServiceInv, [Next]_vars, Books, Ordered, OneOwner, Fresh
  PROVE  Fresh'
<1>0. /\ Len(issued) \in Nat /\ MaxRequests \in Nat /\ pc["main"] \in MainPcs
      /\ \A t \in Threads : cmd[t].n \in Nat
      /\ replies \in [1..MaxRequests -> Seq(ReplyRecord)]
  BY IdTypes, HeldTypes
<1>1. ASSUME UNCHANGED <<issued, replies>>, pc'["main"] = "insert" => pc["main"] = "insert"
      PROVE  Fresh'
  BY <1>1 DEF Fresh
<1>2. CASE \E r \in Requests : BusRequest(r)
  <2>1. Len(issued') = Len(issued) + 1 /\ Len(issued) < MaxRequests
    BY <1>2, BusMoves
  <2>2. \A k \in 1..MaxRequests : k # Len(issued) + 1 => replies'[k] = replies[k]
    BY <1>0, <1>2 DEF BusRequest
  <2>3. pc'["main"] = "insert" => UNCHANGED replies
    <3>1. pc["main"] = "idle"
      BY <1>2, BusMoves
    <3> QED
      BY <1>2, <3>1 DEF BusRequest
  <2>4. ASSUME NEW k \in 1..MaxRequests,
               k > Len(issued) + 1 \/ (k = Len(issued) + 1 /\ pc'["main"] = "insert")
        PROVE  replies'[k] = <<>>
    <3>1. k > Len(issued)
      BY <1>0, <2>4
    <3>2. replies[k] = <<>>
      BY <3>1 DEF Fresh
    <3> QED
      BY <1>0, <2>2, <2>3, <2>4, <3>2
  <2> QED
    BY <2>1, <2>4 DEF Fresh
<1>3. ASSUME NEW t \in Threads, ReplyStep(t)
      PROVE  Fresh'
  <2>1. /\ UNCHANGED issued
        /\ pc["main"] = "insert" => t # "main"
        /\ pc'["main"] = "insert" => pc["main"] = "insert"
    BY <1>3, ReplyMoves, ThreadNames
  <2>2. CASE Responds(t)
    <3>1. /\ ReplyTo(t) = cmd[t].n /\ cmd[t].n \in 1..MaxRequests
          /\ \A k \in 1..MaxRequests : k # cmd[t].n => replies'[k] = replies[k]
      BY <2>2, RespondsToOwner DEF Responds
    <3>2. /\ cmd[t].n <= Len(issued)
          /\ pc["main"] = "insert" => cmd[t].n < Len(issued)
      BY <2>1, <2>2, ThreadNames
         DEF Books, MessagesIssued, Ordered, MainIsYoungest, Responds, Working
    <3> QED
      BY <1>0, <2>1, <3>1, <3>2 DEF Fresh
  <2>3. CASE UNCHANGED replies
    BY <1>1, <2>1, <2>3
  <2> QED
    BY <1>3, <2>2, <2>3, ReplyEffects DEF Passes, Erases
<1>4. CASE ~(\E r \in Requests : BusRequest(r)) /\ ~(\E t \in Threads : ReplyStep(t))
  <2>1. UNCHANGED <<issued, replies>>
    BY <1>4, QuietOrReply, InsertMoves, PushMoves, EnqueueMoves, ConstructMoves,
       TakeMoves, AnsweredMoves, AcceptedMoves, NyxMoves, ForgetMoves, FrontMoves
       DEF StaysUnreplied, busVars
  <2>2. pc'["main"] = "insert" => pc["main"] = "insert"
    BY <1>4, Steps, InsertMoves, PushMoves, EnqueueMoves, ConstructMoves, TakeMoves,
       AnsweredMoves, AcceptedMoves, NyxMoves, ForgetMoves, FrontMoves, ThreadNames
       DEF Quiet, Enters
  <2> QED
    BY <1>1, <2>1, <2>2
<1> QED
  BY <1>2, <1>3, <1>4

LEMMA AtMostOneReplyStep ==
  ASSUME ServiceInv, [Next]_vars, Books, Registered
  PROVE  AtMostOneReply'
<1> USE DEF Registered
<1>0. /\ Len(issued) \in Nat /\ MaxRequests \in Nat
      /\ replies \in [1..MaxRequests -> Seq(ReplyRecord)]
  BY IdTypes, HeldTypes
<1>1. ASSUME NEW x, NEW k \in 1..MaxRequests, replies[k] = <<>>,
             replies'[k] = Append(replies[k], x)
      PROVE  Len(replies'[k]) <= 1
  <2>1. replies'[k] = <<x>>
    BY <1>1
  <2> QED
    BY <2>1
<1>2. CASE \E r \in Requests : BusRequest(r)
  <2>1. Len(issued) < MaxRequests
    BY <1>2, BusMoves
  <2>2. \A k \in 1..MaxRequests : k # Len(issued) + 1 => replies'[k] = replies[k]
    BY <1>0, <1>2 DEF BusRequest
  <2>3. Len(issued) + 1 \in 1..MaxRequests /\ replies[Len(issued) + 1] = <<>>
    BY <1>0, <2>1 DEF Fresh
  <2>4. Len(replies'[Len(issued) + 1]) <= 1
    <3>1. CASE UNCHANGED replies
      BY <2>3, <3>1 DEF AtMostOneReply
    <3>2. CASE \E code \in {0, 1} :
                 replies' = [replies EXCEPT ![Len(issued) + 1] = Append(@, Refused(code))]
      BY <1>0, <1>1, <2>3, <3>2
    <3> QED
      BY <1>2, <3>1, <3>2 DEF BusRequest, ParseErrors
  <2> QED
    BY <2>2, <2>4 DEF AtMostOneReply
<1>3. ASSUME NEW t \in Threads, ReplyStep(t)
      PROVE  AtMostOneReply'
  <2>1. CASE Responds(t)
    <3>1. /\ ReplyTo(t) = cmd[t].n /\ cmd[t].n \in 1..MaxRequests
          /\ \A k \in 1..MaxRequests : k # cmd[t].n => replies'[k] = replies[k]
          /\ replies'[cmd[t].n] = Append(replies[cmd[t].n], ReplyOf(t))
      BY <2>1, RespondsToOwner DEF Responds
    <3>2. replies[cmd[t].n] = <<>>
      BY <2>1 DEF Unreplied, Working, Responds
    <3>3. Len(replies'[cmd[t].n]) <= 1
      BY <1>1, <3>1, <3>2
    <3> QED
      BY <3>1, <3>3 DEF AtMostOneReply
  <2>2. CASE UNCHANGED replies
    BY <2>2 DEF AtMostOneReply
  <2> QED
    BY <1>3, <2>1, <2>2, ReplyEffects DEF Passes, Erases
<1>4. CASE ~(\E r \in Requests : BusRequest(r)) /\ ~(\E t \in Threads : ReplyStep(t))
  <2>1. UNCHANGED replies
    BY <1>4, QuietOrReply, InsertMoves, PushMoves, EnqueueMoves, ConstructMoves,
       TakeMoves, AnsweredMoves, AcceptedMoves, NyxMoves, ForgetMoves, FrontMoves
       DEF StaysUnreplied, busVars
  <2> QED
    BY <2>1 DEF AtMostOneReply
<1> QED
  BY <1>2, <1>3, <1>4

LEMMA InitRegistered == Init => Registered
<1> SUFFICES ASSUME Init PROVE Registered
  OBVIOUS
<1>1. /\ \A k \in 1..MaxRequests : replies[k] = <<>>
      /\ \A id \in Ids : m_clients[id] = 0
      /\ Len(mCmdList) = 0
      /\ \A t \in Threads : pc[t] = "idle"
  BY EmptySeq DEF Init, Ids
<1>2. \A n : \A id \in Ids : ~Tagged(n, id)
  BY <1>1 DEF Tagged, Live, Working
<1>3. \A k \in 1..MaxRequests : Len(replies[k]) <= 1
  <2>1. \A k \in 1..MaxRequests : Len(replies[k]) = 0
    BY <1>1
  <2> QED
    BY <2>1
<1> QED
  BY <1>1, <1>2, <1>3 DEF Registered, OneOwner, IdsKeepUp, Unreplied, Fresh,
     AtMostOneReply, Working

\* While no id is given twice, the client map leads to the request answered,
\* and what waits for an answer has had none, whatever the races lose.
THEOREM RegistryInvariant ==
  IdsSuffice => (SafeSpec => [](ServiceInv /\ Books /\ Ordered /\ Registered))
<1> SUFFICES ASSUME IdsSuffice
             PROVE  SafeSpec => [](ServiceInv /\ Books /\ Ordered /\ Registered)
  OBVIOUS
<1>1. Init => Registered
  BY InitRegistered
<1>2. ServiceInv /\ Books /\ Ordered /\ Registered /\ [Next]_vars => Registered'
  <2> SUFFICES ASSUME ServiceInv, Books, Ordered, Registered, [Next]_vars
               PROVE  Registered'
    OBVIOUS
  <2>1. OneOwner' /\ IdsKeepUp'
    BY OneOwnerStep, IdsKeepUpStep DEF Registered
  <2>2. Unreplied' /\ Fresh' /\ AtMostOneReply'
    BY UnrepliedStep, FreshStep, AtMostOneReplyStep DEF Registered
  <2> QED
    BY <2>1, <2>2 DEF Registered
<1> QED
  BY <1>1, <1>2, OrderInvariant, PTL DEF SafeSpec

\* A client is replied to once at most.
THEOREM RepliesAreSingle == IdsSuffice => (SafeSpec => []AtMostOneReply)
<1>1. ServiceInv /\ Books /\ Ordered /\ Registered => AtMostOneReply
  BY DEF Registered
<1> QED
  BY <1>1, RegistryInvariant, PTL

-----------------------------------------------------------------------------
(* Answers: none is given twice.                                           *)

\* A callback has this answer in hand until it has given it.
Answering(t) == pc[t] \in {"front", "clear", "adapters", "devices", "reply"}

\* Message x has been taken off mQueue, and its answer not been given,
Loose(x) ==
  \/ \E i \in 1..Len(sending) : sending[i].n = x
  \/ \E i \in 1..Len(pending) : pending[i].n = x
  \/ \E t \in CallbackThreads : Answering(t) /\ resp[t].of = x

\* or it has, to request k.
GivenTo(k, x) == \E i \in 1..Len(replies[k]) : replies[k][i].ok /\ replies[k][i].of = x

Taken(x) == Loose(x) \/ \E k \in 1..MaxRequests : GivenTo(k, x)

\* Messages are taken in the order of their numbers.
TakenInOrder ==
  \A x \in Nat : Taken(x) =>
    /\ init = "done"
    /\ x <= Len(issued)
    /\ pc["main"] # "idle" => x < Len(issued)
    /\ \A i \in 1..Len(mQueue) : x < mQueue[i].n

LooseApart ==
  /\ \A i, j \in 1..Len(pending) : pending[i].n = pending[j].n => i = j
  /\ \A i \in 1..Len(sending), j \in 1..Len(pending) : sending[i].n # pending[j].n
  /\ \A t \in CallbackThreads : Answering(t) =>
       /\ \A i \in 1..Len(sending) : sending[i].n # resp[t].of
       /\ \A i \in 1..Len(pending) : pending[i].n # resp[t].of
  /\ Answering("worker") /\ Answering("nyx") => resp["worker"].of # resp["nyx"].of

GivenOnce ==
  /\ \A x \in Nat, k \in 1..MaxRequests : GivenTo(k, x) => ~Loose(x)
  /\ \A x \in Nat, k, l \in 1..MaxRequests : GivenTo(k, x) /\ GivenTo(l, x) => k = l

Traced == TakenInOrder /\ LooseApart /\ GivenOnce

\* Only the dispatch thread takes messages off the queue.
LEMMA LooseBefore ==
  ASSUME ServiceInv, [Next]_vars, NEW x, Loose(x)'
  PROVE  Loose(x) \/ (WorkerTake /\ x = mQueue[1].n)
<1>0. Len(pending) \in Nat
  BY HeldTypes
<1>1. ASSUME UNCHANGED <<sending, pending>>,
             \A t \in CallbackThreads :
               Answering(t)' => Answering(t) /\ resp'[t].of = resp[t].of
      PROVE  Loose(x)
  BY <1>1 DEF Loose
<1>2. CASE (\E r \in Requests : BusRequest(r)) \/ InsertClient
  BY <1>1, <1>2, BusMoves, InsertMoves DEF queueVars, frameVars, Answering
<1>3. CASE PushCommand \/ EnqueueMessage \/ ConstructPush \/ ConstructEnqueue
  BY <1>1, <1>3, PushMoves, EnqueueMoves, ConstructMoves
     DEF queueVars, frameVars, Answering
<1>4. CASE WorkerTake
  <2>1. /\ Len(sending') = 1 /\ sending'[1] = mQueue[1] /\ UNCHANGED <<pending, pc, resp>>
    BY <1>4, TakeMoves DEF frameVars
  <2> QED
    BY <1>4, <2>1 DEF Loose, Answering
<1>5. CASE WorkerAnswered
  <2>1. /\ Len(sending) = 1 /\ Len(sending') = 0 /\ UNCHANGED pending
        /\ resp'["worker"].of = sending[1].n
        /\ pc'["nyx"] = pc["nyx"] /\ resp'["nyx"] = resp["nyx"]
    BY <1>5, AnsweredMoves, ThreadNames DEF Enters
  <2>2. 1 \in 1..Len(sending) /\ \A i : i \notin 1..Len(sending')
    BY <2>1
  <2> QED
    BY <2>1, <2>2, ThreadNames DEF Loose, Answering
<1>6. CASE WorkerAccepted
  <2>1. /\ Len(sending) = 1 /\ Len(sending') = 0 /\ UNCHANGED <<pc, resp>>
        /\ Len(pending') = Len(pending) + 1
        /\ \A i \in 1..Len(pending) : pending'[i] = pending[i]
        /\ pending'[Len(pending) + 1] = sending[1]
    BY <1>6, AcceptedMoves DEF frameVars
  <2>2. /\ 1 \in 1..Len(sending) /\ \A i : i \notin 1..Len(sending')
        /\ \A i \in 1..Len(pending') : i \in 1..Len(pending) \/ i = Len(pending) + 1
    BY <1>0, <2>1
  <2> QED
    BY <2>1, <2>2 DEF Loose, Answering
<1>7. CASE NyxCallback
  <2>1. PICK i \in 1..Len(pending) : Drops(i) /\ Enters("nyx", pending[i].n)
    BY <1>7, NyxMoves
  <2>2. UNCHANGED sending /\ pc'["worker"] = pc["worker"] /\ resp'["worker"] = resp["worker"]
    BY <1>7, <2>1, NyxMoves, ThreadNames DEF Enters
  <2>3. \A j \in 1..Len(pending') : \E k \in 1..Len(pending) : pending'[j] = pending[k]
    BY <1>0, <2>1, DropsKeeps
  <2> QED
    BY <2>1, <2>2, <2>3, ThreadNames, SMTT(30) DEF Loose, Answering, Enters
<1>8. CASE NyxForgets
  <2>1. PICK i \in 1..Len(pending) : Drops(i)
    BY <1>8, ForgetMoves
  <2>2. UNCHANGED <<sending, pc, resp>>
    BY <1>8, ForgetMoves DEF frameVars
  <2>3. \A j \in 1..Len(pending') : \E k \in 1..Len(pending) : pending'[j] = pending[k]
    BY <1>0, <2>1, DropsKeeps
  <2> QED
    BY <2>2, <2>3 DEF Loose, Answering
<1>9. CASE \E t \in CallbackThreads : TakeFront(t)
  <2>1. PICK t \in CallbackThreads : TakeFront(t)
    BY <1>9
  <2>2. /\ pc[t] = "front" /\ UNCHANGED <<sending, pending, resp>>
        /\ \A u \in CallbackThreads \ {t} : pc'[u] = pc[u]
    BY <2>1, FrontMoves, ThreadNames DEF queueVars, frameVars
  <2> QED
    BY <1>1, <2>2 DEF Answering
<1>10. CASE Quiet
  <2>1. /\ UNCHANGED <<sending, pending>>
        /\ \A t \in CallbackThreads :
             /\ resp'[t].of = resp[t].of
             /\ Answering(t)' => Answering(t)
    BY <1>10 DEF Quiet, queueVars, Answering
  <2> QED
    BY <1>1, <2>1
<1> QED
  BY <1>2, <1>3, <1>4, <1>5, <1>6, <1>7, <1>8, <1>9, <1>10, Steps

\* Only a callback thread that responds gives an answer.
LEMMA GivenBefore ==
  ASSUME ServiceInv, [Next]_vars, NEW x, NEW k \in 1..MaxRequests, GivenTo(k, x)'
  PROVE  \/ GivenTo(k, x)
         \/ \E t \in CallbackThreads :
              ReplyStep(t) /\ Responds(t) /\ k = ReplyTo(t) /\ x = resp[t].of
<1>0. replies \in [1..MaxRequests -> Seq(ReplyRecord)] /\ replies[k] \in Seq(ReplyRecord)
  BY IdTypes
<1>1. ASSUME UNCHANGED replies PROVE GivenTo(k, x)
  BY <1>1 DEF GivenTo
<1>2. ASSUME NEW e \in ReplyRecord, replies'[k] = Append(replies[k], e)
      PROVE  GivenTo(k, x) \/ (e.ok /\ e.of = x)
  <2>1. /\ Len(replies'[k]) = Len(replies[k]) + 1 /\ Len(replies[k]) \in Nat
        /\ \A i \in 1..Len(replies[k]) : replies'[k][i] = replies[k][i]
        /\ replies'[k][Len(replies[k]) + 1] = e
    BY <1>0, <1>2, AppendFacts, LenProperties
  <2>2. \A i \in 1..Len(replies'[k]) : i \in 1..Len(replies[k]) \/ i = Len(replies[k]) + 1
    BY <2>1
  <2> QED
    BY <2>1, <2>2 DEF GivenTo
<1>3. \A code \in 0..12 : Refused(code) \in ReplyRecord /\ ~Refused(code).ok
  BY HeldTypes DEF Refused, ReplyRecord
<1>4. CASE \E r \in Requests : BusRequest(r)
  <2>1. CASE \E code \in {0, 1} :
               replies' = [replies EXCEPT ![Len(issued) + 1] = Append(@, Refused(code))]
    <3>1. PICK code \in {0, 1} :
            replies' = [replies EXCEPT ![Len(issued) + 1] = Append(@, Refused(code))]
      BY <2>1
    <3>2. replies'[k] = replies[k] \/ replies'[k] = Append(replies[k], Refused(code))
      BY <1>0, <3>1
    <3> QED
      <4>1. CASE replies'[k] = replies[k]
        BY <4>1 DEF GivenTo
      <4>2. CASE replies'[k] = Append(replies[k], Refused(code))
        <5>1. Refused(code) \in ReplyRecord /\ ~Refused(code).ok
          BY <1>3
        <5> QED
          BY <1>2, <4>2, <5>1, Zenon
      <4> QED
        BY <3>2, <4>1, <4>2
  <2> QED
    BY <1>1, <1>4, <2>1 DEF BusRequest, ParseErrors
<1>5. ASSUME NEW t \in Threads, ReplyStep(t)
      PROVE  \/ GivenTo(k, x)
             \/ \E u \in CallbackThreads :
                  ReplyStep(u) /\ Responds(u) /\ k = ReplyTo(u) /\ x = resp[u].of
  <2>1. CASE Responds(t) /\ k = ReplyTo(t)
    <3>1. replies'[k] = Append(replies[k], ReplyOf(t))
      BY <2>1 DEF Responds
    <3>2. CASE t = "main"
      <4>1. ReplyOf(t) = Refused(refusal) /\ refusal \in 0..12
        BY <3>2, InvariantParts DEF ReplyOf, Parts, ThreadType
      <4> QED
        BY <1>2, <1>3, <3>1, <4>1
    <3>3. CASE t \in CallbackThreads
      <4>1. ReplyOf(t) \in ReplyRecord /\ ReplyOf(t).of = resp[t].of
        BY <3>3, HeldTypes, ThreadNames DEF ReplyOf, ReplyRecord, ResponseRecord
      <4> QED
        BY <1>2, <1>5, <2>1, <3>1, <3>3, <4>1
    <3> QED
      BY <3>2, <3>3, ThreadNames
  <2>2. CASE Responds(t) /\ k # ReplyTo(t)
    BY <2>2 DEF Responds, GivenTo
  <2> QED
    BY <1>1, <1>5, <2>1, <2>2, ReplyEffects DEF Passes, Erases
<1>6. CASE ~(\E r \in Requests : BusRequest(r)) /\ ~(\E t \in Threads : ReplyStep(t))
  <2>1. UNCHANGED replies
    BY <1>6, QuietOrReply, InsertMoves, PushMoves, EnqueueMoves, ConstructMoves,
       TakeMoves, AnsweredMoves, AcceptedMoves, NyxMoves, ForgetMoves, FrontMoves
       DEF StaysUnreplied, busVars
  <2> QED
    BY <1>1, <2>1
<1> QED
  BY <1>4, <1>5, <1>6

LEMMA TakenBefore ==
  ASSUME ServiceInv, [Next]_vars, NEW x, Taken(x)'
  PROVE  Taken(x) \/ (WorkerTake /\ x = mQueue[1].n)
<1>1. CASE Loose(x)'
  BY <1>1, LooseBefore DEF Taken
<1>2. CASE \E k \in 1..MaxRequests : GivenTo(k, x)'
  <2>1. ASSUME NEW t \in CallbackThreads, Responds(t), x = resp[t].of
        PROVE  Loose(x)
    BY <2>1 DEF Loose, Responds, Answering
  <2> QED
    BY <1>2, <2>1, GivenBefore DEF Taken
<1> QED
  BY <1>1, <1>2 DEF Taken

\* The message at the front of the queue is of the oldest command not sent.
LEMMA QueueAscends ==
  ASSUME ServiceInv, Books, Ordered, Aligned, Len(mQueue) >= 1
  PROVE  /\ \A i \in 1..(Len(mQueue) - 1) : mQueue[1].n < mQueue[i + 1].n
         /\ mQueue[1].n <= Len(issued)
         /\ pc["main"] # "idle" => mQueue[1].n < Len(issued)
<1>0. /\ Len(mCmdList) \in Nat /\ Len(mQueue) \in Nat /\ Sent \in Nat /\ Coming \in {0, 1}
      /\ Len(mCmdList) = Sent + Len(mQueue) + Coming
  BY Counts
<1>1. ASSUME NEW i \in 1..Len(mQueue)
      PROVE  Sent + i \in 1..Len(mCmdList) /\ mQueue[i].n = mCmdList[Sent + i].n
  <2>1. Sent + i \in 1..Len(mCmdList)
    BY <1>0
  <2>2. mQueue[i] = MessageOf(mCmdList[Sent + i])
    BY DEF Aligned, QueueAligned
  <2> QED
    BY <2>1, <2>2 DEF MessageOf
<1>2. 1 \in 1..Len(mQueue)
  BY <1>0
<1>3. ASSUME NEW i \in 1..(Len(mQueue) - 1) PROVE mQueue[1].n < mQueue[i + 1].n
  <2>1. i + 1 \in 1..Len(mQueue) /\ Sent + 1 < Sent + (i + 1)
    BY <1>0
  <2> QED
    BY <1>1, <1>2, <2>1 DEF Ordered, ListAscends
<1>4. mQueue[1].n <= Len(issued)
  BY <1>1, <1>2 DEF Books, CommandsIssued
<1>5. CASE pc["main"] = "enqueue"
  <2>1. Coming = 1 /\ Len(mCmdList) \in 1..Len(mCmdList) /\ Sent + 1 < Len(mCmdList)
    BY <1>0, <1>5 DEF Coming
  <2>2. mCmdList[Len(mCmdList)].n = Len(issued)
    BY <1>5 DEF Aligned, QueueAligned, Books, MainWorks
  <2>3. mQueue[1].n < Len(issued)
    BY <1>1, <1>2, <2>1, <2>2 DEF Ordered, ListAscends
  <2> QED
    BY <1>3, <1>4, <2>3
<1>6. CASE pc["main"] # "enqueue" /\ pc["main"] # "idle"
  <2>1. pc["main"] \in {"insert", "adapter", "address", "push", "reply", "erase"}
    BY <1>6, HeldTypes DEF MainPcs
  <2>2. mQueue[1].n < Len(issued)
    BY <1>1, <1>2, <2>1 DEF Ordered, MainIsYoungest
  <2> QED
    BY <1>3, <1>4, <2>2
<1> QED
  BY <1>3, <1>4, <1>5, <1>6

LEMMA TakenInOrderStep ==
  ASSUME ServiceInv, [Next]_vars, Books, Ordered, Aligned, TakenInOrder
  PROVE  TakenInOrder'
<1> SUFFICES ASSUME NEW x \in Nat, Taken(x)'
             PROVE  /\ init' = "done" /\ x <= Len(issued')
                    /\ pc'["main"] # "idle" => x < Len(issued')
                    /\ \A i \in 1..Len(mQueue') : x < mQueue'[i].n
  BY DEF TakenInOrder
<1>0. Len(issued) \in Nat /\ Len(mQueue) \in Nat
  BY HeldTypes
<1>1. CASE WorkerTake
  <2>1. /\ UNCHANGED <<init, issued, pc>> /\ Len(mQueue) >= 1
        /\ Len(mQueue') = Len(mQueue) - 1
        /\ \A i \in 1..(Len(mQueue) - 1) : mQueue'[i] = mQueue[i + 1]
    BY <1>1, TakeMoves DEF busVars
  <2>2. ASSUME NEW i \in 1..Len(mQueue')
        PROVE  i \in 1..(Len(mQueue) - 1) /\ i + 1 \in 1..Len(mQueue)
    BY <1>0, <2>1
  <2>3. CASE x = mQueue[1].n
    <3>1. init = "done"
      BY <2>1 DEF Books, Starting
    <3> QED
      BY <2>1, <2>2, <2>3, <3>1, QueueAscends
  <2>4. CASE Taken(x)
    BY <2>1, <2>2, <2>4 DEF TakenInOrder
  <2> QED
    BY <2>3, <2>4, TakenBefore
<1>2. CASE ~WorkerTake
  <2>1. /\ Taken(x) /\ init = "done" /\ x <= Len(issued)
        /\ pc["main"] # "idle" => x < Len(issued)
        /\ \A i \in 1..Len(mQueue) : x < mQueue[i].n
    BY <1>2, TakenBefore DEF TakenInOrder
  <2>2. ASSUME UNCHANGED <<init, issued, mQueue>>, pc'["main"] # "idle" => pc["main"] # "idle"
        PROVE  /\ init' = "done" /\ x <= Len(issued')
               /\ pc'["main"] # "idle" => x < Len(issued')
               /\ \A i \in 1..Len(mQueue') : x < mQueue'[i].n
    BY <2>1, <2>2
  <2>3. CASE \E r \in Requests : BusRequest(r)
    BY <1>0, <2>1, <2>3, BusMoves DEF queueVars
  <2>4. CASE InsertClient \/ PushCommand
    BY <2>2, <2>4, InsertMoves, PushMoves DEF busVars, queueVars
  <2>5. CASE EnqueueMessage
    <3>1. /\ UNCHANGED <<init, issued>> /\ pc["main"] = "enqueue" /\ pc'["main"] = "idle"
          /\ Len(mQueue') = Len(mQueue) + 1
          /\ \A i \in 1..Len(mQueue) : mQueue'[i] = mQueue[i]
          /\ mQueue'[Len(mQueue) + 1].n = cmd["main"].n
      BY <2>5, EnqueueMoves DEF busVars, MessageOf
    <3>2. x < cmd["main"].n
      BY <2>1, <3>1 DEF Books, MainWorks
    <3>3. \A i \in 1..Len(mQueue') : i \in 1..Len(mQueue) \/ i = Len(mQueue) + 1
      BY <1>0, <3>1
    <3> QED
      BY <2>1, <3>1, <3>2, <3>3
  <2>6. CASE ConstructPush \/ ConstructEnqueue
    BY <2>1, <2>6 DEF ConstructPush, ConstructEnqueue
  <2>7. CASE WorkerAnswered \/ WorkerAccepted \/ NyxCallback \/ NyxForgets
    BY <2>2, <2>7, AnsweredMoves, AcceptedMoves, NyxMoves, ForgetMoves, ThreadNames
       DEF busVars, Enters
  <2>8. CASE \E t \in CallbackThreads : TakeFront(t)
    BY <2>2, <2>8, FrontMoves, ThreadNames DEF busVars, queueVars
  <2>9. CASE Quiet
    BY <2>2, <2>9 DEF Quiet, queueVars
  <2> QED
    BY <1>2, <2>3, <2>4, <2>5, <2>6, <2>7, <2>8, <2>9, Steps
<1> QED
  BY <1>1, <1>2

LEMMA LooseApartStep ==
  ASSUME ServiceInv, [Next]_vars, Books, Aligned, TakenInOrder, LooseApart
  PROVE  LooseApart'
<1>0. /\ Len(pending) \in Nat /\ Len(sending) \in Nat
      /\ \A i \in 1..Len(mQueue) : mQueue[i].n \in Nat
      /\ \A i \in 1..Len(pending) : pending[i].n \in Nat
      /\ \A t \in CallbackThreads : resp[t].of \in Nat
  BY HeldTypes
<1>1. ASSUME UNCHANGED <<sending, pending>>,
             \A t \in CallbackThreads :
               Answering(t)' => Answering(t) /\ resp'[t].of = resp[t].of
      PROVE  LooseApart'
  BY <1>1, ThreadNames DEF LooseApart
<1>2. CASE (\E r \in Requests : BusRequest(r)) \/ InsertClient
  BY <1>1, <1>2, BusMoves, InsertMoves DEF queueVars, frameVars, Answering
<1>3. CASE PushCommand \/ EnqueueMessage \/ ConstructPush \/ ConstructEnqueue
  BY <1>1, <1>3, PushMoves, EnqueueMoves, ConstructMoves
     DEF queueVars, frameVars, Answering
<1>4. CASE WorkerTake
  <2>1. /\ Len(sending') = 1 /\ sending'[1] = mQueue[1] /\ UNCHANGED <<pending, pc, resp>>
        /\ 1 \in 1..Len(mQueue)
    BY <1>4, HeldTypes, TakeMoves DEF frameVars
  <2>2. mQueue[1].n \in Nat /\ ~Loose(mQueue[1].n)
    BY <1>0, <2>1 DEF TakenInOrder, Taken
  <2>3. \A i \in 1..Len(pending) : pending[i].n # mQueue[1].n
    BY <2>2 DEF Loose
  <2>4. \A t \in CallbackThreads : Answering(t) => resp[t].of # mQueue[1].n
    BY <2>2 DEF Loose
  <2>5. \A i \in 1..Len(sending') : i = 1
    BY <2>1
  <2>6. \A t \in CallbackThreads : Answering(t)' <=> Answering(t)
    BY <2>1 DEF Answering
  <2> QED
    BY <2>1, <2>3, <2>4, <2>5, <2>6, ThreadNames DEF LooseApart
<1>5. CASE WorkerAnswered
  <2>1. /\ Len(sending) = 1 /\ Len(sending') = 0 /\ UNCHANGED pending
        /\ resp'["worker"].of = sending[1].n
        /\ pc'["nyx"] = pc["nyx"] /\ resp'["nyx"] = resp["nyx"]
    BY <1>5, AnsweredMoves, ThreadNames DEF Enters
  <2>2. 1 \in 1..Len(sending) /\ \A i : i \notin 1..Len(sending')
    BY <2>1
  <2>3. Answering("nyx")' <=> Answering("nyx")
    BY <2>1 DEF Answering
  <2> QED
    BY <2>1, <2>2, <2>3, ThreadNames DEF LooseApart
<1>6. CASE WorkerAccepted
  <2>1. /\ Len(sending) = 1 /\ Len(sending') = 0 /\ UNCHANGED <<pc, resp>>
        /\ Len(pending') = Len(pending) + 1
        /\ \A i \in 1..Len(pending) : pending'[i] = pending[i]
        /\ pending'[Len(pending) + 1] = sending[1]
    BY <1>6, AcceptedMoves DEF frameVars
  <2>2. /\ 1 \in 1..Len(sending) /\ \A i : i \notin 1..Len(sending')
        /\ \A i \in 1..Len(pending') : i \in 1..Len(pending) \/ i = Len(pending) + 1
    BY <1>0, <2>1
  <2>3. \A t \in CallbackThreads : Answering(t)' <=> Answering(t)
    BY <2>1 DEF Answering
  <2> QED
    BY <2>1, <2>2, <2>3, ThreadNames DEF LooseApart
<1>7. CASE NyxCallback \/ NyxForgets
  <2>1. PICK i \in 1..Len(pending) :
          /\ Drops(i)
          /\ Enters("nyx", pending[i].n) \/ UNCHANGED <<pc, resp>>
    BY <1>7, NyxMoves, ForgetMoves DEF frameVars
  <2>2. UNCHANGED sending
    BY <1>7, NyxMoves, ForgetMoves
  <2>3. ASSUME NEW j \in 1..Len(pending')
        PROVE  /\ pending'[j].n # pending[i].n
               /\ \A k \in 1..Len(sending) : sending[k].n # pending'[j].n
               /\ \A t \in CallbackThreads : Answering(t) => pending'[j].n # resp[t].of
    <3>1. PICK m \in 1..Len(pending) : m # i /\ pending'[j] = pending[m]
      BY <1>0, <2>1, DropsKeeps
    <3>2. /\ pending[m].n # pending[i].n
          /\ \A k \in 1..Len(sending) : sending[k].n # pending[m].n
      BY <3>1 DEF LooseApart
    <3>3. \A t \in CallbackThreads : Answering(t) => pending[m].n # resp[t].of
      BY DEF LooseApart
    <3> QED
      BY <3>1, <3>2, <3>3
  <2>4. ASSUME NEW j \in 1..Len(pending'), NEW k \in 1..Len(pending'),
               pending'[j].n = pending'[k].n
        PROVE  j = k
    <3>1. \A m \in 1..Len(pending') :
            /\ (IF m < i THEN m ELSE m + 1) \in 1..Len(pending)
            /\ pending'[m] = pending[IF m < i THEN m ELSE m + 1]
      BY <1>0, <2>1, DropsKeeps, SMTT(30)
    <3>2. pending[IF j < i THEN j ELSE j + 1].n = pending[IF k < i THEN k ELSE k + 1].n
      BY <2>4, <3>1
    <3>3. (IF j < i THEN j ELSE j + 1) = (IF k < i THEN k ELSE k + 1)
      BY <2>4, <3>1, <3>2 DEF LooseApart
    <3> QED
      BY <1>0, <3>3
  <2>5. CASE UNCHANGED <<pc, resp>>
    BY <2>2, <2>3, <2>4, <2>5, ThreadNames DEF LooseApart, Answering
  <2>6. CASE Enters("nyx", pending[i].n)
    <3>1. /\ resp'["nyx"].of = pending[i].n
          /\ resp'["worker"] = resp["worker"] /\ pc'["worker"] = pc["worker"]
      BY <2>6, ThreadNames DEF Enters
    <3>2. Answering("worker")' <=> Answering("worker")
      BY <3>1 DEF Answering
    <3>3. /\ \A k \in 1..Len(sending) : sending[k].n # pending[i].n
          /\ Answering("worker") => resp["worker"].of # pending[i].n
      BY ThreadNames DEF LooseApart
    <3> QED
      BY <2>2, <2>3, <2>4, <3>1, <3>2, <3>3, ThreadNames DEF LooseApart
  <2> QED
    BY <2>1, <2>5, <2>6
<1>8. CASE \E t \in CallbackThreads : TakeFront(t)
  <2>1. PICK t \in CallbackThreads : TakeFront(t)
    BY <1>8
  <2>2. /\ pc[t] = "front" /\ UNCHANGED <<sending, pending, resp>>
        /\ \A u \in CallbackThreads \ {t} : pc'[u] = pc[u]
    BY <2>1, FrontMoves, ThreadNames DEF queueVars, frameVars
  <2> QED
    BY <1>1, <2>2 DEF Answering
<1>9. CASE Quiet
  <2>1. /\ UNCHANGED <<sending, pending>>
        /\ \A t \in CallbackThreads :
             /\ resp'[t].of = resp[t].of
             /\ Answering(t)' => Answering(t)
    BY <1>9 DEF Quiet, queueVars, Answering
  <2> QED
    BY <1>1, <2>1
<1> QED
  BY <1>2, <1>3, <1>4, <1>5, <1>6, <1>7, <1>8, <1>9, Steps

\* An answer that is being given is nowhere else, before or after.
LEMMA GivenOnceStep ==
  ASSUME ServiceInv, [Next]_vars, Books, Aligned, Traced
  PROVE  GivenOnce'
<1> USE DEF Traced
<1>0. \A t \in CallbackThreads : resp[t].of \in Nat
  BY HeldTypes
<1>1. ASSUME NEW t \in CallbackThreads, ReplyStep(t), Responds(t)
      PROVE  Loose(resp[t].of) /\ ~Loose(resp[t].of)' /\ ~WorkerTake
  <2>1. /\ UNCHANGED <<sending, pending, resp>> /\ pc[t] = "reply" /\ pc'[t] = "erase"
        /\ \A u \in Threads \ {t} : pc'[u] = pc[u]
    BY <1>1, ReplyMoves, ThreadNames DEF queueVars, frameVars, Responds
  <2>2. Answering(t) /\ ~Answering(t)'
    BY <2>1 DEF Answering
  <2>3. \A u \in CallbackThreads \ {t} :
          (Answering(u)' <=> Answering(u)) /\ (Answering(u) => resp[u].of # resp[t].of)
    BY <2>1, <2>2, ThreadNames DEF Answering, LooseApart
  <2>4. /\ \A i \in 1..Len(sending) : sending[i].n # resp[t].of
        /\ \A i \in 1..Len(pending) : pending[i].n # resp[t].of
    BY <2>2 DEF LooseApart
  <2>5. ~WorkerTake
    <3>1. UNCHANGED pc => FALSE
      BY <2>1
    <3> QED
      BY <3>1, TakeMoves
  <2> QED
    BY <2>1, <2>2, <2>3, <2>4, <2>5 DEF Loose
<1>2. ASSUME NEW x \in Nat, NEW k \in 1..MaxRequests, GivenTo(k, x)', Loose(x)'
      PROVE  FALSE
  <2>1. CASE GivenTo(k, x)
    <3>1. ~Loose(x) /\ Taken(x)
      BY <2>1 DEF GivenOnce, Taken
    <3>2. WorkerTake /\ x = mQueue[1].n
      BY <1>2, <3>1, LooseBefore
    <3>3. 1 \in 1..Len(mQueue)
      BY <3>2, HeldTypes, TakeMoves
    <3> QED
      BY <3>1, <3>2, <3>3 DEF TakenInOrder
  <2>2. CASE ~GivenTo(k, x)
    <3>1. PICK t \in CallbackThreads : ReplyStep(t) /\ Responds(t) /\ x = resp[t].of
      BY <1>2, <2>2, GivenBefore
    <3>2. ~Loose(resp[t].of)'
      BY <1>1, <3>1
    <3>3. resp'[t].of = resp[t].of
      BY <3>1, ReplyMoves, ThreadNames DEF frameVars
    <3> QED
      BY <1>2, <3>1, <3>2, <3>3
  <2> QED
    BY <2>1, <2>2
<1>3. ASSUME NEW x \in Nat, NEW k \in 1..MaxRequests, NEW l \in 1..MaxRequests,
             GivenTo(k, x)', GivenTo(l, x)'
      PROVE  k = l
  <2>1. CASE GivenTo(k, x) /\ GivenTo(l, x)
    BY <2>1 DEF GivenOnce
  <2>2. CASE ~GivenTo(k, x) /\ GivenTo(l, x)
    BY <1>1, <1>3, <2>2, GivenBefore DEF GivenOnce
  <2>3. CASE GivenTo(k, x) /\ ~GivenTo(l, x)
    BY <1>1, <1>3, <2>3, GivenBefore DEF GivenOnce
  <2>4. CASE ~GivenTo(k, x) /\ ~GivenTo(l, x)
    <3>1. PICK t \in CallbackThreads :
            ReplyStep(t) /\ Responds(t) /\ k = ReplyTo(t) /\ x = resp[t].of
      BY <1>3, <2>4, GivenBefore
    <3>2. PICK u \in CallbackThreads :
            ReplyStep(u) /\ Responds(u) /\ l = ReplyTo(u) /\ x = resp[u].of
      BY <1>3, <2>4, GivenBefore
    <3>3. t = u
      BY <3>1, <3>2, ThreadNames DEF Responds, Answering, LooseApart
    <3> QED
      BY <3>1, <3>2, <3>3
  <2> QED
    BY <2>1, <2>2, <2>3, <2>4
<1> QED
  BY <1>2, <1>3 DEF GivenOnce

LEMMA InitTraced == Init => Traced
<1> SUFFICES ASSUME Init PROVE Traced
  OBVIOUS
<1>1. /\ Len(sending) = 0 /\ Len(pending) = 0 /\ \A t \in Threads : pc[t] = "idle"
      /\ \A k \in 1..MaxRequests : Len(replies[k]) = 0
  BY EmptySeq DEF Init
<1>2. \A i : i \notin 1..0
  OBVIOUS
<1>3. \A t \in CallbackThreads : ~Answering(t)
  BY <1>1, ThreadNames DEF Answering
<1>4. \A x : ~Loose(x) /\ \A k \in 1..MaxRequests : ~GivenTo(k, x)
  BY <1>1, <1>2, <1>3 DEF Loose, GivenTo
<1> QED
  BY <1>1, <1>2, <1>3, <1>4, ThreadNames
     DEF Traced, TakenInOrder, LooseApart, GivenOnce, Taken

\* Messages are taken in order and each of their answers is in one place.
THEOREM TraceInvariant == SafeSpec => [](ServiceInv /\ Traced)
<1>1. Init => Traced
  BY InitTraced
<1>2. ServiceInv /\ Books /\ Ordered /\ Aligned /\ Traced /\ [Next]_vars => Traced'
  BY TakenInOrderStep, LooseApartStep, GivenOnceStep DEF Traced
<1> QED
  BY <1>1, <1>2, OrderInvariant, AlignmentInvariant, PTL DEF SafeSpec

\* No answer of nyx is given to two clients, whatever is late, lost or raced.
THEOREM AnswersAreSingle == SafeSpec => []OneClientPerAnswer
<1>1. ServiceInv /\ Traced => OneClientPerAnswer
  <2> SUFFICES ASSUME ServiceInv, Traced,
                      NEW k \in 1..MaxRequests, NEW l \in 1..MaxRequests,
                      NEW i \in DOMAIN replies[k], NEW j \in DOMAIN replies[l],
                      replies[k][i].ok, replies[l][j].ok,
                      replies[k][i].of = replies[l][j].of
               PROVE  k = l
    BY DEF OneClientPerAnswer
  <2>1. /\ replies[k] \in Seq(ReplyRecord) /\ replies[l] \in Seq(ReplyRecord)
    BY IdTypes
  <2>2. i \in 1..Len(replies[k]) /\ j \in 1..Len(replies[l])
    BY <2>1, LenProperties
  <2>3. replies[k][i].of \in Nat
    <3>1. replies[k][i] \in ReplyRecord
      BY <2>1, <2>2, ElementOfSeq
    <3> QED
      BY <3>1, HeldTypes DEF ReplyRecord
  <2>4. GivenTo(k, replies[k][i].of) /\ GivenTo(l, replies[k][i].of)
    BY <2>2 DEF GivenTo
  <2> QED
    BY <2>3, <2>4 DEF Traced, GivenOnce
<1> QED
  BY <1>1, TraceInvariant, PTL

-----------------------------------------------------------------------------
(* Clients that send one at a time.                                        *)

\* A message no command has been taken for is the constructor's or the last request's, whose command is
\* then still in the list,
LatestOnly ==
  \A x \in Nat : Untaken(x) =>
    x = 0 \/ (x = Len(issued) /\ \E i \in 1..Len(mCmdList) : mCmdList[i].n = x)

\* so that no command is taken for an earlier answer.
HandsForward ==
  \A t \in CallbackThreads :
    pc[t] \in {"clear", "adapters", "devices", "reply"} =>
      resp[t].of \notin 1..(cmd[t].n - 1)

GivenForward ==
  \A x \in Nat, k \in 1..MaxRequests : GivenTo(k, x) => x \notin 1..(k - 1)

OneByOne == LatestOnly /\ HandsForward /\ GivenForward

LEMMA UntakenBefore ==
  ASSUME ServiceInv, [Next]_vars, NEW x, Untaken(x)'
  PROVE  \/ Untaken(x)
         \/ EnqueueMessage /\ x = cmd["main"].n
         \/ ConstructEnqueue /\ x = 0
<1>0. Len(pending) \in Nat /\ Len(mQueue) \in Nat
  BY HeldTypes
<1>1. ASSUME UNCHANGED <<mQueue, sending, pending>>,
             \A t \in CallbackThreads :
               pc'[t] = "front" => pc[t] = "front" /\ resp'[t].of = resp[t].of
      PROVE  Untaken(x)
  BY <1>1 DEF Untaken
<1>2. CASE (\E r \in Requests : BusRequest(r)) \/ InsertClient
  BY <1>1, <1>2, BusMoves, InsertMoves DEF queueVars, frameVars
<1>3. CASE PushCommand \/ ConstructPush
  BY <1>1, <1>3, PushMoves, ConstructMoves DEF queueVars, frameVars
<1>4. CASE EnqueueMessage \/ ConstructEnqueue
  <2>1. /\ UNCHANGED <<sending, pending, resp>>
        /\ \A t \in CallbackThreads : pc'[t] = pc[t]
        /\ Len(mQueue') = Len(mQueue) + 1
        /\ \A i \in 1..Len(mQueue) : mQueue'[i] = mQueue[i]
    BY <1>4, EnqueueMoves, ConstructMoves DEF frameVars
  <2>2. /\ EnqueueMessage => mQueue'[Len(mQueue) + 1].n = cmd["main"].n
        /\ ConstructEnqueue => mQueue'[Len(mQueue) + 1].n = 0
    BY EnqueueMoves, ConstructMoves DEF MessageOf, ConstructorCmd
  <2>3. \A i \in 1..Len(mQueue') : i \in 1..Len(mQueue) \/ i = Len(mQueue) + 1
    BY <1>0, <2>1
  <2> QED
    BY <1>4, <2>1, <2>2, <2>3 DEF Untaken
<1>5. CASE WorkerTake
  <2>1. /\ Len(sending') = 1 /\ sending'[1] = mQueue[1] /\ UNCHANGED <<pending, pc, resp>>
        /\ Len(mQueue) >= 1 /\ Len(mQueue') = Len(mQueue) - 1
        /\ \A i \in 1..(Len(mQueue) - 1) : mQueue'[i] = mQueue[i + 1]
    BY <1>5, TakeMoves DEF frameVars
  <2>2. 1 \in 1..Len(mQueue) /\ \A i \in 1..Len(sending') : i = 1
    BY <1>0, <2>1
  <2>3. ASSUME NEW i \in 1..Len(mQueue')
        PROVE  i + 1 \in 1..Len(mQueue) /\ mQueue'[i] = mQueue[i + 1]
    <3>1. i \in 1..(Len(mQueue) - 1)
      BY <2>1
    <3> QED
      BY <1>0, <2>1, <3>1
  <2> QED
    BY <2>1, <2>2, <2>3 DEF Untaken
<1>6. CASE WorkerAnswered
  <2>1. /\ Len(sending) = 1 /\ Len(sending') = 0 /\ UNCHANGED <<pending, mQueue>>
        /\ resp'["worker"].of = sending[1].n
        /\ pc'["nyx"] = pc["nyx"] /\ resp'["nyx"] = resp["nyx"]
    BY <1>6, AnsweredMoves, ThreadNames DEF Enters
  <2>2. 1 \in 1..Len(sending) /\ \A i : i \notin 1..Len(sending')
    BY <2>1
  <2> QED
    BY <2>1, <2>2, ThreadNames DEF Untaken
<1>7. CASE WorkerAccepted
  <2>1. /\ Len(sending) = 1 /\ Len(sending') = 0 /\ UNCHANGED <<pc, resp, mQueue>>
        /\ Len(pending') = Len(pending) + 1
        /\ \A i \in 1..Len(pending) : pending'[i] = pending[i]
        /\ pending'[Len(pending) + 1] = sending[1]
    BY <1>7, AcceptedMoves DEF frameVars
  <2>2. /\ 1 \in 1..Len(sending) /\ \A i : i \notin 1..Len(sending')
        /\ \A i \in 1..Len(pending') : i \in 1..Len(pending) \/ i = Len(pending) + 1
    BY <1>0, <2>1
  <2> QED
    BY <2>1, <2>2 DEF Untaken
<1>8. CASE NyxCallback \/ NyxForgets
  <2>1. PICK i \in 1..Len(pending) :
          /\ Drops(i)
          /\ Enters("nyx", pending[i].n) \/ UNCHANGED <<pc, resp>>
    BY <1>8, NyxMoves, ForgetMoves DEF frameVars
  <2>2. UNCHANGED <<sending, mQueue>>
    BY <1>8, NyxMoves, ForgetMoves
  <2>3. \A j \in 1..Len(pending') : \E k \in 1..Len(pending) : pending'[j] = pending[k]
    BY <1>0, <2>1, DropsKeeps
  <2>4. \A t \in CallbackThreads : pc'[t] = "front" =>
          \/ pc[t] = "front" /\ resp'[t].of = resp[t].of
          \/ resp'[t].of = pending[i].n
    BY <2>1, ThreadNames DEF Enters
  <2> QED
    BY <2>2, <2>3, <2>4 DEF Untaken
<1>9. CASE \E t \in CallbackThreads : TakeFront(t)
  <2>1. PICK t \in CallbackThreads : TakeFront(t)
    BY <1>9
  <2>2. /\ pc[t] = "front" /\ UNCHANGED <<mQueue, sending, pending, resp>>
        /\ \A u \in CallbackThreads \ {t} : pc'[u] = pc[u]
    BY <2>1, FrontMoves, ThreadNames DEF queueVars, frameVars
  <2> QED
    BY <1>1, <2>2
<1>10. CASE Quiet
  BY <1>1, <1>10 DEF Quiet, queueVars
<1> QED
  BY <1>2, <1>3, <1>4, <1>5, <1>6, <1>7, <1>8, <1>9, <1>10, Steps

\* Where no command is in the list, no message is untaken.
LEMMA UntakenCovered ==
  ASSUME ServiceInv, NEW x, Untaken(x)
  PROVE  Len(mCmdList) >= 1
<1>1. /\ Len(mCmdList) \in Nat /\ Len(mQueue) \in Nat /\ Len(sending) \in Nat
      /\ Len(pending) \in Nat /\ AtFront("worker") \in {0, 1} /\ AtFront("nyx") \in {0, 1}
  BY HeldTypes DEF AtFront
<1>2. Len(mCmdList) >= Owed
  BY InvariantParts DEF Parts, CommandsCoverMessages
<1>3. \/ Len(mQueue) >= 1 \/ Len(sending) >= 1 \/ Len(pending) >= 1
      \/ AtFront("worker") = 1 \/ AtFront("nyx") = 1
  BY <1>1, ThreadNames DEF Untaken, AtFront
<1> QED
  BY <1>1, <1>2, <1>3 DEF Owed

Covered == \A x \in Nat : Untaken(x) => Len(mCmdList) >= 1

LEMMA CoveredNext == ServiceInv' => Covered'
<1>1. ServiceInv => Covered
  BY UntakenCovered DEF Covered
<1> QED
  BY <1>1, PTL

\* A client that sends does not wait for an untaken message.
LEMMA SendsAlone ==
  ASSUME ServiceInv, Books, Unreplied, LatestOnly, Window = 1,
         pc["main"] = "idle", MaySend, NEW x \in Nat, Untaken(x)
  PROVE  x = 0
<1> SUFFICES ASSUME x # 0 PROVE FALSE
  OBVIOUS
<1>1. /\ x = Len(issued) /\ x \in 1..Len(issued)
      /\ \E i \in 1..Len(mCmdList) : mCmdList[i].n = x
  BY DEF LatestOnly
<1>2. ~Settled(x)
  BY <1>1 DEF Unreplied, Settled
<1>3. UnderWay(x)
  BY DEF UnderWay
<1>4. x + Window <= Len(issued) + 1
  BY <1>1, HeldTypes
<1> QED
  BY <1>1, <1>2, <1>3, <1>4 DEF MaySend, GivenUp

LEMMA LatestOnlyStep ==
  ASSUME ServiceInv, [Next]_vars, Books, Ordered, Aligned, Unreplied, Window = 1,
         LatestOnly
  PROVE  LatestOnly'
<1> SUFFICES ASSUME NEW x \in Nat, Untaken(x)', x # 0
             PROVE  /\ x = Len(issued')
                    /\ \E i \in 1..Len(mCmdList') : mCmdList'[i].n = x
  BY DEF LatestOnly
<1>0. /\ Len(mCmdList) \in Nat /\ Len(issued) \in Nat
      /\ \A i \in 1..Len(mCmdList) : mCmdList[i].n \in Nat
  BY HeldTypes
<1>1. CASE EnqueueMessage
  <2>1. UNCHANGED <<issued, mCmdList>> /\ pc["main"] = "enqueue"
    BY <1>1, EnqueueMoves DEF busVars
  <2>2. Len(mCmdList) >= 1
    BY <2>1, Counts DEF Coming
  <2>3. Len(mCmdList) \in 1..Len(mCmdList) /\ mCmdList[Len(mCmdList)].n = Len(issued)
    BY <1>0, <2>1, <2>2 DEF Aligned, QueueAligned, Books, MainWorks
  <2>4. x = cmd["main"].n \/ Untaken(x)
    BY UntakenBefore
  <2>5. cmd["main"].n = Len(issued)
    BY <2>1 DEF Books, MainWorks
  <2> QED
    BY <2>1, <2>3, <2>4, <2>5 DEF LatestOnly
<1>2. CASE ~EnqueueMessage
  <2>1. /\ Untaken(x) /\ x = Len(issued)
        /\ \E i \in 1..Len(mCmdList) : mCmdList[i].n = x
    BY <1>2, UntakenBefore DEF LatestOnly
  <2>2. CASE \E r \in Requests : BusRequest(r)
    BY <2>1, <2>2, BusMoves, SendsAlone
  <2>3. ASSUME UNCHANGED issued, Len(mCmdList') >= Len(mCmdList),
               \A i \in 1..Len(mCmdList) : mCmdList'[i] = mCmdList[i],
               Len(mCmdList') \in Nat
        PROVE  /\ x = Len(issued')
               /\ \E i \in 1..Len(mCmdList') : mCmdList'[i].n = x
    BY <1>0, <2>1, <2>3
  <2>4. CASE PushCommand \/ ConstructPush
    BY <1>0, <2>3, <2>4, PushMoves, ConstructMoves DEF busVars
  <2>5. CASE UNCHANGED <<issued, mCmdList>>
    BY <2>1, <2>5
  <2>6. CASE InsertClient \/ ConstructEnqueue \/ WorkerTake \/ WorkerAnswered
             \/ WorkerAccepted \/ NyxCallback \/ NyxForgets \/ Quiet
    BY <2>5, <2>6, InsertMoves, ConstructMoves, TakeMoves, AnsweredMoves,
       AcceptedMoves, NyxMoves, ForgetMoves DEF busVars, Quiet
  <2>7. ASSUME NEW t \in CallbackThreads, TakeFront(t), Takes(t)
        PROVE  /\ x = Len(issued')
               /\ \E i \in 1..Len(mCmdList') : mCmdList'[i].n = x
    <3>1. /\ UNCHANGED issued /\ Len(mCmdList') = Len(mCmdList) - 1
          /\ \A i \in 1..(Len(mCmdList) - 1) : mCmdList'[i] = mCmdList[i + 1]
      BY <2>7, FrontMoves DEF Takes, busVars
    <3>2. PICK i \in 1..Len(mCmdList) : mCmdList[i].n = x
      BY <2>1
    <3>3. CASE i = 1
      <4>1. Len(mCmdList') >= 1
        BY NextServiceInv, CoveredNext DEF Covered
      <4>2. 2 \in 1..Len(mCmdList) /\ 1 \in 1..Len(mCmdList) /\ 1 < 2
        BY <1>0, <3>1, <4>1
      <4>3. mCmdList[1].n < mCmdList[2].n /\ mCmdList[2].n <= Len(issued)
        BY <4>2 DEF Ordered, ListAscends, Books, CommandsIssued
      <4> QED
        BY <1>0, <2>1, <3>2, <3>3, <4>2, <4>3
    <3>4. CASE i # 1
      <4>1. i - 1 \in 1..(Len(mCmdList) - 1) /\ (i - 1) + 1 = i
        BY <1>0, <3>4
      <4> QED
        BY <2>1, <3>1, <3>2, <4>1
    <3> QED
      BY <3>3, <3>4
  <2>8. CASE \E t \in CallbackThreads : TakeFront(t)
    BY <2>5, <2>7, <2>8, FrontMoves DEF busVars
  <2> QED
    BY <1>2, <2>2, <2>4, <2>6, <2>8, Steps
<1> QED
  BY <1>1, <1>2

LEMMA HandsForwardStep ==
  ASSUME ServiceInv, [Next]_vars, Books, LatestOnly, HandsForward
  PROVE  HandsForward'
<1> DEFINE Has(t) == pc[t] \in {"clear", "adapters", "devices", "reply"}
<1>1. ASSUME \A t \in CallbackThreads :
               Has(t)' => Has(t) /\ cmd'[t].n = cmd[t].n /\ resp'[t].of = resp[t].of
      PROVE  HandsForward'
  BY <1>1 DEF HandsForward
<1>2. CASE (\E r \in Requests : BusRequest(r)) \/ InsertClient
  BY <1>1, <1>2, BusMoves, InsertMoves DEF queueVars, frameVars
<1>3. CASE PushCommand \/ EnqueueMessage \/ ConstructPush \/ ConstructEnqueue
  BY <1>1, <1>3, PushMoves, EnqueueMoves, ConstructMoves DEF frameVars
<1>4. CASE WorkerTake \/ WorkerAnswered \/ WorkerAccepted \/ NyxCallback \/ NyxForgets
  BY <1>1, <1>4, TakeMoves, AnsweredMoves, AcceptedMoves, NyxMoves, ForgetMoves,
     ThreadNames DEF frameVars, Enters
<1>5. CASE \E t \in CallbackThreads : TakeFront(t)
  <2>1. PICK t \in CallbackThreads : TakeFront(t)
    BY <1>5
  <2>2. /\ pc[t] = "front" /\ Len(mCmdList) >= 1 /\ UNCHANGED resp
        /\ \A u \in CallbackThreads \ {t} : pc'[u] = pc[u]
    BY <2>1, FrontMoves, ThreadNames DEF frameVars
  <2>3. CASE ~Takes(t)
    BY <1>1, <2>1, <2>2, <2>3, FrontMoves
  <2>4. CASE Takes(t)
    <3>1. cmd'[t] = mCmdList[1] /\ \A u \in CallbackThreads \ {t} : cmd'[u] = cmd[u]
      BY <2>4, ThreadNames DEF Takes
    <3>2. 1 \in 1..Len(mCmdList)
      BY <2>2, HeldTypes
    <3>3. mCmdList[1].n \in Nat /\ mCmdList[1].n <= Len(issued) /\ Len(issued) \in Nat
      BY <3>2, HeldTypes DEF Books, CommandsIssued
    <3>4. resp[t].of = 0 \/ resp[t].of = Len(issued)
      BY <2>2, HeldTypes DEF LatestOnly, Untaken
    <3>5. resp[t].of \notin 1..(mCmdList[1].n - 1)
      BY <3>3, <3>4
    <3> QED
      BY <2>2, <3>1, <3>5 DEF HandsForward
  <2> QED
    BY <2>3, <2>4
<1>6. CASE Quiet
  BY <1>1, <1>6 DEF Quiet
<1> QED
  BY <1>2, <1>3, <1>4, <1>5, <1>6, Steps

LEMMA GivenForwardStep ==
  ASSUME ServiceInv, [Next]_vars, Books, OneOwner, HandsForward, GivenForward
  PROVE  GivenForward'
<1> SUFFICES ASSUME NEW x \in Nat, NEW k \in 1..MaxRequests, GivenTo(k, x)'
             PROVE  x \notin 1..(k - 1)
  BY DEF GivenForward
<1>1. CASE GivenTo(k, x)
  BY <1>1 DEF GivenForward
<1>2. CASE ~GivenTo(k, x)
  <2>1. PICK t \in CallbackThreads :
          ReplyStep(t) /\ Responds(t) /\ k = ReplyTo(t) /\ x = resp[t].of
    BY <1>2, GivenBefore
  <2>2. k = cmd[t].n
    BY <2>1, RespondsToOwner, ThreadNames
  <2> QED
    BY <2>1, <2>2 DEF HandsForward, Responds
<1> QED
  BY <1>1, <1>2

LEMMA InitOneByOne == Init => OneByOne
<1> SUFFICES ASSUME Init PROVE OneByOne
  OBVIOUS
<1>1. /\ Len(mQueue) = 0 /\ Len(sending) = 0 /\ Len(pending) = 0
      /\ \A k \in 1..MaxRequests : Len(replies[k]) = 0
  BY EmptySeq DEF Init
<1>2. \A t \in CallbackThreads : pc[t] = "idle"
  BY ThreadNames DEF Init
<1> QED
  BY <1>1, <1>2 DEF OneByOne, LatestOnly, HandsForward, GivenForward, Untaken, GivenTo

\* Where clients send one at a time, what is not answered yet is the last
\* request's or the constructor's, and answers are not given to later requests.
THEOREM OneByOneInvariant ==
  Window = 1 /\ IdsSuffice =>
    (SafeSpec => [](ServiceInv /\ Books /\ Aligned /\ Traced /\ OneByOne))
<1> SUFFICES ASSUME Window = 1, IdsSuffice
             PROVE  SafeSpec => [](ServiceInv /\ Books /\ Aligned /\ Traced /\ OneByOne)
  OBVIOUS
<1>1. Init => OneByOne
  BY InitOneByOne
<1>2. ServiceInv /\ Books /\ Ordered /\ Aligned /\ Registered /\ OneByOne /\ [Next]_vars
        => OneByOne'
  <2> SUFFICES ASSUME ServiceInv, Books, Ordered, Aligned, Registered, OneByOne,
                      [Next]_vars
               PROVE  OneByOne'
    OBVIOUS
  <2> QED
    BY LatestOnlyStep, HandsForwardStep, GivenForwardStep DEF OneByOne, Registered
<1> QED
  BY <1>1, <1>2, RegistryInvariant, AlignmentInvariant, TraceInvariant, PTL DEF SafeSpec

\* If clients send one at a time, none gets the answer to an earlier request,
\* although nyx answers late, in any order, or never.
THEOREM AnswersAreNotStale == Window = 1 /\ IdsSuffice => (SafeSpec => []AnswersGoBack)
<1>1. ServiceInv /\ OneByOne => AnswersGoBack
  <2> SUFFICES ASSUME ServiceInv, OneByOne, NEW k \in 1..MaxRequests,
                      NEW i \in DOMAIN replies[k], replies[k][i].ok
               PROVE  replies[k][i].of \notin 1..(k - 1)
    BY DEF AnswersGoBack
  <2>1. replies[k] \in Seq(ReplyRecord)
    BY IdTypes
  <2>2. i \in 1..Len(replies[k])
    BY <2>1, LenProperties
  <2>3. replies[k][i].of \in Nat
    <3>1. replies[k][i] \in ReplyRecord
      BY <2>1, <2>2, ElementOfSeq
    <3> QED
      BY <3>1, HeldTypes DEF ReplyRecord
  <2>4. GivenTo(k, replies[k][i].of)
    BY <2>2 DEF GivenTo
  <2> QED
    BY <2>3, <2>4 DEF OneByOne, GivenForward
<1> QED
  BY <1>1, OneByOneInvariant, PTL

-----------------------------------------------------------------------------
(* Commands that no answer will take off the list.                         *)

\* The messages taken off the queue whose command is still in the list.
Out == Len(sending) + Len(pending) + AtFront("worker") + AtFront("nyx")

StaleCounted == Sent \in Nat /\ Out \in Nat /\ (Stale <=> Sent > Out)

LEMMA StaleCounts ==
  ASSUME ServiceInv, Books
  PROVE  StaleCounted
<1>1. /\ Len(sending) \in Nat /\ Len(pending) \in Nat /\ Sent \in Nat
      /\ AtFront("worker") \in {0, 1} /\ AtFront("nyx") \in {0, 1}
      /\ Stale <=> Sent > Len(sending) + Len(pending) + AtFront("worker") + AtFront("nyx")
  BY Counts
<1>2. Stale <=> Sent > Out
  BY <1>1 DEF Out
<1> QED
  BY <1>1, <1>2 DEF StaleCounted, Out

LEMMA StaleCountsNext == ServiceInv' /\ Books' => StaleCounted'
<1>1. ServiceInv /\ Books => StaleCounted
  BY StaleCounts
<1> QED
  BY <1>1, PTL

\* A command goes stale only when nyx forgets its message, or a callback drops
\* the answer.
LEMMA GoesStale ==
  ASSUME ServiceInv, [Next]_vars, Books, ~Stale, Stale'
  PROVE  \/ NyxForgets
         \/ \E t \in CallbackThreads : pc[t] = "front" /\ pc'[t] = "idle"
<1>0. /\ Len(sending) \in Nat /\ Len(pending) \in Nat
      /\ AtFront("worker") \in {0, 1} /\ AtFront("nyx") \in {0, 1}
      /\ Sent \in Nat /\ Out \in Nat /\ ~(Sent > Out)
  BY Counts, StaleCounts DEF StaleCounted
<1>1. ServiceInv' /\ Books'
  BY NextServiceInv, MainWorksStep, CommandsIssuedStep, MessagesIssuedStep, StartingStep
     DEF Books
<1>2. Sent' \in Nat /\ Out' \in Nat /\ Sent' > Out'
  BY <1>1, StaleCountsNext DEF StaleCounted
<1>3. ASSUME UNCHANGED <<sending, pending>>,
             \A t \in CallbackThreads : pc'[t] = "front" <=> pc[t] = "front"
      PROVE  Out' = Out
  <2>1. Len(sending') = Len(sending) /\ Len(pending') = Len(pending)
    BY <1>3
  <2>2. AtFront("worker")' = AtFront("worker") /\ AtFront("nyx")' = AtFront("nyx")
    BY <1>3, ThreadNames DEF AtFront
  <2> QED
    BY <2>1, <2>2 DEF Out
<1>4. CASE (\E r \in Requests : BusRequest(r)) \/ InsertClient
  <2>1. Out' = Out
    BY <1>3, <1>4, BusMoves, InsertMoves DEF queueVars
  <2> QED
    BY <1>0, <1>2, <1>4, <2>1, SentMoves
<1>5. CASE PushCommand \/ EnqueueMessage \/ ConstructPush \/ ConstructEnqueue
  <2>1. Out' = Out
    BY <1>3, <1>5, PushMoves, EnqueueMoves, ConstructMoves DEF queueVars
  <2> QED
    BY <1>0, <1>2, <1>5, <2>1, SentMoves
<1>6. CASE Quiet
  <2>1. Out' = Out
    BY <1>3, <1>6 DEF Quiet, queueVars
  <2> QED
    BY <1>0, <1>2, <1>6, <2>1, SentMoves
<1>7. CASE WorkerTake
  <2>1. Len(sending) = 0 /\ Len(sending') = 1 /\ UNCHANGED <<pending, pc>>
    BY <1>7, TakeMoves
  <2>2. /\ Len(pending') = Len(pending)
        /\ AtFront("worker")' = AtFront("worker") /\ AtFront("nyx")' = AtFront("nyx")
    BY <2>1 DEF AtFront
  <2>3. Out' = Out + 1
    BY <1>0, <2>1, <2>2 DEF Out
  <2> QED
    BY <1>0, <1>2, <1>7, <2>3, SentMoves
<1>8. CASE WorkerAnswered
  <2>1. /\ pc["worker"] = "idle" /\ pc'["worker"] = "front" /\ pc'["nyx"] = pc["nyx"]
        /\ Len(sending) = 1 /\ Len(sending') = 0 /\ UNCHANGED pending
    BY <1>8, AnsweredMoves, ThreadNames DEF Enters
  <2>2. /\ Len(pending') = Len(pending) /\ AtFront("worker") = 0
        /\ AtFront("worker")' = 1 /\ AtFront("nyx")' = AtFront("nyx")
    BY <2>1 DEF AtFront
  <2>3. Out' = Out
    BY <1>0, <2>1, <2>2 DEF Out
  <2> QED
    BY <1>0, <1>2, <1>8, <2>3, SentMoves
<1>9. CASE WorkerAccepted
  <2>1. /\ Len(sending) = 1 /\ Len(sending') = 0 /\ UNCHANGED pc
        /\ Len(pending') = Len(pending) + 1
    BY <1>9, AcceptedMoves
  <2>2. AtFront("worker")' = AtFront("worker") /\ AtFront("nyx")' = AtFront("nyx")
    BY <2>1 DEF AtFront
  <2>3. Out' = Out
    BY <1>0, <2>1, <2>2 DEF Out
  <2> QED
    BY <1>0, <1>2, <1>9, <2>3, SentMoves
<1>10. CASE NyxCallback
  <2>1. /\ Len(pending') = Len(pending) - 1 /\ UNCHANGED sending
        /\ pc["nyx"] = "idle" /\ pc'["nyx"] = "front" /\ pc'["worker"] = pc["worker"]
    BY <1>10, NyxMoves, ThreadNames DEF Drops, Enters
  <2>2. /\ Len(sending') = Len(sending) /\ AtFront("nyx") = 0
        /\ AtFront("nyx")' = 1 /\ AtFront("worker")' = AtFront("worker")
    BY <2>1 DEF AtFront
  <2>3. Out' = Out
    BY <1>0, <2>1, <2>2 DEF Out
  <2> QED
    BY <1>0, <1>2, <1>10, <2>3, SentMoves
<1>11. ASSUME NEW t \in CallbackThreads, TakeFront(t), Takes(t)
       PROVE  FALSE
  <2>1. /\ pc[t] = "front" /\ pc'[t] # "front" /\ UNCHANGED <<sending, pending>>
        /\ \A u \in CallbackThreads \ {t} : pc'[u] = pc[u]
    BY <1>11, FrontMoves, ThreadNames DEF queueVars, Takes
  <2>2. Len(sending') = Len(sending) /\ Len(pending') = Len(pending)
    BY <2>1
  <2>3. AtFront("worker")' + AtFront("nyx")' = AtFront("worker") + AtFront("nyx") - 1
    BY <2>1, ThreadNames DEF AtFront
  <2>4. AtFront("worker")' \in {0, 1} /\ AtFront("nyx")' \in {0, 1}
    BY DEF AtFront
  <2>5. Out' = Out - 1
    BY <1>0, <2>2, <2>3, <2>4 DEF Out
  <2>6. Sent >= 1 /\ Sent' = Sent - 1
    BY <1>11, SentMoves
  <2> QED
    BY <1>0, <1>2, <2>5, <2>6
<1>12. CASE \E t \in CallbackThreads : TakeFront(t)
  BY <1>11, <1>12, FrontMoves
<1> QED
  BY <1>4, <1>5, <1>6, <1>7, <1>8, <1>9, <1>10, <1>12, Steps

\* A sole client's answer is not dropped, once the constructor's has taken its
\* command.
LEMMA SoleAnswerTaken ==
  ASSUME ServiceInv, Books, Aligned, Traced, LatestOnly, ~Stale, ~Untaken(0),
         NEW t \in CallbackThreads, pc[t] = "front"
  PROVE  Len(mCmdList) = 1
<1>0. /\ Len(mCmdList) \in Nat /\ Len(mQueue) \in Nat /\ Len(sending) \in Nat
      /\ Len(pending) \in Nat /\ Len(sending) <= 1
      /\ AtFront("worker") \in {0, 1} /\ AtFront("nyx") \in {0, 1}
      /\ Coming \in {0, 1} /\ Sent \in Nat
      /\ Len(mCmdList) = Sent + Len(mQueue) + Coming
      /\ Sent = Len(sending) + Len(pending) + AtFront("worker") + AtFront("nyx")
  BY Counts
<1>1. Len(issued) \in Nat /\ resp[t].of \in Nat
  BY HeldTypes
<1>2. /\ DOMAIN sending = 1..Len(sending) /\ DOMAIN pending = 1..Len(pending)
      /\ DOMAIN mQueue = 1..Len(mQueue)
  BY InvariantParts, LenProperties DEF Parts, QueueType
<1>3. \A x \in Nat : Untaken(x) => x = Len(issued)
  BY DEF LatestOnly
<1>4. resp[t].of = Len(issued)
  BY <1>1, <1>3 DEF Untaken
<1>5. Len(sending) = 0
  <2> SUFFICES ASSUME Len(sending) # 0 PROVE FALSE
    OBVIOUS
  <2>1. 1 \in 1..Len(sending)
    BY <1>0
  <2>2. sending[1].n = Len(issued)
    BY <1>3, <2>1, HeldTypes DEF Untaken
  <2> QED
    BY <1>4, <2>1, <2>2 DEF Traced, LooseApart, Answering
<1>6. Len(pending) = 0
  <2> SUFFICES ASSUME Len(pending) # 0 PROVE FALSE
    OBVIOUS
  <2>1. 1 \in 1..Len(pending)
    BY <1>0
  <2>2. pending[1].n = Len(issued)
    BY <1>3, <2>1, HeldTypes DEF Untaken
  <2> QED
    BY <1>4, <2>1, <2>2 DEF Traced, LooseApart, Answering
<1>7. AtFront("worker") + AtFront("nyx") = 1
  <2>1. ~(pc["worker"] = "front" /\ pc["nyx"] = "front")
    <3> SUFFICES ASSUME pc["worker"] = "front", pc["nyx"] = "front" PROVE FALSE
      OBVIOUS
    <3>1. resp["worker"].of = Len(issued) /\ resp["nyx"].of = Len(issued)
      BY <1>3, HeldTypes, ThreadNames DEF Untaken
    <3> QED
      BY <3>1 DEF Traced, LooseApart, Answering
  <2> QED
    BY <2>1, ThreadNames DEF AtFront
<1>8. /\ init = "done" /\ pc["main"] = "idle"
      /\ \A i \in 1..Len(mQueue) : Len(issued) < mQueue[i].n
  <2>1. Taken(Len(issued))
    BY <1>4 DEF Taken, Loose, Answering
  <2> QED
    BY <1>1, <2>1 DEF Traced, TakenInOrder
<1>9. Len(mQueue) = 0
  <2> SUFFICES ASSUME Len(mQueue) # 0 PROVE FALSE
    OBVIOUS
  <2>1. 1 \in 1..Len(mQueue)
    BY <1>0
  <2>2. mQueue[1].n \in Nat /\ mQueue[1].n <= Len(issued)
    BY <2>1, HeldTypes DEF Books, MessagesIssued
  <2> QED
    BY <1>1, <1>8, <2>1, <2>2
<1>10. Coming = 0
  BY <1>8 DEF Coming
<1> QED
  BY <1>0, <1>5, <1>6, <1>7, <1>9, <1>10

\* If clients send one at a time, only a nyx that forgets leaves a command in
\* mCmdList that no answer will take off, once the constructor's own listing is
\* no longer queued, with nyx, or about to take its command.
THEOREM NothingElseGoesStale ==
  Window = 1 /\ IdsSuffice => (SafeSpec => OnlyForgettingLoses)
<1>1. ServiceInv /\ Books /\ Aligned /\ Traced /\ OneByOne /\ [Next]_vars
        => (~Stale /\ Stale' => NyxForgets \/ Untaken(0))
  <2> SUFFICES ASSUME ServiceInv, Books, Aligned, Traced, OneByOne, [Next]_vars,
                      ~Stale, Stale', ~NyxForgets, ~Untaken(0)
               PROVE  FALSE
    OBVIOUS
  <2>1. PICK t \in CallbackThreads : pc[t] = "front" /\ pc'[t] = "idle"
    BY GoesStale
  <2>2. Len(mCmdList) >= 2
    BY <2>1, DropOverlaps
  <2>3. Len(mCmdList) = 1
    BY <2>1, SoleAnswerTaken DEF OneByOne
  <2> QED
    BY <2>2, <2>3
<1> QED
  BY <1>1, OneByOneInvariant, PTL DEF OnlyForgettingLoses, SafeSpec

-----------------------------------------------------------------------------
(* The line of clients: a synchronous nyx, and accesses of m_clients that  *)
(* do not go wrong.                                                        *)

\* The entry of a request stays until its command is done.
StillRegistered ==
  \A id \in Ids, n \in Nat : n # 0 /\ Live(n, id) => m_clients[id] = n

\* The dispatch thread has a command it took, and has not replied for it,
Handing == pc["worker"] \in {"clear", "adapters", "devices", "reply"}

\* and the answer in its hand is the command's.
OwnAnswer == Handing => resp["worker"].of = cmd["worker"].n

Waits(k) ==
  \/ \E i \in 1..Len(mCmdList) : mCmdList[i].n = k
  \/ Handing /\ cmd["worker"].n = k

\* Main leaves no request undecided.
LastDecided ==
  pc["main"] \in {"idle", "enqueue", "erase"} /\ Len(issued) # 0 =>
    replies[Len(issued)] # <<>> \/ Waits(Len(issued))

LEMMA StillRegisteredStep ==
  ASSUME ServiceInv, [Next]_vars, Books, Ordered, Registered, ~RacyMap, StillRegistered
  PROVE  StillRegistered'
<1> SUFFICES ASSUME NEW id \in Ids, NEW n \in Nat, n # 0, Live(n, id)'
             PROVE  m_clients'[id] = n
  BY DEF StillRegistered, Ids
<1>0. m_clients \in [Ids -> 0..MaxRequests] /\ \A t \in Threads : cmd[t].id \in Ids
  BY IdTypes
<1>1. Live(n, id) \/ (InsertClient /\ n = Len(issued) /\ id = NextId)
  BY LiveBefore
<1>2. CASE InsertClient
  <2>1. m_clients' = [m_clients EXCEPT ![NextId] = Len(issued)]
    BY <1>2 DEF InsertClient, Racing
  <2>2. CASE id = NextId /\ n = Len(issued)
    BY <1>0, <2>1, <2>2
  <2>3. CASE Live(n, id)
    <3>1. id # NextId
      BY <1>2, <2>3, NextIdFree DEF Tagged, InsertClient, Registered
    <3> QED
      BY <1>0, <2>1, <2>3, <3>1 DEF StillRegistered
  <2> QED
    BY <1>1, <2>2, <2>3
<1>3. ASSUME Live(n, id), m_clients'[id] = m_clients[id]
      PROVE  m_clients'[id] = n
  BY <1>3 DEF StillRegistered
<1>4. ASSUME NEW t \in Threads, ReplyStep(t), ~InsertClient
      PROVE  m_clients'[id] = n
  <2>1. Live(n, id)
    BY <1>1, <1>4
  <2>2. /\ UNCHANGED <<mCmdList, cmd>> /\ \A u \in Threads \ {t} : pc'[u] = pc[u]
    BY <1>4, ReplyMoves
  <2>3. CASE Responds(t) \/ Passes(t)
    BY <1>3, <2>1, <2>3 DEF Responds, Passes
  <2>4. CASE Erases(t) /\ id # cmd[t].id
    BY <1>3, <2>1, <2>4 DEF Erases
  <2>5. CASE Erases(t) /\ id = cmd[t].id
    <3>1. pc[t] = "erase" /\ pc'[t] = "idle" /\ Working(t) /\ ~Working(t)'
      BY <2>5 DEF Erases, Working
    <3>2. m_clients[id] = cmd[t].n
      BY <2>5, <3>1 DEF Registered, Unreplied
    <3>3. n = cmd[t].n
      BY <2>1, <3>2 DEF StillRegistered
    <3>4. /\ \A i \in 1..Len(mCmdList) : mCmdList[i].n # n
          /\ \A u \in Threads \ {t} : Working(u) => cmd[u].n # n
      BY <3>1, <3>3, WorkDistinct
    <3>5. \A u \in Threads : Working(u)' => u # t /\ Working(u)
      BY <2>2, <3>1 DEF Working
    <3>6. ~Live(n, id)'
      BY <2>2, <3>4, <3>5 DEF Live
    <3> QED
      BY <3>6
  <2> QED
    BY <1>4, <2>3, <2>4, <2>5, ReplyEffects
<1>5. CASE ~InsertClient /\ ~(\E t \in Threads : ReplyStep(t))
  <2>1. UNCHANGED m_clients
    BY <1>5, QuietOrReply, BusMoves, PushMoves, EnqueueMoves, ConstructMoves, TakeMoves,
       AnsweredMoves, AcceptedMoves, NyxMoves, ForgetMoves, FrontMoves
       DEF StaysUnreplied, clientVars
  <2> QED
    BY <1>1, <1>3, <1>5, <2>1
<1> QED
  BY <1>2, <1>4, <1>5

LEMMA OwnAnswerStep ==
  ASSUME ServiceInv, [Next]_vars, FrontInHand, OwnAnswer
  PROVE  OwnAnswer'
<1>1. ASSUME Handing' => Handing, cmd'["worker"].n = cmd["worker"].n,
             resp'["worker"].of = resp["worker"].of
      PROVE  OwnAnswer'
  BY <1>1 DEF OwnAnswer
<1>2. CASE ~Handing'
  BY <1>2 DEF OwnAnswer
<1>3. CASE (\E r \in Requests : BusRequest(r)) \/ InsertClient
  BY <1>1, <1>3, BusMoves, InsertMoves, ThreadNames DEF queueVars, frameVars, Handing
<1>4. CASE PushCommand \/ EnqueueMessage \/ ConstructPush \/ ConstructEnqueue
  BY <1>1, <1>4, PushMoves, EnqueueMoves, ConstructMoves, ThreadNames DEF frameVars, Handing
<1>5. CASE WorkerTake \/ WorkerAccepted \/ NyxForgets
  BY <1>1, <1>5, TakeMoves, AcceptedMoves, ForgetMoves DEF frameVars, Handing
<1>6. CASE WorkerAnswered
  BY <1>2, <1>6, AnsweredMoves DEF Enters, Handing
<1>7. CASE NyxCallback
  BY <1>1, <1>7, NyxMoves, ThreadNames DEF Enters, Handing
<1>8. ASSUME NEW t \in CallbackThreads, TakeFront(t)
      PROVE  OwnAnswer'
  <2>1. t = "worker" /\ pc["worker"] = "front" /\ UNCHANGED resp
    BY <1>8, FrontMoves, ThreadNames DEF FrontInHand, frameVars
  <2>2. CASE Takes(t)
    <3>1. cmd'["worker"] = mCmdList[1] /\ mCmdList[1].n = resp["worker"].of
      BY <2>1, <2>2 DEF Takes, FrontInHand
    <3> QED
      BY <2>1, <3>1 DEF OwnAnswer
  <2>3. CASE pc'[t] = "idle"
    BY <1>2, <2>1, <2>3 DEF Handing
  <2> QED
    BY <1>8, <2>2, <2>3, FrontMoves
<1>9. CASE Quiet
  <2>1. UNCHANGED cmd /\ resp'["worker"].of = resp["worker"].of
    BY <1>9, ThreadNames DEF Quiet
  <2>2. Handing' => Handing
    BY <1>9, ThreadNames DEF Quiet, Handing
  <2> QED
    BY <1>1, <2>1, <2>2
<1> QED
  BY <1>3, <1>4, <1>5, <1>6, <1>7, <1>8, <1>9, Steps

\* The steps, the quiet ones apart.
LEMMA EachStep ==
  ASSUME ServiceInv, [Next]_vars
  PROVE  \/ \E r \in Requests : BusRequest(r)
         \/ InsertClient \/ PushCommand \/ EnqueueMessage
         \/ ConstructPush \/ ConstructEnqueue
         \/ WorkerTake \/ WorkerAnswered \/ WorkerAccepted
         \/ NyxCallback \/ NyxForgets
         \/ \E t \in CallbackThreads : TakeFront(t)
         \/ ValidateAdapter \/ ValidateAddress
         \/ \E t \in CallbackThreads :
              ClearAdapters(t) \/ PushAdapter(t) \/ RecordDevice(t)
         \/ \E t \in Threads : ReplyStep(t)
         \/ UNCHANGED vars
BY ThreadNames DEF Next, MainStep, InitStep, WorkerStep, NyxStep, CallbackStep

\* Every command but the constructor's is replied for, to its own client.
LEMMA RepliesToClient ==
  ASSUME ServiceInv, Books, Registered, StillRegistered, ~RacyMap,
         NEW t \in Threads, Reply(t)
  PROVE  IF cmd[t].n = 0 THEN Passes(t)
         ELSE Responds(t) /\ ReplyTo(t) = cmd[t].n /\ cmd[t].n \in 1..MaxRequests
<1>1. cmd[t].n \in Nat /\ cmd[t].id \in Ids
  BY IdTypes, HeldTypes
<1>2. pc[t] = "reply"
  BY DEF Reply
<1>3. cmd[t].n # 0 => m_clients[cmd[t].id] = cmd[t].n
  BY <1>1, <1>2 DEF StillRegistered, Live, Working
<1>4. cmd[t].n # 0 => Goto(t, "erase")
  BY <1>1, <1>3 DEF Reply, ReplyTo, Racing
<1>5. Responds(t) \/ Passes(t) \/ Erases(t)
  BY ReplyEffects DEF ReplyStep
<1>6. CASE cmd[t].n = 0
  BY <1>2, <1>5, <1>6 DEF Responds, Erases
<1>7. CASE cmd[t].n # 0
  <2>1. pc'[t] = "erase"
    BY <1>4, <1>7, GotoMoves
  <2>2. Responds(t)
    BY <1>2, <1>5, <2>1 DEF Passes, Erases
  <2> QED
    BY <1>7, <2>2, RespondsToOwner DEF Registered
<1> QED
  BY <1>6, <1>7

LEMMA LastDecidedStep ==
  ASSUME ServiceInv, [Next]_vars, Books, Registered, StillRegistered, ~RacyMap,
         FrontInHand, LastDecided
  PROVE  LastDecided'
<1>0. /\ Len(mCmdList) \in Nat /\ Len(issued) \in Nat /\ MaxRequests \in Nat
      /\ Len(issued) <= MaxRequests
      /\ replies \in [1..MaxRequests -> Seq(ReplyRecord)]
  BY IdTypes, HeldTypes
<1> DEFINE Rests == {"idle", "enqueue", "erase"}
<1>1. ASSUME UNCHANGED issued, \A k : Waits(k) => Waits(k)',
             \A k \in 1..MaxRequests : replies[k] # <<>> => replies'[k] # <<>>,
             pc'["main"] \in Rests => pc["main"] \in Rests
      PROVE  LastDecided'
  BY <1>0, <1>1 DEF LastDecided
<1>2. CASE \E r \in Requests : BusRequest(r)
  <2>1. PICK r \in Requests : BusRequest(r)
    BY <1>2
  <2>2. /\ pc["main"] = "idle" /\ Len(issued') = Len(issued) + 1
        /\ Len(issued) < MaxRequests
    BY <2>1, BusMoves
  <2>3. CASE r.verdict \in {"json", "schema"}
    <3>1. PICK code : replies' = [replies EXCEPT ![Len(issued) + 1] = Append(@, Refused(code))]
      BY <2>1, <2>3 DEF BusRequest
    <3>2. Len(issued) + 1 \in 1..MaxRequests
      BY <1>0, <2>2
    <3>3. replies'[Len(issued) + 1] = Append(replies[Len(issued) + 1], Refused(code))
      BY <1>0, <3>1, <3>2
    <3>4. replies'[Len(issued) + 1] # <<>>
      <4>1. replies[Len(issued) + 1] \in Seq(ReplyRecord)
        BY <1>0, <3>2
      <4> QED
        BY <3>3, <4>1
    <3> QED
      BY <2>2, <3>4 DEF LastDecided
  <2>4. CASE r.verdict \notin {"json", "schema"}
    <3>1. pc'["main"] = "insert"
      BY <2>1, <2>4, GotoMoves, ThreadNames DEF BusRequest
    <3> QED
      BY <3>1 DEF LastDecided
  <2> QED
    BY <2>3, <2>4
<1>3. CASE InsertClient \/ ValidateAdapter \/ ValidateAddress
  BY <1>3, InsertMoves, ValidationMoves DEF LastDecided
<1>4. CASE PushCommand
  <2>1. /\ mCmdList'[Len(mCmdList) + 1] = cmd["main"]
        /\ Len(mCmdList') = Len(mCmdList) + 1 /\ UNCHANGED issued
    BY <1>4, PushMoves DEF busVars
  <2>2. cmd["main"].n = Len(issued)
    BY <1>4, PushMoves DEF Books, MainWorks
  <2>3. Len(mCmdList) + 1 \in 1..Len(mCmdList')
    BY <1>0, <2>1
  <2> QED
    BY <2>1, <2>2, <2>3 DEF LastDecided, Waits
<1>5. CASE EnqueueMessage \/ ConstructPush \/ ConstructEnqueue
  <2>1. UNCHANGED <<issued, replies, cmd>> /\ pc'["worker"] = pc["worker"]
    BY <1>5, EnqueueMoves, ConstructMoves, ThreadNames DEF busVars
  <2>2. pc'["main"] \in Rests => pc["main"] \in Rests
    BY <1>5, EnqueueMoves, ConstructMoves
  <2>3. \A i \in 1..Len(mCmdList) : i \in 1..Len(mCmdList') /\ mCmdList'[i] = mCmdList[i]
    BY <1>0, <1>5, EnqueueMoves, ConstructMoves
  <2> QED
    BY <1>1, <2>1, <2>2, <2>3 DEF Waits, Handing
<1>6. ASSUME UNCHANGED <<issued, replies, mCmdList, cmd>>, Handing => Handing',
             pc'["main"] = pc["main"]
      PROVE  LastDecided'
  BY <1>1, <1>6 DEF Waits
<1>7. CASE WorkerTake \/ WorkerAnswered \/ WorkerAccepted \/ NyxCallback \/ NyxForgets
  BY <1>6, <1>7, TakeMoves, AnsweredMoves, AcceptedMoves, NyxMoves, ForgetMoves,
     ThreadNames DEF busVars, Enters, Handing
<1>8. ASSUME NEW t \in CallbackThreads, TakeFront(t)
      PROVE  LastDecided'
  <2>1. /\ t = "worker" /\ pc["worker"] = "front" /\ UNCHANGED <<issued, replies>>
        /\ pc'["main"] = pc["main"]
    BY <1>8, FrontMoves, ThreadNames DEF FrontInHand, busVars
  <2>2. CASE Takes(t)
    <3>1. /\ Handing' /\ cmd'["worker"] = mCmdList[1]
          /\ Len(mCmdList') = Len(mCmdList) - 1
          /\ \A i \in 1..(Len(mCmdList) - 1) : mCmdList'[i] = mCmdList[i + 1]
      BY <2>1, <2>2 DEF Takes, Handing
    <3>2. ASSUME NEW k, Waits(k) PROVE Waits(k)'
      <4>1. PICK i \in 1..Len(mCmdList) : mCmdList[i].n = k
        BY <2>1, <3>2 DEF Waits, Handing
      <4>2. CASE i = 1
        BY <3>1, <4>1, <4>2 DEF Waits
      <4>3. CASE i # 1
        <5>1. i - 1 \in 1..(Len(mCmdList) - 1) /\ (i - 1) + 1 = i
          BY <1>0, <4>3
        <5> QED
          BY <3>1, <4>1, <5>1 DEF Waits
      <4> QED
        BY <4>2, <4>3
    <3> QED
      BY <1>1, <2>1, <3>2
  <2>3. CASE UNCHANGED <<mCmdList, cmd>>
    BY <1>6, <2>1, <2>3 DEF Handing
  <2> QED
    BY <1>8, <2>2, <2>3, FrontMoves
<1>9. ASSUME NEW t \in CallbackThreads,
             ClearAdapters(t) \/ PushAdapter(t) \/ RecordDevice(t)
      PROVE  LastDecided'
  BY <1>6, <1>9, ParseMoves, ThreadNames DEF busVars, Handing
<1>10. ASSUME NEW t \in Threads, Reply(t)
       PROVE  LastDecided'
  <2>1. /\ UNCHANGED <<issued, mCmdList, cmd>> /\ pc[t] = "reply"
        /\ \A u \in Threads \ {t} : pc'[u] = pc[u]
    BY <1>10, ReplyMoves DEF ReplyStep, Reply
  <2>2. t \in {"main", "worker"}
    BY <2>1, ThreadNames DEF FrontInHand
  <2>3. CASE cmd[t].n = 0
    <3>1. UNCHANGED replies
      BY <1>10, <2>3, RepliesToClient DEF Passes
    <3>2. t = "worker"
      <4> SUFFICES ASSUME t = "main" PROVE FALSE
        BY <2>2
      <4>1. cmd["main"].n = Len(issued) /\ issued # <<>> /\ issued \in Seq(IssuedRecord)
        BY <2>1, InvariantParts DEF Books, MainWorks, Parts, RegistryType, ThreadType
      <4>2. Len(issued) # 0
        BY <4>1, EmptySeq
      <4> QED
        BY <2>3, <4>1, <4>2
    <3>3. \A k : k # 0 /\ Waits(k) => Waits(k)'
      BY <2>1, <2>3, <3>2 DEF Waits
    <3> QED
      BY <2>1, <3>1, <3>2, <3>3, ThreadNames DEF LastDecided
  <2>4. CASE cmd[t].n # 0
    <3>1. /\ cmd[t].n \in 1..MaxRequests
          /\ replies'[cmd[t].n] = Append(replies[cmd[t].n], ReplyOf(t))
          /\ \A k \in 1..MaxRequests : k # cmd[t].n => replies'[k] = replies[k]
      BY <1>10, <2>4, RepliesToClient DEF Responds
    <3>2. replies'[cmd[t].n] # <<>>
      <4>1. replies[cmd[t].n] \in Seq(ReplyRecord)
        BY <1>0, <3>1
      <4> QED
        BY <3>1, <4>1
    <3>3. CASE t = "main"
      <4>1. cmd["main"].n = Len(issued)
        BY <2>1, <3>3 DEF Books, MainWorks
      <4> QED
        BY <2>1, <3>2, <3>3, <4>1 DEF LastDecided
    <3>4. CASE t = "worker"
      <4>1. \A k : Waits(k) => k = cmd[t].n \/ Waits(k)'
        BY <2>1, <3>4 DEF Waits
      <4>2. pc'["main"] = pc["main"]
        BY <2>1, <3>4, ThreadNames
      <4> QED
        BY <1>0, <2>1, <3>1, <3>2, <4>1, <4>2, SMTT(30) DEF LastDecided
    <3> QED
      BY <2>2, <3>3, <3>4
  <2> QED
    BY <2>3, <2>4
<1>11. ASSUME NEW t \in Threads, EraseClient(t)
       PROVE  LastDecided'
  <2>1. /\ UNCHANGED <<issued, replies, mCmdList, cmd>> /\ pc[t] = "erase" /\ pc'[t] = "idle"
        /\ \A u \in Threads \ {t} : pc'[u] = pc[u]
    BY <1>11, ReplyMoves DEF ReplyStep, EraseClient, busVars
  <2>2. Handing => Handing'
    BY <2>1, ThreadNames DEF Handing
  <2>3. pc'["main"] \in Rests => pc["main"] \in Rests
    BY <2>1, ThreadNames
  <2> QED
    BY <1>1, <2>1, <2>2, <2>3 DEF Waits
<1>12. CASE UNCHANGED vars
  BY <1>6, <1>12 DEF vars, busVars, Handing
<1> QED
  BY <1>2, <1>3, <1>4, <1>5, <1>7, <1>8, <1>9, <1>10, <1>11, <1>12, EachStep DEF ReplyStep

LEMMA InitLine == Init => StillRegistered /\ OwnAnswer /\ LastDecided
<1> SUFFICES ASSUME Init PROVE StillRegistered /\ OwnAnswer /\ LastDecided
  OBVIOUS
<1>1. /\ Len(issued) = 0 /\ Len(mCmdList) = 0
      /\ \A t \in Threads : pc[t] = "idle"
  BY EmptySeq DEF Init
<1> QED
  BY <1>1, ThreadNames DEF StillRegistered, OwnAnswer, LastDecided, Live, Working, Handing

LineInv ==
  /\ ServiceInv /\ Books /\ Ordered /\ Aligned /\ Registered
  /\ FrontInHand /\ StillRegistered /\ OwnAnswer /\ LastDecided

\* With a synchronous nyx and no race each command keeps its entry and gets its
\* own answer, and main decides each request before the next.
THEOREM LineInvariant ==
  ~NyxAsync /\ ~RacyMap /\ IdsSuffice => (SafeSpec => []LineInv)
<1> SUFFICES ASSUME ~NyxAsync, ~RacyMap, IdsSuffice PROVE SafeSpec => []LineInv
  OBVIOUS
<1>1. Init => FrontInHand /\ StillRegistered /\ OwnAnswer /\ LastDecided
  BY InitFrontInHand, InitLine
<1>2. LineInv /\ [Next]_vars => (FrontInHand /\ StillRegistered /\ OwnAnswer /\ LastDecided)'
  <2> SUFFICES ASSUME LineInv, [Next]_vars
               PROVE  (FrontInHand /\ StillRegistered /\ OwnAnswer /\ LastDecided)'
    OBVIOUS
  <2>1. FrontInHand'
    BY FrontInHandStep DEF LineInv
  <2>2. StillRegistered'
    BY StillRegisteredStep DEF LineInv
  <2>3. OwnAnswer'
    BY OwnAnswerStep DEF LineInv
  <2>4. LastDecided'
    BY LastDecidedStep DEF LineInv
  <2> QED
    BY <2>1, <2>2, <2>3, <2>4
<1> QED
  BY <1>1, <1>2, RegistryInvariant, AlignmentInvariant, PTL DEF SafeSpec, LineInv

-----------------------------------------------------------------------------
(* The line as a sequence.                                                 *)

\* A line with one more in front.
LEMMA ConsFacts ==
  ASSUME NEW u \in Seq(Nat), NEW n \in Nat
  PROVE  /\ <<n>> \o u \in Seq(Nat) /\ <<n>> \o u # <<>>
         /\ Len(<<n>> \o u) = Len(u) + 1
         /\ (<<n>> \o u)[1] = n /\ \A i \in 1..Len(u) : (<<n>> \o u)[i + 1] = u[i]
         /\ Head(<<n>> \o u) = n /\ Tail(<<n>> \o u) = u
<1> DEFINE s == <<n>> \o u
<1>0. <<n>> \in Seq(Nat) /\ Len(<<n>>) = 1 /\ <<n>>[1] = n
  OBVIOUS
<1>1. /\ s \in Seq(Nat) /\ Len(s) = 1 + Len(u) /\ Len(u) \in Nat
      /\ \A i \in 1..1 : s[i] = <<n>>[i]
      /\ \A i \in 1..Len(u) : s[1 + i] = u[i]
  BY <1>0, ConcatFacts, LenProperties
<1> HIDE DEF s
<1>2. s # <<>>
  BY <1>1, EmptySeq
<1>3. s[1] = n /\ \A i \in 1..Len(u) : s[i + 1] = u[i]
  BY <1>0, <1>1
<1>4. Head(s) = n
  BY <1>1, <1>2, <1>3, TailFacts
<1>5. Tail(s) = u
  <2>1. /\ Tail(s) \in Seq(Nat) /\ Len(Tail(s)) = Len(s) - 1
        /\ \A i \in 1..(Len(s) - 1) : Tail(s)[i] = s[i + 1]
    BY <1>1, <1>2, TailFacts
  <2>2. Len(Tail(s)) = Len(u)
    BY <1>1, <2>1
  <2>3. \A i \in 1..Len(u) : Tail(s)[i] = u[i]
    BY <1>1, <1>3, <2>1
  <2> QED
    BY <2>1, <2>2, <2>3, SeqEqual
<1> QED
  BY <1>1, <1>2, <1>3, <1>4, <1>5 DEF s

\* Leaving the constructor out keeps everyone else in line.
LEMMA OfClientsMembers ==
  ASSUME NEW s \in Seq(Nat), NEW k \in Nat, k # 0
  PROVE  /\ OfClients(s) \in Seq(Nat)
         /\ (\E i \in DOMAIN OfClients(s) : OfClients(s)[i] = k)
              <=> (\E i \in 1..Len(s) : s[i] = k)
<1>1. DOMAIN s = 1..Len(s) /\ Len(s) \in Nat
  BY LenProperties
<1>2. CASE s # <<>> /\ Head(s) = 0
  <2>1. /\ s[1] = 0 /\ Tail(s) \in Seq(Nat) /\ Len(Tail(s)) = Len(s) - 1
        /\ \A i \in 1..(Len(s) - 1) : Tail(s)[i] = s[i + 1]
    BY <1>2, TailFacts
  <2>2. OfClients(s) = Tail(s) /\ DOMAIN Tail(s) = 1..(Len(s) - 1)
    BY <1>2, <2>1, LenProperties DEF OfClients
  <2>3. ASSUME NEW i \in 1..(Len(s) - 1), Tail(s)[i] = k
        PROVE  \E j \in 1..Len(s) : s[j] = k
    <3>1. i + 1 \in 1..Len(s)
      BY <1>1
    <3> QED
      BY <2>1, <2>3, <3>1
  <2>4. ASSUME NEW i \in 1..Len(s), s[i] = k
        PROVE  \E j \in 1..(Len(s) - 1) : Tail(s)[j] = k
    <3>1. i # 1
      BY <2>1, <2>4
    <3>2. i - 1 \in 1..(Len(s) - 1) /\ (i - 1) + 1 = i
      BY <1>1, <3>1
    <3> QED
      BY <2>1, <2>4, <3>2
  <2> QED
    BY <2>1, <2>2, <2>3, <2>4
<1>3. CASE ~(s # <<>> /\ Head(s) = 0)
  BY <1>1, <1>3 DEF OfClients
<1> QED
  BY <1>2, <1>3

LEMMA OfClientsAppend ==
  ASSUME NEW s \in Seq(Nat), NEW k \in Nat, k # 0
  PROVE  OfClients(Append(s, k)) = Append(OfClients(s), k)
<1>1. /\ Append(s, k) # <<>>
      /\ Head(Append(s, k)) = IF s = <<>> THEN k ELSE Head(s)
      /\ Tail(Append(s, k)) = IF s = <<>> THEN <<>> ELSE Append(Tail(s), k)
  BY AppendProperties, HeadTailAppend, SMTT(30)
<1> QED
  BY <1>1 DEF OfClients

-----------------------------------------------------------------------------
(* The line of the service: what is in hand, then the command list.        *)

Hand == IF Handing THEN <<cmd["worker"].n>> ELSE <<>>
WholeLine == Hand \o NumbersIn(mCmdList)

WholeLineFacts ==
  /\ NumbersIn(mCmdList) \in Seq(Nat) /\ Len(NumbersIn(mCmdList)) = Len(mCmdList)
  /\ \A i \in 1..Len(mCmdList) : NumbersIn(mCmdList)[i] = mCmdList[i].n
  /\ WholeLine \in Seq(Nat)
  /\ Handing => WholeLine = <<cmd["worker"].n>> \o NumbersIn(mCmdList)
  /\ ~Handing => WholeLine = NumbersIn(mCmdList)

LEMMA WholeLineIs == ServiceInv => WholeLineFacts
<1> SUFFICES ASSUME ServiceInv PROVE WholeLineFacts
  OBVIOUS
<1>1. /\ mCmdList \in Seq(CommandRecord)
      /\ \A i \in 1..Len(mCmdList) : mCmdList[i].n \in Nat
      /\ cmd["worker"].n \in Nat
  BY InvariantParts, HeldTypes, ThreadNames DEF Parts, QueueType
<1>2. /\ NumbersIn(mCmdList) \in Seq(Nat) /\ Len(NumbersIn(mCmdList)) = Len(mCmdList)
      /\ \A i \in 1..Len(mCmdList) : NumbersIn(mCmdList)[i] = mCmdList[i].n
  BY <1>1, NumbersFacts
<1>3. CASE Handing
  BY <1>1, <1>2, <1>3, ConsFacts DEF WholeLineFacts, WholeLine, Hand
<1>4. CASE ~Handing
  BY <1>1, <1>2, <1>4, ConcatEmptySeq DEF WholeLineFacts, WholeLine, Hand
<1> QED
  BY <1>3, <1>4

LEMMA WholeLineNext == ServiceInv' => WholeLineFacts'
BY WholeLineIs, PTL

\* Those who wait are in it.
LEMMA WholeLineMembers ==
  ASSUME ServiceInv, NEW k
  PROVE  (\E i \in 1..Len(WholeLine) : WholeLine[i] = k) <=> Waits(k)
<1> DEFINE u == NumbersIn(mCmdList)
<1>0. /\ u \in Seq(Nat) /\ Len(u) = Len(mCmdList) /\ Len(u) \in Nat
      /\ \A i \in 1..Len(mCmdList) : u[i] = mCmdList[i].n
      /\ cmd["worker"].n \in Nat
  BY WholeLineIs, LenProperties, HeldTypes, ThreadNames DEF WholeLineFacts
<1> HIDE DEF u
<1>1. CASE ~Handing
  <2>1. WholeLine = u
    BY <1>1, WholeLineIs DEF WholeLineFacts, u
  <2> QED
    BY <1>0, <1>1, <2>1 DEF Waits
<1>2. CASE Handing
  <2> DEFINE s == <<cmd["worker"].n>> \o u
  <2>1. WholeLine = s
    BY <1>2, WholeLineIs DEF WholeLineFacts, u
  <2>2. /\ Len(s) = Len(u) + 1 /\ s[1] = cmd["worker"].n
        /\ \A i \in 1..Len(u) : s[i + 1] = u[i]
    BY <1>0, ConsFacts
  <2> HIDE DEF s
  <2>3. ASSUME NEW i \in 1..Len(s), s[i] = k PROVE Waits(k)
    <3>1. CASE i = 1
      BY <1>2, <2>2, <2>3, <3>1 DEF Waits
    <3>2. CASE i # 1
      <4>1. i - 1 \in 1..Len(u) /\ (i - 1) + 1 = i
        BY <1>0, <2>2, <3>2
      <4> QED
        BY <1>0, <2>2, <2>3, <4>1, ZenonT(30) DEF Waits
    <3> QED
      BY <3>1, <3>2
  <2>4. ASSUME NEW i \in 1..Len(mCmdList), mCmdList[i].n = k
        PROVE  \E j \in 1..Len(s) : s[j] = k
    <3>1. i + 1 \in 1..Len(s) /\ s[i + 1] = k
      BY <1>0, <2>2, <2>4
    <3> QED
      BY <3>1
  <2>5. cmd["worker"].n = k => \E j \in 1..Len(s) : s[j] = k
    <3>1. 1 \in 1..Len(s)
      BY <1>0, <2>2
    <3> QED
      BY <2>2, <3>1
  <2> QED
    BY <2>1, <2>3, <2>4, <2>5 DEF Waits
<1> QED
  BY <1>1, <1>2

\* It is the line of clients that InOrder says, from any state of the service.
LEMMA ClientLineIs == LineInv => ClientLine = OfClients(WholeLine)
<1> SUFFICES ASSUME LineInv PROVE ClientLine = OfClients(WholeLine)
  OBVIOUS
<1> USE DEF LineInv
<1> DEFINE l == NumbersIn(mCmdList)
           q == NumbersIn(mQueue)
           b == BeingEnqueued
           f == cmd["worker"].n
<1>0. l \in Seq(Nat) /\ f \in Nat
  BY WholeLineIs, HeldTypes, ThreadNames DEF WholeLineFacts
<1>1. q \in Seq(Nat) /\ b \in Seq(Nat)
  <2>1. mQueue \in Seq(MessageRecord) /\ cmd["main"].n \in Nat
        /\ \A i \in 1..Len(mQueue) : mQueue[i].n \in Nat
    BY InvariantParts, HeldTypes, ThreadNames DEF Parts, QueueType
  <2> QED
    BY <2>1, NumbersFacts DEF BeingEnqueued
<1>2. l = (Held \o q) \o b
  BY FrontInHandOrders DEF InOrder
<1> HIDE DEF l, q, b, f
<1>3. CASE ~Handing
  <2>1. InService = Held
    BY <1>3 DEF InService, Handing
  <2>2. WholeLine = l
    BY <1>3, WholeLineIs DEF WholeLineFacts, l
  <2> QED
    BY <1>2, <2>1, <2>2 DEF ClientLine, q, b
<1>4. CASE Handing
  <2>1. InService = <<f>>
    BY <1>4 DEF InService, Handing, f
  <2>2. sending = <<>>
    <3>1. Len(sending) = 0 /\ sending \in Seq(MessageRecord)
      BY <1>4, InvariantParts DEF Handing, Aligned, OneInHand, Parts, QueueType
    <3> QED
      BY <3>1, EmptySeq
  <2>3. Held = <<>>
    BY <1>4, <2>2 DEF Held, Handing
  <2>4. l = q \o b
    BY <1>1, <1>2, <2>3, ConcatEmptySeq
  <2>5. <<f>> \in Seq(Nat)
    BY <1>0
  <2>6. (<<f>> \o q) \o b = <<f>> \o l
    BY <1>1, <2>4, <2>5, ConcatAssociative
  <2>7. WholeLine = <<f>> \o l
    BY <1>4, WholeLineIs DEF WholeLineFacts, l, f
  <2> QED
    BY <2>1, <2>6, <2>7 DEF ClientLine, q, b
<1> QED
  BY <1>3, <1>4

LEMMA ClientLineNext == LineInv' => (ClientLine = OfClients(WholeLine))'
BY ClientLineIs, PTL

-----------------------------------------------------------------------------
(* The steps of the line.                                                  *)

LEMMA OutcomesAre ==
  ASSUME NEW k \in 1..MaxRequests
  PROVE  Outcomes[k] = "none" <=> replies[k] = <<>>
<1>1. Outcomes[k] = Outcome(k)
  BY DEF Outcomes
<1> QED
  BY <1>1 DEF Outcome

\* Whether a request is decided shows in the line and the replies.
LEMMA DecidedIs ==
  ASSUME LineInv, NEW k \in 1..MaxRequests
  PROVE  Line!Decided(k) <=> replies[k] # <<>> \/ Waits(k)
<1>1. ServiceInv /\ MaxRequests \in Nat
  BY HeldTypes DEF LineInv
<1>2. WholeLine \in Seq(Nat) /\ k \in Nat /\ k # 0
  BY <1>1, WholeLineIs DEF WholeLineFacts
<1>3. (\E i \in DOMAIN ClientLine : ClientLine[i] = k) <=> Waits(k)
  <2>1. (\E i \in DOMAIN OfClients(WholeLine) : OfClients(WholeLine)[i] = k)
          <=> (\E i \in 1..Len(WholeLine) : WholeLine[i] = k)
    BY <1>2, OfClientsMembers
  <2>2. (\E i \in 1..Len(WholeLine) : WholeLine[i] = k) <=> Waits(k)
    BY <1>1, WholeLineMembers
  <2> QED
    BY <2>1, <2>2, ClientLineIs
<1>4. Outcomes[k] # "none" <=> replies[k] # <<>>
  BY OutcomesAre
<1> QED
  BY <1>3, <1>4 DEF Line!Decided

\* Nothing of the line moves unless these do.
LEMMA LineStutters ==
  ASSUME LineInv, LineInv', UNCHANGED replies, Len(issued') = Len(issued),
         OfClients(WholeLine)' = OfClients(WholeLine)
  PROVE  UNCHANGED Line!vars
<1>1. ClientLine' = ClientLine
  BY ClientLineIs, ClientLineNext
<1>2. Outcomes' = Outcomes
  BY DEF Outcomes, Outcome
<1> QED
  BY <1>1, <1>2 DEF Line!vars

\* One reply changes one outcome.
LEMMA OneOutcome ==
  ASSUME NEW k \in 1..MaxRequests, NEW e, replies[k] = <<>>,
         replies \in [1..MaxRequests -> Seq(ReplyRecord)],
         replies'[k] = Append(replies[k], e),
         \A j \in 1..MaxRequests : j # k => replies'[j] = replies[j]
  PROVE  Outcomes' = [Outcomes EXCEPT ![k] =
            IF ~e.ok THEN "refused" ELSE IF e.of = k THEN "served"
            ELSE "answer of another"]
<1>1. replies'[k] = <<e>>
  OBVIOUS
<1>2. Outcome(k)' = IF ~e.ok THEN "refused" ELSE IF e.of = k THEN "served"
                    ELSE "answer of another"
  BY <1>1 DEF Outcome
<1>3. \A j \in 1..MaxRequests : j # k => Outcome(j)' = Outcome(j)
  BY DEF Outcome
<1> QED
  BY <1>2, <1>3 DEF Outcomes

\* A client asks.
LEMMA BusAsks ==
  ASSUME LineInv, LineInv', NEW r \in Requests, BusRequest(r)
  PROVE  Line!Ask
<1> USE DEF LineInv
<1>0. /\ Len(issued) \in Nat /\ MaxRequests \in Nat
      /\ replies \in [1..MaxRequests -> Seq(ReplyRecord)]
  BY IdTypes, HeldTypes
<1>1. /\ pc["main"] = "idle" /\ Len(issued') = Len(issued) + 1
      /\ Len(issued) < MaxRequests /\ UNCHANGED <<mCmdList, cmd>>
      /\ \A t \in CallbackThreads : pc'[t] = pc[t]
  BY BusMoves
<1>2. Len(issued) > 0 => Line!Decided(Len(issued))
  <2> SUFFICES ASSUME Len(issued) > 0 PROVE Line!Decided(Len(issued))
    OBVIOUS
  <2>1. Len(issued) \in 1..MaxRequests /\ Len(issued) # 0
    BY <1>0, <1>1
  <2> QED
    BY <1>1, <2>1, DecidedIs DEF LastDecided
<1>3. ClientLine' = ClientLine
  <2>1. WholeLine' = WholeLine
    BY <1>1, ThreadNames DEF WholeLine, Hand, Handing, NumbersIn
  <2> QED
    BY <2>1, ClientLineIs, ClientLineNext
<1>4. Outcomes' \in {Outcomes, [Outcomes EXCEPT ![Len(issued) + 1] = "refused"]}
  <2>1. CASE UNCHANGED replies
    BY <2>1 DEF Outcomes, Outcome
  <2>2. CASE r.verdict \in {"json", "schema"}
    <3>1. PICK code :
            replies' = [replies EXCEPT ![Len(issued) + 1] = Append(@, Refused(code))]
      BY <2>2 DEF BusRequest
    <3>2. Len(issued) + 1 \in 1..MaxRequests
      BY <1>0, <1>1
    <3>3. /\ replies'[Len(issued) + 1] = Append(replies[Len(issued) + 1], Refused(code))
          /\ \A j \in 1..MaxRequests : j # Len(issued) + 1 => replies'[j] = replies[j]
      BY <1>0, <3>1, <3>2
    <3>4. replies[Len(issued) + 1] = <<>>
      BY <1>0, <3>2 DEF Registered, Fresh
    <3>5. ~Refused(code).ok
      BY DEF Refused
    <3> QED
      BY <1>0, <3>2, <3>3, <3>4, <3>5, OneOutcome
  <2> QED
    BY <2>1, <2>2 DEF BusRequest
<1> QED
  BY <1>1, <1>2, <1>3, <1>4 DEF Line!Ask

\* A command that is appended joins the line,
LEMMA PushJoins ==
  ASSUME LineInv, LineInv', PushCommand
  PROVE  Line!Join
<1> USE DEF LineInv
<1> DEFINE u == NumbersIn(mCmdList)
           v == NumbersIn(mCmdList')
           n == Len(issued)
<1>0. /\ n \in Nat /\ MaxRequests \in Nat /\ n <= MaxRequests
      /\ Len(mCmdList) \in Nat
      /\ u \in Seq(Nat) /\ Len(u) = Len(mCmdList)
      /\ \A i \in 1..Len(mCmdList) : u[i] = mCmdList[i].n
  BY HeldTypes, WholeLineIs DEF WholeLineFacts
<1>1. /\ pc["main"] = "push" /\ UNCHANGED <<issued, replies, cmd>>
      /\ pc'["worker"] = pc["worker"]
      /\ Len(mCmdList') = Len(mCmdList) + 1
      /\ \A i \in 1..Len(mCmdList) : mCmdList'[i] = mCmdList[i]
      /\ mCmdList'[Len(mCmdList) + 1].n = cmd["main"].n
  BY PushMoves, ThreadNames DEF busVars
<1>2. cmd["main"].n = n /\ n \in 1..MaxRequests
  <2>1. cmd["main"].n = n /\ issued # <<>> /\ issued \in Seq(IssuedRecord)
    BY <1>1, InvariantParts DEF Books, MainWorks, Parts, RegistryType, ThreadType
  <2>2. n # 0
    BY <2>1, EmptySeq
  <2> QED
    BY <1>0, <2>1, <2>2
<1>3. ~Line!Decided(n)
  <2>1. replies[n] = <<>>
    BY <1>0, <1>1, <1>2, ThreadNames DEF Registered, Unreplied, Working
  <2>2. ~Waits(n)
    BY <1>0, <1>1, HeldTypes, ThreadNames, SMTT(30)
       DEF Waits, Ordered, MainIsYoungest, Handing, Working
  <2> QED
    BY <1>2, <2>1, <2>2, DecidedIs
<1>4. v = Append(u, n)
  <2>1. /\ v \in Seq(Nat) /\ Len(v) = Len(mCmdList')
        /\ \A i \in 1..Len(mCmdList') : v[i] = mCmdList'[i].n
    BY WholeLineNext DEF WholeLineFacts
  <2> HIDE DEF u, v, n
  <2>2. /\ Append(u, n) \in Seq(Nat) /\ Len(Append(u, n)) = Len(u) + 1
        /\ \A i \in 1..Len(u) : Append(u, n)[i] = u[i]
        /\ Append(u, n)[Len(u) + 1] = n
    BY <1>0, AppendFacts
  <2>3. ASSUME NEW i \in 1..Len(v) PROVE v[i] = Append(u, n)[i]
    <3>1. i \in 1..Len(mCmdList) \/ i = Len(mCmdList) + 1
      BY <1>0, <1>1, <2>1
    <3> QED
      BY <1>0, <1>1, <1>2, <2>1, <2>2, <3>1
  <2> QED
    BY <1>0, <1>1, <2>1, <2>2, <2>3, SeqEqual
<1>5. WholeLine' = Append(WholeLine, n)
  <2>1. (Handing' <=> Handing) /\ cmd' = cmd
    BY <1>1 DEF Handing
  <2>2. CASE ~Handing
    BY <1>4, <2>1, <2>2, WholeLineIs, WholeLineNext DEF WholeLineFacts
  <2>3. CASE Handing
    <3> DEFINE f == <<cmd["worker"].n>>
    <3>1. f \in Seq(Nat) /\ <<n>> \in Seq(Nat)
      BY <1>0, HeldTypes, ThreadNames
    <3>2. WholeLine = f \o u /\ WholeLine' = f \o v
      BY <2>1, <2>3, WholeLineIs, WholeLineNext DEF WholeLineFacts
    <3> HIDE DEF u, v, n, f
    <3>3. v = u \o <<n>>
      BY <1>0, <1>4, AppendIsConcat
    <3>4. f \o v = (f \o u) \o <<n>>
      BY <1>0, <3>1, <3>3, ConcatAssociative
    <3>5. f \o u \in Seq(Nat)
      BY <1>0, <3>1, ConcatProperties
    <3>6. (f \o u) \o <<n>> = Append(f \o u, n)
      BY <1>0, <3>5, AppendIsConcat
    <3> QED
      BY <3>2, <3>4, <3>6
  <2> QED
    BY <2>2, <2>3
<1>6. ClientLine' = Append(ClientLine, n)
  <2>1. WholeLine \in Seq(Nat) /\ n # 0
    BY <1>2, WholeLineIs DEF WholeLineFacts
  <2>2. OfClients(Append(WholeLine, n)) = Append(OfClients(WholeLine), n)
    BY <1>0, <2>1, OfClientsAppend
  <2>3. ClientLine' = OfClients(WholeLine')
    BY ClientLineNext
  <2> QED
    BY <1>5, <2>2, <2>3, ClientLineIs
<1>7. Outcomes' = Outcomes
  BY <1>1 DEF Outcomes, Outcome
<1> QED
  BY <1>0, <1>1, <1>2, <1>3, <1>6, <1>7 DEF Line!Join

\* and a request that main replies for is refused.
LEMMA MainRefuses ==
  ASSUME LineInv, LineInv', Reply("main"), ~RacyMap
  PROVE  Line!Refuse
<1> USE DEF LineInv
<1> DEFINE n == Len(issued)
<1>0. /\ n \in Nat /\ MaxRequests \in Nat
      /\ replies \in [1..MaxRequests -> Seq(ReplyRecord)]
  BY IdTypes, HeldTypes
<1>1. /\ UNCHANGED <<issued, mCmdList, cmd>> /\ pc["main"] = "reply"
      /\ pc'["worker"] = pc["worker"]
  BY ReplyMoves, ThreadNames DEF ReplyStep, Reply
<1>2. cmd["main"].n = n /\ n # 0
  <2>1. cmd["main"].n = n /\ issued # <<>> /\ issued \in Seq(IssuedRecord)
    BY <1>1, InvariantParts DEF Books, MainWorks, Parts, RegistryType, ThreadType
  <2> QED
    BY <2>1, EmptySeq
<1>3. /\ n \in 1..MaxRequests
      /\ replies'[n] = Append(replies[n], Refused(refusal))
      /\ \A k \in 1..MaxRequests : k # n => replies'[k] = replies[k]
  BY <1>2, RepliesToClient, ThreadNames DEF Responds, ReplyOf
<1>4. replies[n] = <<>>
  BY <1>1, <1>2, ThreadNames DEF Registered, Unreplied, Working
<1>5. ~Line!Decided(n)
  <2>1. ~Waits(n)
    BY <1>0, <1>1, HeldTypes, ThreadNames
       DEF Waits, Ordered, MainIsYoungest, Handing, Working
  <2> QED
    BY <1>3, <1>4, <2>1, DecidedIs
<1>6. Outcomes' = [Outcomes EXCEPT ![n] = "refused"]
  <2>1. ~Refused(refusal).ok
    BY DEF Refused
  <2> QED
    BY <1>0, <1>3, <1>4, <2>1, OneOutcome
<1>7. ClientLine' = ClientLine
  <2>1. WholeLine' = WholeLine
    BY <1>1 DEF WholeLine, Hand, Handing, NumbersIn
  <2> QED
    BY <2>1, ClientLineIs, ClientLineNext
<1> QED
  BY <1>0, <1>1, <1>2, <1>5, <1>6, <1>7 DEF Line!Refuse

\* The line is that of mCmdList and what is in hand, whatever else moves.
LEMMA SameWholeLine ==
  ASSUME UNCHANGED mCmdList, Handing' <=> Handing,
         cmd'["worker"].n = cmd["worker"].n
  PROVE  WholeLine' = WholeLine
BY DEF WholeLine, Hand, NumbersIn

\* The dispatch thread takes the front of the line in its hand, without fail:
\* with a synchronous nyx it is the command whose type the callback has.
LEMMA FrontGoesInHand ==
  ASSUME LineInv, LineInv', NEW t \in CallbackThreads, TakeFront(t)
  PROVE  WholeLine' = WholeLine /\ UNCHANGED <<issued, replies>>
<1> USE DEF LineInv
<1> DEFINE u == NumbersIn(mCmdList)
           v == NumbersIn(mCmdList')
           f == mCmdList[1].n
<1>1. /\ pc[t] = "front" /\ Len(mCmdList) >= 1 /\ UNCHANGED <<issued, replies>>
      /\ Takes(t) \/ mCmdList[1].type # handler[t]
  BY FrontMoves DEF busVars
<1>2. t = "worker" /\ pc["worker"] = "front"
  BY <1>1, ThreadNames DEF FrontInHand
<1>3. Sent = 1
  <2>1. Len(sending) = 0 /\ AtFront("worker") = 1
    BY <1>2 DEF Aligned, OneInHand, AtFront
  <2> QED
    BY <2>1 DEF FrontInHand
<1>4. Takes("worker")
  BY <1>1, <1>2, <1>3 DEF Aligned, TypeAligned
<1>5. /\ Len(mCmdList') = Len(mCmdList) - 1
      /\ \A i \in 1..(Len(mCmdList) - 1) : mCmdList'[i] = mCmdList[i + 1]
      /\ cmd'["worker"] = mCmdList[1] /\ Handing' /\ ~Handing
  BY <1>2, <1>4 DEF Takes, Handing
<1>6. /\ u \in Seq(Nat) /\ Len(u) = Len(mCmdList) /\ Len(mCmdList) \in Nat
      /\ \A i \in 1..Len(mCmdList) : u[i] = mCmdList[i].n
      /\ WholeLine = u
  BY <1>5, WholeLineIs, HeldTypes DEF WholeLineFacts
<1>7. /\ v \in Seq(Nat) /\ Len(v) = Len(mCmdList')
      /\ \A i \in 1..Len(mCmdList') : v[i] = mCmdList'[i].n
      /\ WholeLine' = <<f>> \o v
  BY <1>5, WholeLineNext DEF WholeLineFacts
<1>8. f \in Nat
  BY <1>1, HeldTypes
<1> HIDE DEF u, v, f
<1>9. /\ <<f>> \o v \in Seq(Nat) /\ Len(<<f>> \o v) = Len(v) + 1
      /\ (<<f>> \o v)[1] = f /\ \A i \in 1..Len(v) : (<<f>> \o v)[i + 1] = v[i]
  BY <1>7, <1>8, ConsFacts
<1> DEFINE w == <<f>> \o v
<1>10. ASSUME NEW i \in 1..Len(u) PROVE u[i] = w[i]
  <2>1. CASE i = 1
    BY <1>6, <1>9, <2>1 DEF f
  <2>2. CASE i # 1
    <3>1. i - 1 \in 1..Len(v) /\ i - 1 \in 1..(Len(mCmdList) - 1) /\ (i - 1) + 1 = i
      BY <1>5, <1>6, <1>7, <2>2
    <3>2. w[i] = v[i - 1] /\ v[i - 1] = mCmdList'[i - 1].n
      BY <1>5, <1>7, <1>9, <3>1
    <3>3. mCmdList'[i - 1] = mCmdList[i]
      BY <1>5, <3>1
    <3> QED
      BY <1>6, <3>2, <3>3
  <2> QED
    BY <2>1, <2>2
<1>11. u = w
  <2>1. Len(u) = Len(w)
    BY <1>5, <1>6, <1>7, <1>9
  <2> HIDE DEF w
  <2> QED
    BY <1>6, <1>9, <1>10, <2>1, SeqEqual DEF w
<1> QED
  BY <1>1, <1>6, <1>7, <1>11

\* The client at the front is served, with his own answer; the constructor was
\* not in the line of clients.
LEMMA ServiceReplies ==
  ASSUME LineInv, LineInv', Reply("worker"), ~RacyMap
  PROVE  Line!Serve \/ UNCHANGED Line!vars
<1> USE DEF LineInv
<1> DEFINE u == NumbersIn(mCmdList)
           n == cmd["worker"].n
<1>1. /\ UNCHANGED <<issued, mCmdList, cmd>> /\ pc["worker"] = "reply"
      /\ pc'["worker"] \in {"erase", "idle"}
  BY ReplyMoves, ThreadNames DEF ReplyStep, Reply
<1>2. Handing /\ ~Handing'
  BY <1>1 DEF Handing
<1>3. /\ u \in Seq(Nat) /\ Len(u) = Len(mCmdList) /\ n \in Nat
      /\ \A i \in 1..Len(mCmdList) : u[i] = mCmdList[i].n
      /\ WholeLine = <<n>> \o u
  BY <1>2, WholeLineIs, HeldTypes, ThreadNames DEF WholeLineFacts
<1>4. WholeLine' = u
  BY <1>1, <1>2, WholeLineNext DEF WholeLineFacts, NumbersIn
<1>5. \A i \in 1..Len(mCmdList) : n < mCmdList[i].n
  BY <1>1, ThreadNames DEF Ordered, TakenAreOlder, Working
<1>6. /\ <<n>> \o u # <<>> /\ Head(<<n>> \o u) = n /\ Tail(<<n>> \o u) = u
  BY <1>3, ConsFacts
<1>7. OfClients(u) = u
  <2>1. CASE u = <<>>
    BY <2>1 DEF OfClients
  <2>2. CASE u # <<>>
    <3>1. Head(u) = u[1] /\ 1 \in 1..Len(u)
      <4>1. Len(u) \in Nat /\ Len(u) # 0
        BY <1>3, <2>2, EmptySeq, LenProperties
      <4>2. Head(u) = u[1]
        BY <1>3, <2>2, TailFacts
      <4> QED
        BY <4>1, <4>2
    <3>2. mCmdList[1].n \in Nat /\ n < mCmdList[1].n /\ u[1] = mCmdList[1].n
      BY <1>3, <1>5, <3>1, HeldTypes
    <3>3. Head(u) # 0
      BY <1>3, <3>1, <3>2
    <3> QED
      BY <3>3 DEF OfClients
  <2> QED
    BY <2>1, <2>2
<1>8. ClientLine' = u
  BY <1>4, <1>7, ClientLineNext
<1> HIDE DEF u
<1>9. CASE n = 0
  <2>1. ClientLine = u
    BY <1>3, <1>6, <1>9, ClientLineIs DEF OfClients
  <2>2. UNCHANGED replies
    BY <1>9, RepliesToClient, ThreadNames DEF Passes
  <2>3. Outcomes' = Outcomes
    BY <2>2 DEF Outcomes, Outcome
  <2> QED
    BY <1>1, <1>8, <2>1, <2>3 DEF Line!vars
<1>10. CASE n # 0
  <2>1. ClientLine = <<n>> \o u
    BY <1>3, <1>6, <1>10, ClientLineIs DEF OfClients
  <2>2. /\ n \in 1..MaxRequests
        /\ replies'[n] = Append(replies[n], ReplyOf("worker"))
        /\ \A k \in 1..MaxRequests : k # n => replies'[k] = replies[k]
    BY <1>10, RepliesToClient, ThreadNames DEF Responds
  <2>3. replies[n] = <<>> /\ replies \in [1..MaxRequests -> Seq(ReplyRecord)]
    BY <1>1, <1>10, IdTypes, ThreadNames DEF Registered, Unreplied, Working
  <2>4. ReplyOf("worker").ok /\ ReplyOf("worker").of = n
    BY <1>2 DEF ReplyOf, OwnAnswer
  <2>5. Outcomes' = [Outcomes EXCEPT ![n] = "served"]
    BY <2>2, <2>3, <2>4, OneOutcome
  <2>6. ClientLine # <<>> /\ Head(ClientLine) = n /\ Tail(ClientLine) = u
    BY <1>6, <2>1
  <2> QED
    BY <1>1, <1>8, <2>5, <2>6 DEF Line!Serve
<1> QED
  BY <1>9, <1>10

\* The constructor's command is appended to an empty list.
LEMMA ConstructorUnseen ==
  ASSUME LineInv, LineInv', ConstructPush
  PROVE  OfClients(WholeLine)' = OfClients(WholeLine)
<1> USE DEF LineInv
<1> DEFINE v == NumbersIn(mCmdList')
<1>1. /\ init = "push" /\ UNCHANGED <<pc, cmd>>
      /\ Len(mCmdList') = Len(mCmdList) + 1
      /\ mCmdList'[Len(mCmdList) + 1] = ConstructorCmd
  BY ConstructMoves
<1>2. Len(mCmdList) = 0 /\ pc["worker"] = "idle"
  BY <1>1, ThreadNames DEF Books, Starting
<1>3. ~Handing /\ ~Handing'
  BY <1>1, <1>2 DEF Handing
<1>4. WholeLine = <<>>
  <2>1. WholeLine \in Seq(Nat) /\ Len(WholeLine) = 0
    BY <1>2, <1>3, WholeLineIs DEF WholeLineFacts
  <2> QED
    BY <2>1, EmptySeq
<1>5. v \in Seq(Nat) /\ Len(v) = 1 /\ v[1] = 0 /\ WholeLine' = v
  <2>1. /\ v \in Seq(Nat) /\ Len(v) = Len(mCmdList') /\ WholeLine' = v
        /\ \A i \in 1..Len(mCmdList') : v[i] = mCmdList'[i].n
    BY <1>3, WholeLineNext DEF WholeLineFacts
  <2>2. Len(mCmdList') = 1 /\ mCmdList'[1].n = 0
    BY <1>1, <1>2 DEF ConstructorCmd
  <2> QED
    BY <2>1, <2>2
<1> HIDE DEF v
<1>6. v # <<>> /\ Head(v) = 0 /\ Tail(v) = <<>>
  <2>1. v # <<>>
    BY <1>5, EmptySeq
  <2>2. Head(v) = v[1] /\ Tail(v) \in Seq(Nat) /\ Len(Tail(v)) = Len(v) - 1
    BY <1>5, <2>1, TailFacts
  <2>3. Len(Tail(v)) = 0
    BY <1>5, <2>2
  <2> QED
    BY <1>5, <2>1, <2>2, <2>3, EmptySeq
<1>7. OfClients(<<>>) = <<>> /\ OfClients(v) = <<>>
  BY <1>6 DEF OfClients
<1>8. OfClients(WholeLine)' = OfClients(WholeLine')
  BY DEF OfClients
<1> QED
  BY <1>4, <1>5, <1>7, <1>8

\* Every step of the service is one of the line, or none.
LEMMA LineStep ==
  ASSUME LineInv, LineInv', [Next]_vars, ~NyxAsync, ~RacyMap
  PROVE  [Line!Next]_(Line!vars)
<1> USE DEF LineInv
<1>1. ASSUME UNCHANGED <<mCmdList, replies, issued>>, Handing' <=> Handing,
             cmd'["worker"].n = cmd["worker"].n
      PROVE  UNCHANGED Line!vars
  <2>1. WholeLine' = WholeLine
    BY <1>1, SameWholeLine
  <2>2. OfClients(WholeLine)' = OfClients(WholeLine)
    BY <2>1 DEF OfClients
  <2> QED
    BY <1>1, <2>2, LineStutters
<1>2. CASE \E r \in Requests : BusRequest(r)
  BY <1>2, BusAsks DEF Line!Next
<1>3. CASE PushCommand
  BY <1>3, PushJoins DEF Line!Next
<1>4. CASE InsertClient \/ ValidateAdapter \/ ValidateAddress \/ EnqueueMessage
  <2>1. /\ UNCHANGED <<mCmdList, replies, issued>> /\ pc'["worker"] = pc["worker"]
        /\ cmd'["worker"].n = cmd["worker"].n
    BY <1>4, InsertMoves, ValidationMoves, EnqueueMoves, ThreadNames DEF busVars
  <2> QED
    BY <1>1, <2>1 DEF Handing
<1>5. CASE ConstructPush
  <2>1. UNCHANGED <<replies, issued>>
    BY <1>5, ConstructMoves DEF busVars
  <2> QED
    BY <1>5, <2>1, ConstructorUnseen, LineStutters
<1>6. CASE ConstructEnqueue \/ WorkerTake \/ NyxForgets
  <2>1. UNCHANGED <<mCmdList, replies, issued, pc, cmd>>
    BY <1>6, ConstructMoves, TakeMoves, ForgetMoves DEF busVars
  <2> QED
    BY <1>1, <2>1 DEF Handing
<1>7. CASE WorkerAnswered
  <2>1. /\ UNCHANGED <<mCmdList, replies, issued, cmd>>
        /\ pc["worker"] = "idle" /\ pc'["worker"] = "front"
    BY <1>7, AnsweredMoves DEF busVars, Enters
  <2> QED
    BY <1>1, <2>1 DEF Handing
<1>8. CASE WorkerAccepted
  BY <1>8 DEF WorkerAccepted
<1>9. CASE NyxCallback
  <2>1. /\ UNCHANGED <<mCmdList, replies, issued, cmd>> /\ pc'["worker"] = pc["worker"]
    BY <1>9, NyxMoves, ThreadNames DEF busVars, Enters
  <2> QED
    BY <1>1, <2>1 DEF Handing
<1>10. ASSUME NEW t \in CallbackThreads, TakeFront(t)
       PROVE  UNCHANGED Line!vars
  <2>1. WholeLine' = WholeLine /\ UNCHANGED <<issued, replies>>
    BY <1>10, FrontGoesInHand
  <2>2. OfClients(WholeLine)' = OfClients(WholeLine)
    BY <2>1 DEF OfClients
  <2> QED
    BY <2>1, <2>2, LineStutters
<1>11. ASSUME NEW t \in CallbackThreads,
              ClearAdapters(t) \/ PushAdapter(t) \/ RecordDevice(t)
       PROVE  UNCHANGED Line!vars
  <2>1. UNCHANGED <<mCmdList, replies, issued, cmd>> /\ (Handing' <=> Handing)
    BY <1>11, ParseMoves, ThreadNames DEF busVars, Handing
  <2> QED
    BY <1>1, <2>1
<1>12. ASSUME NEW t \in Threads, Reply(t)
       PROVE  [Line!Next]_(Line!vars)
  <2>1. t \in {"main", "worker"}
    BY <1>12, ThreadNames DEF FrontInHand, Reply
  <2> QED
    BY <1>12, <2>1, MainRefuses, ServiceReplies DEF Line!Next
<1>13. ASSUME NEW t \in Threads, EraseClient(t)
       PROVE  UNCHANGED Line!vars
  <2>1. /\ UNCHANGED <<issued, replies, mCmdList, cmd>>
        /\ pc[t] = "erase" /\ pc'[t] = "idle"
        /\ \A x \in Threads \ {t} : pc'[x] = pc[x]
    BY <1>13, ReplyMoves DEF ReplyStep, EraseClient, busVars
  <2>2. Handing' <=> Handing
    BY <2>1, ThreadNames DEF Handing
  <2> QED
    BY <1>1, <2>1, <2>2
<1>14. CASE UNCHANGED vars
  BY <1>1, <1>14 DEF vars, busVars, Handing
<1> QED
  BY <1>2, <1>3, <1>4, <1>5, <1>6, <1>7, <1>8, <1>9, <1>10, <1>11, <1>12, <1>13,
     <1>14, EachStep DEF ReplyStep

LEMMA LineStarts == Init => Line!Init
<1> SUFFICES ASSUME Init PROVE Line!Init
  OBVIOUS
<1>1. /\ Len(issued) = 0 /\ NumbersIn(mQueue) = <<>> /\ InService = <<>>
      /\ BeingEnqueued = <<>>
  BY DEF Init, NumbersIn, InService, Held, BeingEnqueued, Threads, CallbackThreads
<1>2. ClientLine = <<>>
  BY <1>1 DEF ClientLine, OfClients
<1>3. Outcomes = [k \in 1..MaxRequests |-> "none"]
  BY DEF Init, Outcomes, Outcome
<1> QED
  BY <1>1, <1>2, <1>3 DEF Line!Init

\* With a synchronous nyx, no race on m_clients and ids that do not come round
\* to a request under way, the service is the line of module RequestLine: it
\* decides the requests in the order they arrive, serves the accepted ones
\* strictly in that order, each with its own answer, once.  This is the safety
\* part of ImplementsLine, for every value of the constants.
THEOREM ServiceImplementsLine ==
  ~NyxAsync /\ ~RacyMap /\ IdsSuffice => (SafeSpec => Line!SafeSpec)
<1> SUFFICES ASSUME ~NyxAsync, ~RacyMap, IdsSuffice PROVE SafeSpec => Line!SafeSpec
  OBVIOUS
<1>1. LineInv /\ LineInv' /\ [Next]_vars => [Line!Next]_(Line!vars)
  BY LineStep
<1> QED
  BY <1>1, LineStarts, LineInvariant, PTL DEF SafeSpec, Line!SafeSpec
=============================================================================
