----------------------------- MODULE CecService -----------------------------
(***************************************************************************)
(* The path of a request through the service: CecLunaService registers the *)
(* client and builds a Command, DefaultCecHandler validates it, appends it *)
(* to mCmdList and hands a message to MessageQueue, the dispatch thread    *)
(* passes the message to nyx, and the answer of nyx comes back to a static *)
(* callback that takes the FRONT of mCmdList for the command answered.     *)
(*                                                                         *)
(* Three threads run it: "main" (the bus), "worker" (dispatchMessage) and  *)
(* "nyx" (response_cb), besides the thread of std::async that runs the     *)
(* constructor of DefaultCecHandler.  mQueue is the FIFO channel of module *)
(* MessageChannel, which MessageQueue is shown to implement.  LGTVCec-     *)
(* Handler only reads the device list and declines, so it takes no step.   *)
(***************************************************************************)
EXTENDS Naturals, Sequences, SequencesExt

CONSTANTS
  Adapters,     \* com ports that a listing may report
  Addresses,    \* logical addresses that a scan may report
  Requests,     \* the requests that clients may send
  Answers,      \* what nyx may answer to a command of each type
  MaxRequests,  \* bound: requests sent in a behaviour
  Window,       \* bound: request n waits until n - Window is settled
  IdMod,        \* values of uint16_t m_clientId, 2^16 in the code
  NyxAsync,     \* may nyx call response_cb later, on its own thread?
  NyxLossy,     \* may nyx accept a command and never call back for it?
  RacyMap       \* may overlapping accesses of m_clients go wrong?

SendTypes == {"LIST_ADAPTERS", "SCAN", "SEND_COMMAND"}
Types == SendTypes \cup {"GET_CONFIG", "SET_CONFIG"}

\* What a request deserves apart from its adapter and its destination; the
\* rules are the operators of module CommandPipeline.
Verdicts == {"ok", "params", "command", "json", "schema"}

Empty == ""     \* an adapter given as the empty string is not validated

RequestType == [type: Types, adapter: Adapters \cup {Empty},
                dest: Addresses \cup {Empty}, verdict: Verdicts]

\* An answer is the lines of nyx: none at all, or some, of which "com port"
\* lines name adapters and "device" blocks name addresses.
AnswerType == [none: BOOLEAN, adapters: Seq(Adapters), devices: Seq(Addresses)]

ASSUME ServiceAssumption ==
  /\ Requests \subseteq RequestType
  /\ Answers \in [SendTypes -> SUBSET AnswerType]
  /\ MaxRequests \in Nat /\ Window \in Nat \ {0} /\ IdMod \in Nat \ {0}
  /\ NyxAsync \in BOOLEAN /\ NyxLossy \in BOOLEAN /\ RacyMap \in BOOLEAN

VARIABLES
  issued,           \* the requests received, with the adapters then listed
  replies,          \* the replies each request has got
  m_clients,        \* client id -> number of the request, 0 for no entry
  m_clientId,       \* the last id given
  init,             \* where the constructor of DefaultCecHandler is
  mCmdList,         \* commands waiting for their answer, oldest first
  mQueue,           \* messages waiting for the dispatch thread
  mType,            \* global: type of the message sent last
  sending,          \* the message the dispatch thread holds, if any
  pending,          \* messages that nyx accepted and has not answered
  mAdaptersList,
  mDeviceInfoList,  \* addresses of the known devices
  pc,               \* where each thread is
  cmd,              \* the command each thread works on
  handler,          \* the type HandleMessageCb was called with
  resp,             \* the answer it was called with
  refusal           \* the error code that main is about to reply

busVars    == <<issued, replies>>
clientVars == <<m_clients, m_clientId>>
queueVars  == <<mQueue, mType, sending, pending>>
listVars   == <<mAdaptersList, mDeviceInfoList>>
frameVars  == <<handler, resp>>
vars == <<busVars, clientVars, init, mCmdList, queueVars, listVars, pc, cmd,
          frameVars, refusal>>

CallbackThreads == {"worker", "nyx"}
Threads == {"main"} \cup CallbackThreads

Elements(s) == {s[i] : i \in DOMAIN s}
Goto(t, label) == pc' = [pc EXCEPT ![t] = label]

\* The request main works on, and the command made of it.
Current == issued[Len(issued)].req
ConstructorCmd == [n |-> 0, id |-> 0, type |-> "LIST_ADAPTERS"]

-----------------------------------------------------------------------------
(* CecLunaService: a method of the bus.                                    *)

Settled(k) == replies[k] # <<>> /\ \A id \in DOMAIN m_clients : m_clients[id] # k

\* No command has been taken for the message of request k yet: it is queued,
\* with nyx, or its answer is about to take the front of mCmdList.
Untaken(k) ==
  \/ \E i \in 1..Len(mQueue) : mQueue[i].n = k
  \/ \E i \in 1..Len(sending) : sending[i].n = k
  \/ \E i \in 1..Len(pending) : pending[i].n = k
  \/ \E t \in CallbackThreads : pc[t] = "front" /\ resp[t].of = k

\* A callback has taken a command, the one of request k or with its answer.  At
\* "front" it has not: cmd[t] is then the one it took before.
InHand(k) ==
  \E t \in CallbackThreads :
    pc[t] \notin {"idle", "front"} /\ k \in {resp[t].of, cmd[t].n}

\* Nothing is under way on behalf of request k any more: if it has not been
\* replied to, its client waits in vain, and gives up in the end.
UnderWay(k) ==
  \/ pc["main"] # "idle" /\ k = Len(issued)
  \/ Untaken(k)
  \/ InHand(k)
GivenUp(k) == NyxLossy /\ ~UnderWay(k)

\* Environment: a client sends request number Len(issued) + 1.
MaySend ==
  /\ Len(issued) < MaxRequests
  /\ \A k \in 1..Len(issued) :
       k + Window <= Len(issued) + 1 => Settled(k) \/ GivenUp(k)

Refused(code) == [ok |-> FALSE, code |-> code, of |-> 0]

\* parsePayload tells a schema error from bad JSON only if the parser speaks
\* of a "parse error"; otherwise the code stays 0.
ParseErrors(verdict) == IF verdict = "json" THEN {0} ELSE {0, 1}

\* A payload that does not parse is answered at once and not registered.
BusRequest(r) ==
  /\ pc["main"] = "idle"
  /\ MaySend
  /\ issued' = Append(issued, [req |-> r, seen |-> Elements(mAdaptersList)])
  /\ IF r.verdict \in {"json", "schema"}
     THEN /\ \E code \in ParseErrors(r.verdict) :
               replies' = [replies EXCEPT ![Len(issued) + 1] = Append(@, Refused(code))]
          /\ UNCHANGED pc
     ELSE Goto("main", "insert") /\ UNCHANGED replies
  /\ UNCHANGED <<clientVars, init, mCmdList, queueVars, listVars, cmd,
                 frameVars, refusal>>

\* m_clients is read and written by three threads without a lock.  Where two
\* accesses overlap and one of them writes, the build may lose the write or
\* miss an entry; the model takes these outcomes, where the process survives.
Accesses(t, labels) == pc[t] \in labels /\ (t # "main" => cmd[t].n # 0)
Racing(t, labels) == RacyMap /\ \E u \in Threads \ {t} : Accesses(u, labels)

NextIdConstant == m_clientId
NextId == (m_clientId + 1) % IdMod

InsertClientAtOldId ==
  /\ pc["main"] = "insert"
  /\ m_clientId' = NextId
  /\ m_clients' = [m_clients EXCEPT ![m_clientId] = Len(issued)]
  /\ cmd' = [cmd EXCEPT !["main"] =
               [n |-> Len(issued), id |-> NextId, type |-> Current.type]]
  /\ Goto("main", "adapter")
  /\ UNCHANGED <<busVars, init, mCmdList, queueVars, listVars, frameVars, refusal>>

\* m_clients[++m_clientId] = requestMessage
InsertClient ==
  /\ pc["main"] = "insert"
  /\ m_clientId' = NextId
  /\ \/ m_clients' = [m_clients EXCEPT ![NextId] = Len(issued)]
     \/ Racing("main", {"reply", "erase"}) /\ UNCHANGED m_clients
  /\ cmd' = [cmd EXCEPT !["main"] =
               [n |-> Len(issued), id |-> NextId, type |-> Current.type]]
  /\ Goto("main", "adapter")
  /\ UNCHANGED <<busVars, init, mCmdList, queueVars, listVars, frameVars, refusal>>

-----------------------------------------------------------------------------
(* DefaultCecHandler::HandleCommand on the bus thread: the validation, in  *)
(* the order of ValidateSendCommand and its like, then the two appends.    *)

Refuse(code) == Goto("main", "reply") /\ refusal' = code
Accept == Goto("main", "push") /\ UNCHANGED refusal

JudgeRest ==
  \/ Current.verdict = "ok" /\ Accept
  \/ Current.verdict = "params" /\ Refuse(2)
  \/ Current.verdict = "command" /\ Refuse(5)

AdapterUnknown ==
  /\ Current.type # "LIST_ADAPTERS"
  /\ Current.adapter # Empty
  /\ Current.adapter \notin Elements(mAdaptersList)

\* m_InitFut.get() keeps the first command waiting for the constructor.
ValidateAdapter ==
  /\ pc["main"] = "adapter"
  /\ init = "done"
  /\ IF AdapterUnknown THEN Refuse(6)
     ELSE IF Current.type = "SEND_COMMAND"
          THEN Goto("main", "address") /\ UNCHANGED refusal
          ELSE JudgeRest
  /\ UNCHANGED <<busVars, clientVars, init, mCmdList, queueVars, listVars, cmd,
                 frameVars>>

ValidateAddress ==
  /\ pc["main"] = "address"
  /\ IF Current.dest \notin Elements(mDeviceInfoList) THEN Refuse(4)
     ELSE JudgeRest
  /\ UNCHANGED <<busVars, clientVars, init, mCmdList, queueVars, listVars, cmd,
                 frameVars>>

PushCommandFront ==
  /\ pc["main"] = "push"
  /\ mCmdList' = <<cmd["main"]>> \o mCmdList
  /\ Goto("main", "enqueue")
  /\ UNCHANGED <<busVars, clientVars, init, queueVars, listVars, cmd,
                 frameVars, refusal>>

PushCommand ==
  /\ pc["main"] = "push"
  /\ mCmdList' = Append(mCmdList, cmd["main"])
  /\ Goto("main", "enqueue")
  /\ UNCHANGED <<busVars, clientVars, init, queueVars, listVars, cmd,
                 frameVars, refusal>>

MessageOf(c) == [n |-> c.n, type |-> c.type]

EnqueueMessage ==
  /\ pc["main"] = "enqueue"
  /\ mQueue' = Append(mQueue, MessageOf(cmd["main"]))
  /\ Goto("main", "idle")
  /\ UNCHANGED <<busVars, clientVars, init, mCmdList, mType, sending, pending,
                 listVars, cmd, frameVars, refusal>>

\* The constructor lists the adapters once, for itself.
ConstructPushForgotten ==
  /\ init = "push"
  /\ init' = "enqueue"
  /\ UNCHANGED <<busVars, clientVars, mCmdList, queueVars, listVars, pc, cmd,
                 frameVars, refusal>>

ConstructPush ==
  /\ init = "push"
  /\ mCmdList' = Append(mCmdList, ConstructorCmd)
  /\ init' = "enqueue"
  /\ UNCHANGED <<busVars, clientVars, queueVars, listVars, pc, cmd, frameVars,
                 refusal>>

ConstructEnqueue ==
  /\ init = "enqueue"
  /\ mQueue' = Append(mQueue, MessageOf(ConstructorCmd))
  /\ init' = "done"
  /\ UNCHANGED <<busVars, clientVars, mCmdList, mType, sending, pending,
                 listVars, pc, cmd, frameVars, refusal>>

-----------------------------------------------------------------------------
(* MessageQueue::handleMessage on the dispatch thread, and nyx.            *)

WorkerTakeStaleType ==
  /\ pc["worker"] = "idle"
  /\ sending = <<>>
  /\ mQueue # <<>>
  /\ sending' = <<Head(mQueue)>>
  /\ mQueue' = Tail(mQueue)
  /\ UNCHANGED <<busVars, clientVars, init, mCmdList, mType, pending, listVars,
                 pc, cmd, frameVars, refusal>>

WorkerTakeKeeps ==
  /\ pc["worker"] = "idle"
  /\ sending = <<>>
  /\ mQueue # <<>>
  /\ sending' = <<Head(mQueue)>>
  /\ mType' = Head(mQueue).type
  /\ UNCHANGED <<busVars, clientVars, init, mCmdList, mQueue, pending, listVars, pc,
                 cmd, frameVars, refusal>>

WorkerTake ==
  /\ pc["worker"] = "idle"
  /\ sending = <<>>
  /\ mQueue # <<>>
  /\ sending' = <<Head(mQueue)>>
  /\ mQueue' = Tail(mQueue)
  /\ mType' = Head(mQueue).type
  /\ UNCHANGED <<busVars, clientVars, init, mCmdList, pending, listVars, pc,
                 cmd, frameVars, refusal>>

\* The lines "response: success" and "response: failed" that sendCommand and
\* setConfig make up, and the value of getConfig, name nothing.
PlainAnswer == [none |-> FALSE, adapters |-> <<>>, devices |-> <<>>]

SynchronousAnswers(type) ==
  {PlainAnswer} \cup (IF type \in SendTypes THEN Answers[type] ELSE {})

Items(type, answer) ==
  CASE type = "LIST_ADAPTERS" -> answer.adapters
    [] type = "SCAN" -> answer.devices
    [] OTHER -> <<>>

EnterCallbackStale(t, m, answer) ==
  /\ Goto(t, "front")
  /\ handler' = [handler EXCEPT ![t] = mType]
  /\ resp' = IF resp[t].of = 0
              THEN [resp EXCEPT ![t] = [of |-> m.n, none |-> answer.none,
                                        items |-> Items(mType, answer)]]
              ELSE resp

\* mCb(mType, resp) on thread t, where the answer is that to message m.
EnterCallback(t, m, answer) ==
  /\ Goto(t, "front")
  /\ handler' = [handler EXCEPT ![t] = mType]
  /\ resp' = [resp EXCEPT ![t] = [of |-> m.n, none |-> answer.none,
                                  items |-> Items(mType, answer)]]

\* getConfig, setConfig and a failed sendCommand call back by themselves; so
\* does, within nyx_cec_send_command, a nyx that answers synchronously.
WorkerAnswered ==
  /\ pc["worker"] = "idle"
  /\ sending # <<>>
  /\ sending' = <<>>
  /\ \E a \in SynchronousAnswers(Head(sending).type) :
       EnterCallback("worker", Head(sending), a)
  /\ UNCHANGED <<busVars, clientVars, init, mCmdList, mQueue, mType, pending,
                 listVars, cmd, refusal>>

WorkerAccepted ==
  /\ NyxAsync
  /\ pc["worker"] = "idle"
  /\ sending # <<>>
  /\ Head(sending).type \in SendTypes
  /\ pending' = Append(pending, Head(sending))
  /\ sending' = <<>>
  /\ UNCHANGED <<busVars, clientVars, init, mCmdList, mQueue, mType, listVars,
                 pc, cmd, frameVars, refusal>>

\* nyxCallback: answers may come in any order, one at a time.
NyxCallback ==
  /\ pc["nyx"] = "idle"
  /\ \E i \in DOMAIN pending :
       /\ pending' = RemoveAt(pending, i)
       /\ \E a \in Answers[pending[i].type] : EnterCallback("nyx", pending[i], a)
  /\ UNCHANGED <<busVars, clientVars, init, mCmdList, mQueue, mType, sending,
                 listVars, cmd, refusal>>

\* Fault: nyx forgets a command that it accepted.  Its timeout was only passed
\* on to nyx, and nothing in the service takes the command off mCmdList.
NyxForgets ==
  /\ NyxLossy
  /\ \E i \in DOMAIN pending : pending' = RemoveAt(pending, i)
  /\ UNCHANGED <<busVars, clientVars, init, mCmdList, mQueue, mType, sending,
                 listVars, pc, cmd, frameVars, refusal>>

-----------------------------------------------------------------------------
(* DefaultCecHandler::HandleXCb, X = handler[t], on a callback thread.     *)

AfterTakeSilent(t) ==
  IF resp[t].none THEN "idle"
  ELSE IF handler[t] = "LIST_ADAPTERS" THEN "clear"
  ELSE IF handler[t] = "SCAN" /\ resp[t].items # <<>> THEN "devices"
  ELSE "reply"

\* Where the callback goes with the command it has taken.
AfterTake(t) ==
  IF resp[t].none THEN "reply"
  ELSE IF handler[t] = "LIST_ADAPTERS" THEN "clear"
  ELSE IF handler[t] = "SCAN" /\ resp[t].items # <<>> THEN "devices"
  ELSE "reply"

TakeAnyFront(t) ==
  /\ pc[t] = "front"
  /\ mCmdList # <<>>
  /\ mCmdList' = Tail(mCmdList)
  /\ cmd' = [cmd EXCEPT ![t] = Head(mCmdList)]
  /\ Goto(t, AfterTake(t))
  /\ UNCHANGED <<busVars, clientVars, init, queueVars, listVars, frameVars, refusal>>

TakeFrontUntilMine(t) ==
  /\ pc[t] = "front"
  /\ mCmdList # <<>>
  /\ Head(mCmdList).type = handler[t]
  /\ mCmdList' = Tail(mCmdList)
  /\ cmd' = [cmd EXCEPT ![t] = Head(mCmdList)]
  /\ Goto(t, AfterTake(t))
  /\ UNCHANGED <<busVars, clientVars, init, queueVars, listVars, frameVars, refusal>>

\* The front is the command only if it has the type of the callback; if not
\* the answer is dropped and the front stays.  The code does not test for an
\* empty list: that the second conjunct never blocks is FrontDefined.
TakeFront(t) ==
  /\ pc[t] = "front"
  /\ mCmdList # <<>>
  /\ IF Head(mCmdList).type = handler[t]
     THEN /\ mCmdList' = Tail(mCmdList)
          /\ cmd' = [cmd EXCEPT ![t] = Head(mCmdList)]
          /\ Goto(t, AfterTake(t))
     ELSE Goto(t, "idle") /\ UNCHANGED <<mCmdList, cmd>>
  /\ UNCHANGED <<busVars, clientVars, init, queueVars, listVars, frameVars, refusal>>

\* HandleListAdaptersCb: one critical section clears the list, then one for
\* each adapter appends it.
ClearAdapters(t) ==
  /\ pc[t] = "clear"
  /\ mAdaptersList' = <<>>
  /\ Goto(t, IF resp[t].items = <<>> THEN "reply" ELSE "adapters")
  /\ UNCHANGED <<busVars, clientVars, init, mCmdList, queueVars,
                 mDeviceInfoList, cmd, frameVars, refusal>>

NextItem(t, label) ==
  /\ resp' = [resp EXCEPT ![t].items = Tail(resp[t].items)]
  /\ Goto(t, IF Len(resp[t].items) = 1 THEN "reply" ELSE label)

PushAdapter(t) ==
  /\ pc[t] = "adapters"
  /\ mAdaptersList' = Append(mAdaptersList, Head(resp[t].items))
  /\ NextItem(t, "adapters")
  /\ UNCHANGED <<busVars, clientVars, init, mCmdList, queueVars,
                 mDeviceInfoList, cmd, handler, refusal>>

RecordDeviceAlone(t) ==
  /\ pc[t] = "devices"
  /\ mDeviceInfoList' = <<Head(resp[t].items)>>
  /\ NextItem(t, "devices")
  /\ UNCHANGED <<busVars, clientVars, init, mCmdList, queueVars,
                 mAdaptersList, cmd, handler, refusal>>

\* HandleScanCb: erase the first device of this address, append the new one.
RecordDevice(t) ==
  /\ pc[t] = "devices"
  /\ LET known == mDeviceInfoList
         new == Head(resp[t].items)
     IN \/ /\ new \notin Elements(known)
           /\ mDeviceInfoList' = Append(known, new)
        \/ \E i \in DOMAIN known :
             /\ known[i] = new
             /\ \A j \in 1..(i - 1) : known[j] # new
             /\ mDeviceInfoList' = Append(RemoveAt(known, i), new)
  /\ NextItem(t, "devices")
  /\ UNCHANGED <<busVars, clientVars, init, mCmdList, queueVars,
                 mAdaptersList, cmd, handler, refusal>>

-----------------------------------------------------------------------------
(* CecLunaService::callback: look the client up, respond, erase.  The      *)
(* callback of the constructor's own command is empty.                     *)

ReplyOf(t) ==
  IF t = "main" THEN Refused(refusal)
  ELSE [ok |-> TRUE, code |-> 0, of |-> resp[t].of]

ReplyTo(t) == m_clients[cmd[t].id]

Reply(t) ==
  /\ pc[t] = "reply"
  /\ \/ /\ cmd[t].n # 0 /\ ReplyTo(t) # 0
        /\ replies' = [replies EXCEPT ![ReplyTo(t)] = Append(@, ReplyOf(t))]
        /\ Goto(t, "erase")
     \/ /\ cmd[t].n # 0 => ReplyTo(t) = 0 \/ Racing(t, {"insert", "erase"})
        /\ Goto(t, "idle")
        /\ UNCHANGED replies
  /\ UNCHANGED <<issued, clientVars, init, mCmdList, queueVars, listVars, cmd,
                 frameVars, refusal>>

EraseClient(t) ==
  /\ pc[t] = "erase"
  /\ \/ m_clients' = [m_clients EXCEPT ![cmd[t].id] = 0]
     \/ Racing(t, {"insert", "reply", "erase"}) /\ UNCHANGED m_clients
  /\ Goto(t, "idle")
  /\ UNCHANGED <<busVars, m_clientId, init, mCmdList, queueVars, listVars, cmd,
                 frameVars, refusal>>

-----------------------------------------------------------------------------
NoAnswer == [of |-> 0, none |-> TRUE, items |-> <<>>]

Init ==
  /\ issued = <<>>
  /\ replies = [k \in 1..MaxRequests |-> <<>>]
  /\ m_clients = [id \in 0..(IdMod - 1) |-> 0]
  /\ m_clientId = 0
  /\ init = "push"
  /\ mCmdList = <<>>
  /\ mQueue = <<>>
  /\ mType = "LIST_ADAPTERS"
  /\ sending = <<>>
  /\ pending = <<>>
  /\ mAdaptersList = <<>>
  /\ mDeviceInfoList = <<>>
  /\ pc = [t \in Threads |-> "idle"]
  /\ cmd = [t \in Threads |-> ConstructorCmd]
  /\ handler = [t \in CallbackThreads |-> "LIST_ADAPTERS"]
  /\ resp = [t \in CallbackThreads |-> NoAnswer]
  /\ refusal = 0

ReplyStep(t) == Reply(t) \/ EraseClient(t)

MainStep ==
  InsertClient \/ ValidateAdapter \/ ValidateAddress \/ PushCommand
    \/ EnqueueMessage \/ ReplyStep("main")

InitStep == ConstructPush \/ ConstructEnqueue

CallbackStep(t) ==
  TakeFront(t) \/ ClearAdapters(t) \/ PushAdapter(t) \/ RecordDevice(t)
    \/ ReplyStep(t)

WorkerStep ==
  WorkerTake \/ WorkerAnswered \/ WorkerAccepted \/ CallbackStep("worker")

NyxStep == NyxCallback \/ CallbackStep("nyx")

Next ==
  \/ \E r \in Requests : BusRequest(r)
  \/ MainStep \/ InitStep \/ WorkerStep \/ NyxStep \/ NyxForgets

SafeSpec == Init /\ [][Next]_vars

\* Every thread runs, and nyx answers what it accepted and does not forget;
\* clients need not send.
Fairness == WF_vars(MainStep) /\ WF_vars(InitStep) /\ WF_vars(WorkerStep) /\ WF_vars(NyxStep)

Spec == SafeSpec /\ Fairness

-----------------------------------------------------------------------------
(* Properties.                                                             *)

IssuedRecord == [req: Requests, seen: SUBSET Adapters]
MessageRecord == [n: 0..MaxRequests, type: Types]
PendingRecord == [n: 0..MaxRequests, type: SendTypes]
CommandRecord == [n: 0..MaxRequests, id: 0..(IdMod - 1), type: Types]
ReplyRecord == [ok: BOOLEAN, code: 0..12, of: 0..MaxRequests]
ResponseRecord == [of: 0..MaxRequests, none: BOOLEAN,
                   items: Seq(Adapters \cup Addresses)]
CallbackPcs == {"idle", "front", "clear", "adapters", "devices", "reply", "erase"}
MainPcs == {"idle", "insert", "adapter", "address", "push", "enqueue", "reply",
            "erase"}

\* The types of the variables, by owner: the bus, the queues, the lists and
\* the threads.
RegistryType ==
  /\ issued \in Seq(IssuedRecord)
  /\ Len(issued) <= MaxRequests
  /\ replies \in [1..MaxRequests -> Seq(ReplyRecord)]
  /\ m_clients \in [0..(IdMod - 1) -> 0..MaxRequests]
  /\ m_clientId \in 0..(IdMod - 1)

QueueType ==
  /\ init \in {"push", "enqueue", "done"}
  /\ mCmdList \in Seq(CommandRecord)
  /\ mQueue \in Seq(MessageRecord)
  /\ mType \in Types
  /\ sending \in Seq(MessageRecord) /\ Len(sending) <= 1
  /\ pending \in Seq(PendingRecord)

ListType ==
  /\ mAdaptersList \in Seq(Adapters)
  /\ mDeviceInfoList \in Seq(Addresses)

ThreadType ==
  /\ pc \in [Threads -> CallbackPcs \cup MainPcs]
  /\ pc["main"] \in MainPcs
  /\ pc["main"] # "idle" => issued # <<>>
  /\ cmd \in [Threads -> CommandRecord]
  /\ handler \in [CallbackThreads -> Types]
  /\ resp \in [CallbackThreads -> ResponseRecord]
  /\ refusal \in 0..12

TypeOK == RegistryType /\ QueueType /\ ListType /\ ThreadType

\* The lines a callback goes through are of the kind its handler parses.
ItemsFit ==
  \A t \in CallbackThreads :
    /\ pc[t] \in CallbackPcs
    /\ handler[t] = "LIST_ADAPTERS" => resp[t].items \in Seq(Adapters)
    /\ handler[t] = "SCAN" => resp[t].items \in Seq(Addresses)
    /\ pc[t] \in {"clear", "adapters"} => handler[t] = "LIST_ADAPTERS"
    /\ pc[t] = "devices" => handler[t] = "SCAN"
    /\ pc[t] \in {"adapters", "devices"} => resp[t].items # <<>>

\* No callback takes the front of an empty command list, which would be
\* undefined: no HandleXCb tests for it (src/handlers/DefaultCecHandler.cpp
\* lines 160, 332, 437, 490, 586).
FrontDefined ==
  \A t \in CallbackThreads : pc[t] = "front" => mCmdList # <<>>

\* Why: every message on its way to nyx or back still has a command in the
\* list, because the command is appended first and a callback takes one at
\* most.
AtFront(t) == IF pc[t] = "front" THEN 1 ELSE 0
Owed ==
  Len(mQueue) + Len(sending) + Len(pending) + AtFront("worker") + AtFront("nyx")
    + (IF pc["main"] = "enqueue" THEN 1 ELSE 0)
    + (IF init = "enqueue" THEN 1 ELSE 0)

CommandsCoverMessages == Len(mCmdList) >= Owed

\* The response object a callback fills is of the type to which
\* parseResponseObject casts it, unchecked: the type of the command taken is
\* that of the handler that took it, whatever the order of the answers.
CastSafe ==
  \A t \in CallbackThreads :
    pc[t] \in {"clear", "adapters", "devices", "reply"} => handler[t] = cmd[t].type

\* A request is replied to once at most, even if accesses of m_clients race.
AtMostOneReply == \A k \in 1..MaxRequests : Len(replies[k]) <= 1

\* An answer is dropped (the return in the critical section of HandleXCb)
\* only while two commands or more are outstanding.
LossNeedsOverlap ==
  [][\A t \in CallbackThreads :
       pc[t] = "front" /\ pc'[t] = "idle" => Len(mCmdList) >= 2]_vars

\* An answer that nyx owes for ever leaves its command at the front, so that a
\* later answer goes to that command, or to nobody.  Still no answer is given
\* to two clients,
OneClientPerAnswer ==
  \A k, l \in 1..MaxRequests : \A i \in DOMAIN replies[k], j \in DOMAIN replies[l] :
    replies[k][i].ok /\ replies[l][j].ok /\ replies[k][i].of = replies[l][j].of
      => k = l

\* and, if clients send one at a time, none gets the answer to an earlier
\* request (0 is the listing of the constructor, which overlaps the first).
AnswersGoBack ==
  \A k \in 1..MaxRequests : \A i \in DOMAIN replies[k] :
    replies[k][i].ok => replies[k][i].of \notin 1..(k - 1)

\* Nor does an answer that nobody takes stop the dispatch thread: it goes on
\* until there is nothing queued.
DispatchGoesOn ==
  (mQueue # <<>> \/ pc["worker"] # "idle") ~> (mQueue = <<>> /\ pc["worker"] = "idle")

\* The destination of a command that was accepted stays known until the
\* command is answered, though it was checked in an earlier critical section
\* and a scan may be replacing the entry.
DestinationsKnown ==
  \A i \in DOMAIN mCmdList :
    mCmdList[i].type = "SEND_COMMAND" =>
      issued[mCmdList[i].n].req.dest \in Elements(mDeviceInfoList)

\* A request is not refused with "CEC adapter doesn't exist" for an adapter
\* that was listed when the request arrived and that the listing under way
\* reports again.
RefusedAdapterIsAbsent ==
  pc["main"] = "reply" /\ refusal = 6 =>
    ~ /\ Current.adapter \in issued[Len(issued)].seen
      /\ \E t \in CallbackThreads :
           pc[t] = "adapters" /\ Contains(resp[t].items, Current.adapter)

\* If clients send one at a time, only a nyx that forgets leaves a command in
\* mCmdList that no answer will take off: no answer is dropped.  Exempt are the
\* steps during which the constructor's own listing, for which no client waits,
\* is queued, with nyx, or about to take its command.
Stale == Len(mCmdList) > Owed

OnlyForgettingLoses ==
  [][~Stale /\ Stale' => NyxForgets \/ Untaken(0)]_vars

\* And every request is replied to, unless it waits behind such a command.
EveryRequestAnswered ==
  \A k \in 1..MaxRequests : (Len(issued) >= k) ~> (replies[k] # <<>> \/ Stale)

\* With a synchronous nyx mCmdList lists what the dispatch thread holds, then
\* the queue, then what is between the two appends: so that the front is the
\* command of the answer at hand.
NumbersIn(s) == [i \in DOMAIN s |-> s[i].n]
Held ==
  IF sending # <<>> THEN NumbersIn(sending)
  ELSE IF pc["worker"] = "front" THEN <<resp["worker"].of>> ELSE <<>>
BeingEnqueued ==
  IF init = "enqueue" THEN <<0>>
  ELSE IF pc["main"] = "enqueue" THEN <<cmd["main"].n>> ELSE <<>>

InOrder == NumbersIn(mCmdList) = Held \o NumbersIn(mQueue) \o BeingEnqueued

\* The service with a synchronous nyx is the line of module RequestLine.
InService ==
  IF pc["worker"] \in {"clear", "adapters", "devices", "reply"}
  THEN <<cmd["worker"].n>> ELSE Held
Outcome(k) ==
  IF replies[k] = <<>> THEN "none"
  ELSE IF Len(replies[k]) > 1 THEN "replied twice"
  ELSE IF ~replies[k][1].ok THEN "refused"
  ELSE IF replies[k][1].of = k THEN "served" ELSE "answer of another"

\* The command of the constructor, the first of all, is of no client.
OfClients(s) == IF s # <<>> /\ Head(s) = 0 THEN Tail(s) ELSE s

ClientLine == OfClients(InService \o NumbersIn(mQueue) \o BeingEnqueued)
Outcomes == [k \in 1..MaxRequests |-> Outcome(k)]

Line == INSTANCE RequestLine
          WITH asked <- Len(issued), line <- ClientLine, outcome <- Outcomes

ImplementsLine == Line!Spec
=============================================================================
