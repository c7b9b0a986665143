# A verification project for com.webos.service.cec

TLA+ modules, TLC configurations and TLAPS proofs for the HDMI-CEC service of
webOS OSE (`src/`). Paths below are relative to the repository; modules,
configurations and `PROJECT.json` are in this directory. To check a
configuration: `tlc -config CecServiceSync.cfg MCCecService.tla`; to check the
proofs of a module: `tlapm CecServiceProofs.tla`.

## 1. The system

A client calls one of five methods of the luna bus (listAdapters, scan,
sendCommand, getConfig, setConfig). The service turns the call into a command,
validates it, queues a message for a dispatch thread, which calls the HAL
library nyx; nyx answers by a callback, the answer is parsed into a reply, and
the reply goes to the client that asked.

    client --bus--> CecLunaService --> CecController --> LGTVCecHandler (declines)
                        ^                            \-> DefaultCecHandler
                        |                                 |  validate, mCmdList
                        | callback(clientId, type, resp)  v
                        +---------- HandleXCb <-- MessageQueue <--> nyx
                                    (mCmdList.front())

Four threads of control meet: **main** (the bus: parsing, registration,
validation, queueing, refusals), **the thread of `std::async`** (creates the
handlers; the constructor of DefaultCecHandler queues the first command of
all), **the dispatch thread** of MessageQueue (calls nyx; runs the callback
when the answer is at hand), and **nyx's own thread**, if nyx answers later.

| Component | State | Operations | Hard behaviour | What makes it correct |
|---|---|---|---|---|
| `MessageQueue` (src/MessageQueue.cpp) | `mQueue`, `mQuit`, mutex, condition variable, the global `mType` | `addMessage`, `dispatchMessage`, `handleMessage`, `sendCommand`/`getConfig`/`setConfig`, `nyxCallback`, destructor | lost wake-ups, re-locking, spurious wake-ups, shutdown; `mType` stale when a late answer arrives | FIFO, nothing lost, nobody sleeps with work to do; an answer reaches the handler of its command |
| `CecLunaService` (src/CecLunaService.cpp) | `m_clients`, `m_clientId` (uint16), a reference to each message | five methods, `callback`, `parseResponseObject` | `m_clients` used by three threads without a lock; ids wrap; unchecked casts; bare pointers to messages | each request is replied to once, with its own answer, through a message that is still alive |
| `DefaultCecHandler` (src/handlers/DefaultCecHandler.cpp) | `mCmdList`, `mAdaptersList`, `mDeviceInfoList`, under one mutex | `HandleCommand` with its validation, `HandleX`, `HandleXCb` | answers matched to commands by position; check-then-act over several critical sections; three tables of names written far apart; loops that move an iterator by hand; `substr` at unchecked, unsigned offsets | the front command is the answered one; no undefined `front()`; lists stay consistent; a reply says what the lines said |
| `CecController` (src/handlers/CecController.cpp) | `mCreatorList`, `mHandlerList`, `mInitlialized`, `m_InitFut` | `Register`, `initialize`, `HandleCommand`, `GetDeviceInfo` | unordered static initialisers, a flag and list shared without a lock, a future that may be got once | ranks respected, every command reaches a handler, no second `get()` |
| `LGTVCecHandler` | none | `HandleCommand` | calls `back()` of the shared handler list | declines everything |
| `Command`, `CecErrors`, `Ls2Utils` | none | data types, error replies, JSON parsing | | |
| `Main` (src/Main.cpp) | `mainLoop`, the installed handlers, the service on its stack | start, signal handlers, main loop, return | signals at any moment; a failed start; threads that outlive `main` | a signal ends the process; nothing is used that was released or destroyed |
| nyx (external) | | `nyx_cec_send_command`, `get_config`, `set_config`, callback | synchronous or late, reordered or empty answers | |

`PROJECT.json` lists under "hazards" every place that is hard to test, with the
properties that cover it or the reason why none does.

## 2. The modules

### MessageQueue, MessageChannel

`MessageQueue` is the class line by line: mutex owner (`mMutex`), program
counters of the producers (`ppc`), of the dispatch thread (`wpc`) and of the
destructor (`dpc`). One action per step that another thread can observe:
`ProducerLock`, `ProducerPush`, `ProducerNotify` are `addMessage`;
`WorkerLock`, `WorkerTest`, `WorkerBlock`, `SpuriousWakeup`, `WorkerBranch`,
`WorkerHandled`, `WorkerLoop` are the loop of `dispatchMessage`, with the test
of the predicate and the going to sleep kept apart although a producer cannot
come between them: the destructor, which does not take the mutex, can.
`MessageChannel` is what the class promises: a FIFO channel with an owner who
may close it. `MessageQueue` implements it under `chan <- mQueue, taken <-
taken, closed <- (dpc = "done")`.

### CecService, RequestLine

`CecService` composes CecLunaService, DefaultCecHandler, `handleMessage` and
`nyxCallback`. The queue is now the channel it was shown to be, a sequence. Each
critical section of `mMutex` in DefaultCecHandler is one action, and so is each
access of `m_clients`; what lies between two of them can be interleaved with
any other thread. `cmd[t]`, `handler[t]`, `resp[t]` are locals of the thread t.

| Action | Code |
|---|---|
| `BusRequest`, `InsertClient` | the bus methods, `m_clients[++m_clientId] = ...` |
| `ValidateAdapter`, `ValidateAddress`, `Accept`, `Refuse` | `ValidateCommand` and its critical sections, the error of each verdict |
| `PushCommand`, `EnqueueMessage` | `mCmdList.push_back` and `addMessage`, in this order, in two critical sections |
| `ConstructPush`, `ConstructEnqueue` | the constructor's own LIST_ADAPTERS command |
| `WorkerTake`, `WorkerAnswered`, `WorkerAccepted` | `handleMessage`, with nyx answering in the call, the code making an answer up, or nyx accepting |
| `NyxCallback` | `nyxCallback` later, with the handler chosen by the global `mType` |
| `TakeFront`, `ClearAdapters`, `PushAdapter`, `RecordDevice` | `HandleXCb`: take the front if its type is the handler's, fill the lists one line at a time |
| `Reply`, `EraseClient` | `CecLunaService::callback`: find, respond, erase |

An answer of nyx is abstracted to the adapters and devices its lines name, or
none at all. `NyxForgets` lets nyx forget a command that it accepted (`NyxLossy`); a client
of such a command gives up waiting (`GivenUp`), and the service does not notice
either. `RacyMap` allows an access of `m_clients` that overlaps a write to
miss an entry or lose the write (a data race; the outcomes in which the process
dies are outside the model). `RequestLine` is the promise to the clients while
nyx is synchronous: requests are decided in order of arrival, refused or put in
a line that is served strictly in order, each with its own answer; the command
of the constructor is of no client and not in that line (`OfClients`).

### CommandPipeline

The data of one command: the tables of `ValidateSendCommand`, `ValidateGetConfig`
and `ValidateSetConfig` (`Rules`, `GetKeys`, `SetKeys`), the params made of it
(`SendParams`, `ConfigParams`), how `getConfig` finds the one name it asks
nyx for (`ConfigNames`), and the tables of the callbacks. A line of a response
is the set of words the code searches it for, and the value it extracts.

### CecController

`Register` is the insertion by rank, in any order of the handlers (static
initialisation order is unspecified between source files). `CreateHandler`,
`SetInitialized`, `FinishInitialize` are the thread of `std::async`,
`CheckInitialized`, `GetFuture`, `AskHandler`, `NobodyTakes` the walk of
`HandleCommand` on main. With `WeakMemory` a bus thread that sees the flag, and
never waited for the future, may see only a prefix of the list: flag and list
are plain members, so the C++ memory model orders nothing.

### ResponseLists, DeviceTable

The lists that DefaultCecHandler makes of the lines of an answer.
`HandleScanCb` and `HandleListAdaptersCb` walk the lines with an iterator
(`it[t]`) that they move by hand; one action is one turn of a loop or one
critical section, for any number of threads, because nyx's thread and the
dispatch thread may both be in a callback.

| Action | Code |
|---|---|
| `Begin` | the callback has its command and its lines |
| `ClearAdapters`, `AdapterLine` | `HandleListAdaptersCb`: the list cleared in one critical section and filled, a line at a time, in others; "RPI" renamed in the reply and in the list by two pieces of code |
| `DeviceLine` | the outer loop of `HandleScanCb`: skip lines up to a device |
| `FieldLine` | the inner loop: a line fills the first field whose word it has and that is still empty (`Tests`, `Passed`) |
| `RecordDevice` | the critical section that erases the device of that address and appends the new one |
| `Finish`, `Reply` | the end of the loops, the callback of CecLunaService |

A line is the set of words the code searches it for, with its value, as in
CommandPipeline. `GetDeviceInfo` is the look-up that validation and
LGTVCecHandler use. `DeviceTable` is what the device list promises to those
readers: a table in which a report replaces one entry at once. `ResponseLists`
implements it under `table <- DevicesByAddress`.

### ResponseLines

The three ways a value is cut out of a line: `GetValue` (after the first
colon), `Quoted` (between quotation marks) and `AfterWord` (after a word of
known length and one character more), character by character with the unsigned
positions of `std::string` (`% SizeMod`, `npos` is -1). nyx writes a line one
character at a time (`Write`), so that each reachable state is one more line.

### Lifecycle

The process: `main` from its first statement to the return, `term_handler`
entered between any two of its steps, and the work that other threads still
have when `main` returns. `stage` is where main is; `mainLoop` is the loop and
whether it runs; `signals` is the history of signals, each with the stage it
found; `dead` is what has been used after its end.

| Action | Code |
|---|---|
| `ParseOptions`, `InstallHandlers`, `NewLoop`, `ConstructService`, `Attach`, `Run` | the statements of `main`, in order, with the ways they leave it |
| `Iterate`, `PollReturns`, `BusCall` | an iteration of the loop (external), the dispatch of a bus method |
| `TermHandler`, `Killed` | the handler, or the default action while it is not installed |
| `Unref`, `DestroyService`, `Return`, `Exit` | the end of `main`, destructors included |
| `Initialize`, `HandleOwn`, `HandleClients` | the thread of `std::async` and the dispatch thread |

### RequestMessages

The references of the `LSMessage` of each request: `Deliver`, `ParseError`,
`Register`, `Dispatch`, `Return`, `Release` are a bus method and the bus around
it; `LookUp`, `Wrap`, `Respond`, `Erase` are `CecLunaService::callback` on any
thread, during the method or long after it.

### The rest

`MC*` modules only give constants their values. `*Proofs` modules hold the
theorems.

## 3. What is checked

| Run | Shows | Bounds |
|---|---|---|
| `queue` (MessageQueue.cfg) | With spurious wake-ups, and the destructor at any moment or never: no wake-up is lost (`NoLostWakeup`), no re-lock (`NeverRelocks`), the destructor returns unless its notification falls into one window (`DestructorReturns`), the class implements the channel, liveness included: every message is taken, in order, unless the queue is destroyed (`ImplementsChannel`) | 2 producers, 3 messages |
| `service_sync` (CecServiceSync.cfg) | nyx synchronous, ids that wrap around: `mCmdList` mirrors what is held and queued (`InOrder`), and, as long as no more requests are outstanding than there are ids, the service implements `RequestLine`, liveness included: every accepted request is served once, in order, with its own answer (`ImplementsLine`) | 3 requests of 8 kinds, 2 of them and the constructor's overlapping, 2 ids |
| `service_async` (CecServiceAsync.cfg) | nyx late, in any order, and racing `m_clients`: no `front()` of an empty list (`FrontDefined`), casts to the right type (`CastSafe`), at most one reply (`AtMostOneReply`), the destination of an accepted command stays known (`DestinationsKnown`), an answer is dropped only while two commands are outstanding (`LossNeedsOverlap`) | 3 overlapping requests of 4 kinds and the constructor's, 2 devices |
| `service_patient` (CecServicePatient.cfg) | Clients one at a time, naming an adapter; nyx late, silent or forgetful, clients of forgotten commands giving up: only forgetting makes the service lose an answer, once the constructor's own listing has taken its command (`OnlyForgettingLoses`); no answer reaches two clients (`OneClientPerAnswer`) or one that asked later (`AnswersGoBack`); the dispatch thread goes on (`DispatchGoesOn`); every request is answered, empty answers included, unless it waits behind a forgotten command (`EveryRequestAnswered`) | 3 requests of 4 kinds and the constructor's; any of them forgotten |
| `service_refusal` (CecServiceRefusal.cfg) | *Violation*: see findings | 2 requests |
| `controller` (CecController.cfg) | A bus thread that may see the flag before the list, or all of it: `back()` is the default handler when a handler runs that was found in the whole list (`DefaultIsLast`), the future is got once (`FutureGotOnce`), the right handler takes a command (`TakenByFirst`), every command is taken, once, unless its thread never waited for the future (`EveryCommandTaken`) | 4 handlers, 3 ranks, 3 commands |
| `pipeline` (CommandPipeline.cfg) | For every command name and key, right and wrong: what validation accepts the callback answers (`AcceptedIsAnswered`), `args.front()` is defined (`FrontArgDefined`), nyx is asked what the client asked (`AsksWhatWasRequested`), the params stay within nine (`ParamsBounded`), the reply speaks only of what was asked (`PayloadWasAsked`) | lists of up to 6 arguments, answers of up to 2 lines |
| `pipeline_failure` (CommandPipelineFailure.cfg) | *Violation*: see findings | the same |
| `lists` (ResponseLists.cfg) | Two callbacks at once: no field of a device is read from another device's lines or lost (`ScanReplyFaithful`), the names in the reply to a listing are the list that requests are validated against, unless another listing got in between (`ListedIsAccepted`), a device that a reply names is known (`ScannedIsKnown`), the adapters are those of the last listing (`AdaptersOfLastListing`), the loops end (`CallbackEnds`), the device list is a table (`ImplementsTable`) | 2 threads, 2 answers: scans of up to 4 lines of 7 kinds, listings of up to 2 of 4 kinds |
| `lines` (ResponseLines.cfg) | What is cut out of a line: all that follows the first colon (`ValueIsTheRest`), all between the outer quotation marks whatever wraps (`QuotedIsBetweenMarks`), and the only line on which `substr` throws (`ThrowsOnBareWord`) | every line of up to 8 characters out of 4, a word of 2 |
| `lifecycle` (Lifecycle.cfg) | A signal is in vain only before the loop runs (`InVainOnlyEarly`), the loop once stopped the process ends (`SignalEndsService`), a released loop is quit by a second signal at the earliest (`ReleasedLoopNeedsTwoSignals`), a failed start leaves nothing at work (`FailedStartLeavesNothing`) | 2 signals, 2 calls |
| `messages` (RequestMessages.cfg) | A message is alive whenever it is used (`AliveWhenUsed`); each registered request keeps one reference for ever (`ReferencesBalance`) | 3 messages, 3 threads |

The type invariants, the inductive invariants and the invariants that only
strengthen others are not repeated in the runs: TLAPS proves them for every
value of the constants (section 4).

Why the bounds are enough. What the service does to a request depends on its
position in `mCmdList` and on the type of the commands around it: one command
before it, one after it and the constructor's own make every order of two
answers, every wrong match and every use of an id that is given again. Two
devices make a scan that replaces one entry while another is in use. Two
producers make a notification that belongs to the other's message, and three
messages one that is in no one's hands. A controller walk needs a handler that
declines, two of equal rank and a last one. Three lines are two devices with a
field, or one with two lines that compete for its fields, and a fourth fills a
field again. The lines of
eight characters hold the word of two with every character before and after
it, three quotation marks and two colons. Two signals are needed to quit a
released loop; a third meets no state of the loop that the second does not.
Three messages on three threads are one that the method holds, one that a
callback holds and one that only its registration holds.

Two bounds are assumptions about the environment and not only sizes.
`MaxRequests` ends the behaviour. `Window` keeps request n back until request
n - Window has been replied to and has left `m_clients`; with `Window =
MaxRequests` it holds nobody back. `service_sync` needs `Window <= IdMod`: with
65,536 ids in the code, 65,536 outstanding requests would be needed to
break it. `service_patient` needs `Window = 1`: with an asynchronous nyx and
overlapping requests answers do get lost (see section 5). A client whose command
nyx has forgotten gives up (`GivenUp`), or no request would follow it. It does so
once main is done with its request, no message or answer of it is queued or with
nyx (`Untaken`), and no callback works on its command or its answer (`InHand`;
what a callback has before it takes a command is the one it took last, and does
not count).

Fairness. Weak fairness of each thread's steps: threads are preempted, never
stopped, and none waits for a lock that another holds for ever (each critical
section of DefaultCecHandler is one action). nyx is one of these threads: what it
accepted, and did not forget, it answers. This is nyx's contract and nothing in
the service enforces it: the `timeout` of a command is only passed on, and
`service_patient` shows what follows when nyx forgets. Clients need not send,
spurious wake-ups need not happen, and nothing has to destroy the queue.
`NyxForgets` is not fair: nyx need not forget. In `Lifecycle`, main runs
(`WF_vars(MainStep)`), which includes that a poll returns: `g_main_loop_quit`
wakes it up and a signal interrupts it. No fairness is given to signals, nor to
the handler that waits for a lock of its own thread.
`service_async`, `lines` and `messages` check safety only.

`CHECK_DEADLOCK FALSE` in each configuration: a service with nothing left to
send is at rest.

## 4. What is proved

TLAPS checks, for every value of the constants that satisfies the named
assumption of the module (`QueueAssumption`, `ServiceAssumption`,
`ControllerAssumption`, `PipelineAssumption`, `ListsAssumption`,
`LinesAssumption`, `LifecycleAssumption`, `MessagesAssumption`, each as weak as
the code's own conditions):

- **MessageQueueProofs**: `QueueInvariant`, `NoWakeupLost`, `WaitLeavesWork`,
  `DispatchLoopSound`, `QueueImplementsChannel`. `NoLostWakeup` is not
  inductive: it needs `MutexDiscipline` (who owns the mutex at each program
  point, and that the queue is empty where the dispatch thread is about to
  sleep) and `DestructorOrder` (`mQuit` is set exactly when the destructor runs,
  which no producer overlaps). The refinement theorem maps every step to a step
  of the channel or a stutter.
- **CecServiceProofs**, in the order of the argument; each invariant is used by
  those after it:
  - `ServiceInvariant`, `ServiceTypes`, `EveryMessageHasCommand`, `FrontIsDefined`,
    `CastsAreSafe`. `FrontDefined` rests on a count: a command is appended to
    `mCmdList` before its message to `mQueue`, and a callback takes one command at
    most, so that the list is never shorter than the messages under way (`Owed`),
    whatever nyx answers, in whatever order, and whatever it forgets or the races
    of `m_clients` do. `ItemsFit` ties the lines a callback walks to the handler
    that parses them.
  - `BooksInvariant`: every command and message is of a request that was issued
    (`Books`). It gives `DestinationsStayKnown`, with the lemma that a scan
    replaces the entries of devices and forgets none (`DevicesKept`).
  - `OrderInvariant`: `mCmdList` ascends by request, behind what callbacks have
    taken and before what main works on (`Ordered`).
  - `AlignmentInvariant`: `mQueue` repeats the end of `mCmdList`, and `mType` and
    the type a callback was called with are those of commands at known places in
    it (`Aligned`). It gives `DropNeedsOverlap`, the action property
    `LossNeedsOverlap`: with one command outstanding the type of the front is
    always the handler's.
  - `TraceInvariant`: messages are taken in order, and each of their answers is in
    one place, with nyx, on a thread or given (`Traced`). It gives
    `AnswersAreSingle`.
  - `SynchronousIsInOrder`, for a synchronous nyx (`~NyxAsync`), from
    `FrontInHand`: the dispatch thread always works on the front.
  - `RegistryInvariant` and `RepliesAreSingle`, where `IdsSuffice`: an id of
    `m_clients` has one owner, the distance of `m_clientId` from an id in use is
    bounded by the requests since (`IdsKeepUp`), and who is still to be answered
    has not been (`Unreplied`).
  - `OneByOneInvariant`, `AnswersAreNotStale` and the action property
    `NothingElseGoesStale`, where clients send one at a time (`Window = 1`) and
    `IdsSuffice`: what has not been answered is the last request's or the
    constructor's (`LatestOnly`), and no answer is on its way to, or has reached,
    a later request than its own (`HandsForward`, `GivenForward`). An answer at
    the front then finds one command only, unless the constructor's message is
    itself without a command taken for it (`Untaken(0)`).
  - `LineInvariant` and `ServiceImplementsLine`, where nyx is synchronous, no
    access of `m_clients` overlaps (`~RacyMap`) and `IdsSuffice`: every step is a
    step of `RequestLine` or a stutter, under `line <- ClientLine`. That main
    decides each request before the next (`LastDecided`), that a command keeps its
    entry of `m_clients` (`StillRegistered`) and that the answer in the dispatch
    thread's hand is its command's (`OwnAnswer`) is what the mapping needs.

  The theorems without a hypothesis hold for a synchronous and an asynchronous nyx
  alike, with and without races, forgotten commands and any number of ids. The
  hypotheses of the others are about constants of the model, and the runs satisfy
  them; section 5 says what happens to overlapping requests with a late nyx.
  `IdsSuffice` is `(Window <= IdMod /\ ~NyxLossy) \/ MaxRequests <= IdMod`:
  an id that is given a second time while a command still goes by it leads the
  first answer to the second client. The code's ids are `uint16_t`
  (src/include/CecLunaService.h:50-51): it takes 65536 requests while one waits,
  which can only happen if nyx forgets that one or is silent for as long. The
  model has few ids, so that they do wrap around.
- **CecControllerProofs**: `ControllerInvariant`, `CreationSound`,
  `FutureIsGotOnce`, `DispatchSound`, `LossIsRace`, `BackIsDefault`. The
  strengthening is `Creation` (how far the creation is when the flag or the
  future says so), `Walk` (what the bus thread sees is a prefix of the list, and
  the handlers it has asked declined) and `LossIsLate`.
- **CommandPipelineProofs**: `PipelineInvariant`, `CallbackIsTotal`,
  `FrontArgIsDefined`, `QuestionIsFaithful`, `ParamsFit`, `ReplyIsOnTopic`: for
  any strings and lists of arguments, from the lemma `AcceptedCommand` about
  what validation lets through. `ParamsFit` counts: what is accepted has one
  argument, or arguments out of a set of five, besides the four headers.
- **ResponseListsProofs**: `ListsInvariant`, `ListsTypes`, `ListImplementsTable`,
  `RepliesAreKnown`, `AdaptersAreOfLastListing`, `ListingsAreAccepted`,
  `ScansAreFaithful`, for any number of threads and any lines. `DevicesInv` adds to the types that no address has two entries
  (`Distinct`): only then does erasing the *first* entry of an address replace
  the device. `AdaptersInv` says of each thread that walks a listing whether its
  lines belong to the last listing or to one that it overlapped; `AcceptedInv`
  that the reply and the list are equal, element by element, for as long as the
  thread that cleared the list last is alone at it. `ScansSound` follows a scan
  line by line: the blocks that have ended are in the reply (`Recorded`, the place
  of a block being the number of heads up to it), and the device of the block at
  hand is what the lines so far say (`ReadFrom`). The lemma `OneMoreLine` is the
  step of the inner loop: it extends the witness, the map from filled fields to
  the lines they were read from.
- **ResponseLinesProofs**: `OnlyBareWordThrows`, `ValuesAreWhole`,
  `QuotesAreKept`, for lines of any length that `size_t` can count. That there is
  a first colon or quotation mark, and a last one, is the well-foundedness of the
  naturals (`FirstIndex`, `LastIndex`); the rest is what the positions modulo
  2^w come to in each of the cases none, one and more marks.
- **LifecycleProofs**: `LifecycleInvariant`, `LifecycleTypes`,
  `SignalStopsLoop`, `ReleasedLoopIsSafeFromOneSignal`, `FailedStartIsClean`, for
  any number of signals and calls. The strengthening: what the stage of main says
  of the signals so far (`LoopHistory`), that each signal adds an element to the
  history (`Numbered`), and that no work exists that nobody started
  (`WorkHasOrigin`).
- **RequestMessagesProofs**: `MessagesInvariant`, `MessagesTypes`,
  `ReferencesAreCounted`, `NeverUsedAfterRelease`, for any number of requests and
  threads. `ReferencesBalance` is inductive together with `Placement`: which
  messages a method, a callback and `m_clients` can hold at each point.

Only model-checked: all liveness, that is `DestructorReturns`,
`EveryRequestAnswered`, `DispatchGoesOn`, `EveryCommandTaken`, `CallbackEnds`,
`SignalEndsService` and the fairness part of `ImplementsChannel` and
`ImplementsLine` (TLAPS proves nothing under fairness here). Every invariant and every action property of a passing run is a theorem.

## 5. What was learnt

Findings, with a run each:

1. `service_refusal`. `HandleListAdaptersCb` clears `mAdaptersList` in one
   critical section and refills it in others. A request validated in between is
   refused with "CEC adapter doesn't exist" although its adapter was listed
   before and is listed again.
2. `pipeline_failure`. `HandleSetConfigCb` replies `returnValue: true` whatever
   the answer, so a setting that nyx failed is reported as a success
   (src/handlers/DefaultCecHandler.cpp:602 has the TODO).

Limits of the design that the properties are stated around; no document
promises otherwise, so none of them is a finding:

- With an asynchronous nyx and overlapping requests the service loses answers:
  the handler is chosen by `mType`, the type of the message sent last, and if
  the front of `mCmdList` has another type the answer is dropped and the front
  stays. `LossNeedsOverlap` says this is the only way; `OnlyForgettingLoses` and
  `EveryRequestAnswered` hold when clients wait. The first client cannot know
  that it overlaps the constructor's own listing: it may be given the answer to
  that one, and while nyx still owes the other an answer may be dropped.
  `OnlyForgettingLoses` exempts just these steps, in which the constructor's
  message has had no command taken for it.
- A command that nyx forgets stays at the front of `mCmdList` for ever. Every
  later answer of its type then goes to the client before, and answers of other
  types are dropped. `AnswersGoBack` says that answers shift in this direction
  only.
- Each registered request takes a reference to its message that is never given
  back (`ReferencesBalance` counts it). It is also what keeps the message alive
  until the reply.
- Signals. One that comes before the loop runs is in vain. One that catches main
  in an iteration, with the lock of the main context held, waits in
  `g_main_loop_quit` for its own thread. A second signal after the loop has been
  released quits a loop that no longer exists. The properties of `Lifecycle` say
  that nothing else goes wrong.
- A line that is just the word "CEC version", or "logical address", makes
  `substr` throw on a thread that does not catch it. `ThrowsOnBareWord` says that
  it is the only such line.
- The same line is read in two ways: for "version" sendCommand cuts the word and
  one character off, getConfig takes what follows the colon. The two agree only
  if a colon is the one character between word and value.
- A failed listAdapters is answered by the made-up line "response: failed", which
  names no adapter: the list is empty until the next listing, and requests that
  name an adapter are refused.
- The destructor of MessageQueue notifies without the mutex and can hang if it
  falls between the test and the sleep. The service never destroys the queue.
- Flag and list of CecController race in theory (`LossNeedsRace`).

## 6. Not modelled

- `CecLunaService::postToClient` swallows an LS::Error of the reply: a client
  that has gone away changes nothing in the service's state.
- The constructor of MessageQueue that fails to open nyx: what nyx does with
  the handle is not in the repository.
- nyx answering unasked or twice: contract of an external library. With such
  answers `FrontDefined` is false at once.
- What a thread does that is still at work when `main` has returned and the
  static objects are destroyed: `Lifecycle` records that it happens (`dead`).
- Logging inside the signal handler, which is not async-signal-safe.
- JSON texts, error texts (CecErrors, Ls2Utils), logging (Logger), the command
  line's options, bus registration, build files. Getters and setters of
  `Command.h`.

## 7. Plan

Done, in this order: the queue every answer passes (MessageChannel,
MessageQueue), the service on top of the abstract queue (RequestLine,
CecService), what is independent of both (CecController, CommandPipeline), the
lines and lists (ResponseLists, DeviceTable, ResponseLines), start and end
(Lifecycle), messages (RequestMessages), a nyx that forgets (`NyxForgets`),
with the proofs above.

Next: the parts of section 6 that the source supports better than the model
does, first of all what the threads do while the static objects are destroyed;
and `NoLostWakeup` stated of the service as a whole, with the class in place of
the abstract queue.
