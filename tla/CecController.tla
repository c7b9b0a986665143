--------------------------- MODULE CecController ----------------------------
(***************************************************************************)
(* CecController: handlers register themselves, from the initialisers of   *)
(* static variables, in a list ordered by rank; a thread of std::async     *)
(* creates them, in that order; the bus thread hands each command to the   *)
(* handlers in turn until one takes it.  The first commands may find the   *)
(* creation under way: m_InitFut.get() makes them wait for it.             *)
(*                                                                         *)
(* mInitlialized and mHandlerList are written by one thread and read by    *)
(* the other without a lock.  With WeakMemory = TRUE a bus thread that     *)
(* sees the flag set, and has not waited for the future, may still see     *)
(* only some of the handlers appended before it.                           *)
(***************************************************************************)
EXTENDS Naturals, Sequences, SequencesExt

CONSTANTS
  Handlers,      \* the classes that register themselves
  Rank,          \* the HandlerRank of each
  Default,       \* DefaultCecHandler
  Commands,      \* the commands that the service may pass on
  Takes,         \* the commands for which HandleCommand of a handler is true
  NoHandler,     \* the outcome of a command that nobody took
  WeakMemory     \* may the bus thread see the flag before the list?

\* DefaultCecHandler has the last rank and takes every command.
ASSUME ControllerAssumption ==
  /\ Rank \in [Handlers -> Nat]
  /\ Takes \in [Handlers -> SUBSET Commands]
  /\ Default \in Handlers /\ Takes[Default] = Commands
  /\ \A h \in Handlers \ {Default} : Rank[h] < Rank[Default]
  /\ NoHandler \notin Handlers
  /\ WeakMemory \in BOOLEAN

VARIABLES
  mCreatorList,   \* registered handlers, lowest rank first
  mHandlerList,   \* created handlers
  mInitlialized,
  m_InitFut,      \* "none", "running", "ready" or "got"
  mpc,            \* where the bus thread is
  command,        \* the command it works on
  seen,           \* what it sees of mHandlerList
  next,           \* position of the next handler to ask
  outcome         \* history: the handlers that took each command

creationVars == <<mCreatorList, mHandlerList, mInitlialized>>
busVars == <<mpc, command, seen, next, outcome>>
vars == <<creationVars, m_InitFut, busVars>>

Elements(s) == {s[i] : i \in DOMAIN s}

-----------------------------------------------------------------------------
(* Before main: RegisterObject of each handler, in the order in which the  *)
(* program initialises its static variables, which may be any.             *)

RegisterLast(h) ==
  /\ mpc = "static"
  /\ h \notin Elements(mCreatorList)
  /\ mCreatorList' = Append(mCreatorList, h)
  /\ UNCHANGED <<mHandlerList, mInitlialized, m_InitFut, busVars>>

\* Insert before the first creator of a higher rank, or at the end.
Register(h) ==
  /\ mpc = "static"
  /\ h \notin Elements(mCreatorList)
  /\ \E i \in 1..(Len(mCreatorList) + 1) :
       /\ \A j \in 1..(i - 1) : Rank[mCreatorList[j]] <= Rank[h]
       /\ i <= Len(mCreatorList) => Rank[mCreatorList[i]] > Rank[h]
       /\ mCreatorList' = InsertAt(mCreatorList, i, h)
  /\ UNCHANGED <<mHandlerList, mInitlialized, m_InitFut, busVars>>

\* The constructor of CecLunaService, then the main loop.
StartService ==
  /\ mpc = "static"
  /\ Elements(mCreatorList) = Handlers
  /\ m_InitFut' = "running"
  /\ mpc' = "idle"
  /\ UNCHANGED <<creationVars, command, seen, next, outcome>>

-----------------------------------------------------------------------------
(* initialize, on the thread of std::async.                                *)

CreateHandler ==
  /\ m_InitFut = "running"
  /\ ~mInitlialized
  /\ Len(mHandlerList) < Len(mCreatorList)
  /\ mHandlerList' = Append(mHandlerList, mCreatorList[Len(mHandlerList) + 1])
  /\ UNCHANGED <<mCreatorList, mInitlialized, m_InitFut, busVars>>

SetInitialized ==
  /\ m_InitFut = "running"
  /\ ~mInitlialized
  /\ Len(mHandlerList) = Len(mCreatorList)
  /\ mInitlialized' = TRUE
  /\ UNCHANGED <<mCreatorList, mHandlerList, m_InitFut, busVars>>

FinishUninitialized ==
  /\ m_InitFut = "running"
  /\ Len(mHandlerList) = Len(mCreatorList)
  /\ m_InitFut' = "ready"
  /\ UNCHANGED <<creationVars, busVars>>

\* return true: the shared state of the future becomes ready.
FinishInitialize ==
  /\ m_InitFut = "running"
  /\ mInitlialized
  /\ m_InitFut' = "ready"
  /\ UNCHANGED <<creationVars, busVars>>

-----------------------------------------------------------------------------
(* HandleCommand, on the bus thread.                                       *)

BusCommand(c) ==
  /\ mpc = "idle"
  /\ outcome[c] = <<>>        \* bound: each command is sent once
  /\ command' = c
  /\ mpc' = "check"
  /\ UNCHANGED <<creationVars, m_InitFut, seen, next, outcome>>

\* What the bus thread may see of the list once it has seen the flag.
Visible ==
  IF WeakMemory /\ m_InitFut # "got"
  THEN {SubSeq(mHandlerList, 1, k) : k \in 0..Len(mHandlerList)}
  ELSE {mHandlerList}

CheckInitialized ==
  /\ mpc = "check"
  /\ IF mInitlialized
     THEN seen' \in Visible /\ next' = 1 /\ mpc' = "ask"
     ELSE mpc' = "get" /\ UNCHANGED <<seen, next>>
  /\ UNCHANGED <<creationVars, m_InitFut, command, outcome>>

GetFutureNoWait ==
  /\ mpc = "get"
  /\ m_InitFut' = "got"
  /\ seen' = mHandlerList
  /\ next' = 1
  /\ mpc' = "ask"
  /\ UNCHANGED <<creationVars, command, outcome>>

\* get() waits for the future and leaves it without a shared state; a second
\* get() would throw.
GetFuture ==
  /\ mpc = "get"
  /\ m_InitFut = "ready"
  /\ m_InitFut' = "got"
  /\ seen' = mHandlerList
  /\ next' = 1
  /\ mpc' = "ask"
  /\ UNCHANGED <<creationVars, command, outcome>>

AskHandlerToTheEnd ==
  /\ mpc = "ask"
  /\ next <= Len(seen)
  /\ next' = next + 1
  /\ outcome' = IF command \in Takes[seen[next]]
                THEN [outcome EXCEPT ![command] = Append(@, seen[next])]
                ELSE outcome
  /\ mpc' = IF next = Len(seen) THEN "idle" ELSE "ask"
  /\ UNCHANGED <<creationVars, m_InitFut, command, seen>>

\* The first handler that returns true ends the walk.
AskHandler ==
  /\ mpc = "ask"
  /\ next <= Len(seen)
  /\ IF command \in Takes[seen[next]]
     THEN /\ outcome' = [outcome EXCEPT ![command] = Append(@, seen[next])]
          /\ mpc' = "idle"
          /\ UNCHANGED next
     ELSE next' = next + 1 /\ UNCHANGED <<mpc, outcome>>
  /\ UNCHANGED <<creationVars, m_InitFut, command, seen>>

\* return false, which CecLunaService ignores: nobody replies.
NobodyTakes ==
  /\ mpc = "ask"
  /\ next > Len(seen)
  /\ outcome' = [outcome EXCEPT ![command] = Append(@, NoHandler)]
  /\ mpc' = "idle"
  /\ UNCHANGED <<creationVars, m_InitFut, command, seen, next>>

-----------------------------------------------------------------------------
Init ==
  /\ mCreatorList = <<>>
  /\ mHandlerList = <<>>
  /\ mInitlialized = FALSE
  /\ m_InitFut = "none"
  /\ mpc = "static"
  /\ command \in Commands
  /\ seen = <<>>
  /\ next = 1
  /\ outcome = [c \in Commands |-> <<>>]

InitStep == CreateHandler \/ SetInitialized \/ FinishInitialize

BusStep == CheckInitialized \/ GetFuture \/ AskHandler \/ NobodyTakes

Next ==
  \/ \E h \in Handlers : Register(h)
  \/ StartService
  \/ InitStep
  \/ \E c \in Commands : BusCommand(c)
  \/ BusStep

SafeSpec == Init /\ [][Next]_vars

\* Both threads run; no client has to send a command.
Spec == SafeSpec /\ WF_vars(InitStep) /\ WF_vars(BusStep)

-----------------------------------------------------------------------------
(* Properties.                                                             *)

\* The types of the members of CecController (include/private/CecController.h
\* lines 40-54) and of the bus thread's locals.
TypeOK ==
  /\ mCreatorList \in Seq(Handlers)
  /\ mHandlerList \in Seq(Handlers)
  /\ mInitlialized \in BOOLEAN
  /\ m_InitFut \in {"none", "running", "ready", "got"}
  /\ mpc \in {"static", "idle", "check", "get", "ask"}
  /\ command \in Commands
  /\ seen \in Seq(Handlers)
  /\ next \in Nat \ {0}
  /\ outcome \in [Commands -> Seq(Handlers \cup {NoHandler})]

\* Whatever the order of the static initialisers, the creators are ordered by
\* rank (lines 77-87 of src/handlers/CecController.cpp).
RankOrder ==
  \A i, j \in DOMAIN mCreatorList :
    i < j => Rank[mCreatorList[i]] <= Rank[mCreatorList[j]]

\* m_InitFut.get() is called once at most: a second call would throw
\* std::future_error out of the bus method.
FutureGotOnce == mpc = "get" => m_InitFut # "got"

\* A handler that takes a command is the first, by rank, of those that would,
\* even when the walk sees only part of the list.
TakenByFirst ==
  \A c \in Commands : \A i \in DOMAIN outcome[c] :
    LET h == outcome[c][i]
    IN h # NoHandler =>
         \A g \in Handlers : c \in Takes[g] => Rank[h] <= Rank[g]

\* GetDeviceInfo calls back() of the handler list for the default handler: so
\* it is whenever a handler runs, if the walk sees the list as it is.
DefaultIsLast ==
  mpc = "ask" /\ next <= Len(seen) /\ seen = mHandlerList => seen[Len(seen)] = Default

\* A command that no handler takes has overtaken the creation of the handlers
\* in a bus thread that never waited for the future.
LossNeedsRace ==
  \A c \in Commands :
    Contains(outcome[c], NoHandler) => WeakMemory /\ m_InitFut # "got"

\* The inductive invariant behind these.  Creation: how far the creation is
\* when the flag is set or the future has a value.  Walk: what the bus thread
\* sees, and that the handlers it has asked declined.  LossIsLate: a bus
\* thread about to wait for the future has not lost a command.
Creation ==
  /\ mpc = "static" <=> m_InitFut = "none"
  /\ mpc = "static" => mHandlerList = <<>> /\ ~mInitlialized
  /\ mpc # "static" => Handlers \subseteq Elements(mCreatorList)
  /\ Len(mHandlerList) <= Len(mCreatorList)
  /\ \A i \in DOMAIN mHandlerList : mHandlerList[i] = mCreatorList[i]
  /\ mInitlialized => Len(mHandlerList) = Len(mCreatorList)
  /\ m_InitFut \in {"ready", "got"} => mInitlialized

Walk ==
  mpc = "ask" =>
    /\ mInitlialized
    /\ Len(seen) <= Len(mHandlerList)
    /\ \A i \in DOMAIN seen : seen[i] = mHandlerList[i]
    /\ ~WeakMemory \/ m_InitFut = "got" => seen = mHandlerList
    /\ \A j \in DOMAIN seen : j < next => command \notin Takes[seen[j]]

LossIsLate ==
  \A c \in Commands :
    Contains(outcome[c], NoHandler) => mInitlialized /\ mpc # "get"

ControllerInv ==
  TypeOK /\ RankOrder /\ Creation /\ Walk /\ LossIsLate /\ FutureGotOnce
    /\ TakenByFirst /\ LossNeedsRace

\* Every command is handed to a handler that takes it, once; or the bus thread
\* has seen the flag before the list, and has not yet waited for the future.
LostToRace(c) == WeakMemory /\ m_InitFut # "got" /\ outcome[c] = <<NoHandler>>

EveryCommandTaken ==
  \A c \in Commands :
    (mpc # "static" /\ mpc # "idle" /\ command = c) ~>
      (LostToRace(c) \/ (Len(outcome[c]) = 1 /\ outcome[c][1] # NoHandler))
=============================================================================
