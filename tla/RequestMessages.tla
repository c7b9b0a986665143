--------------------------- MODULE RequestMessages --------------------------
(***************************************************************************)
(* Who keeps the LSMessage of a request alive.  The bus lets go of it when *)
(* the method returns; the reply may be sent much later, by another        *)
(* thread, from the bare pointer in m_clients.  Messages are counted by    *)
(* reference: LSMessageRef by hand in the methods, and an LS::Message as a *)
(* local variable of a method and of the callback.                         *)
(*                                                                         *)
(* Which request a callback is for, and on which thread it runs, is the    *)
(* business of module CecService.                                          *)
(***************************************************************************)
EXTENDS Naturals, FiniteSets

CONSTANTS
  Messages,   \* the messages of the bus
  Callers     \* the threads besides main that run callbacks

ASSUME MessagesAssumption == "main" \notin Callers /\ IsFiniteSet(Callers)

Threads == {"main"} \cup Callers

VARIABLES
  refcount,    \* message -> references to it; it is destroyed at zero
  delivered,   \* the messages that the bus has delivered
  method,      \* where the bus method is that main runs
  m_clients,   \* the messages registered
  owed,        \* the messages whose command will be called back for
  pc,          \* where the callback of each thread is
  message,     \* the message each thread works on
  replied,     \* history: the messages replied to
  registered   \* history: the messages that were registered

vars == <<refcount, delivered, method, m_clients, owed, pc, message, replied,
          registered>>
busVars == <<delivered, method>>
callbackVars == <<m_clients, owed, pc, message, replied, registered>>

Ref(m) == refcount' = [refcount EXCEPT ![m] = @ + 1]
Unref(m) == refcount' = [refcount EXCEPT ![m] = @ - 1]
Goto(t, label) == pc' = [pc EXCEPT ![t] = label]

-----------------------------------------------------------------------------
(* A bus method.                                                           *)

\* The bus holds one reference, LS::Message request(&message) takes another.
Deliver(m) ==
  /\ method = "none"
  /\ m \notin delivered
  /\ delivered' = delivered \cup {m}
  /\ refcount' = [refcount EXCEPT ![m] = 2]
  /\ message' = [message EXCEPT !["main"] = m]
  /\ method' = "parse"
  /\ UNCHANGED <<m_clients, owed, pc, replied, registered>>

\* The payload does not parse: an error is returned, nothing is registered.
ParseError ==
  /\ method = "parse"
  /\ replied' = replied \cup {message["main"]}
  /\ method' = "return"
  /\ UNCHANGED <<refcount, delivered, m_clients, owed, pc, message, registered>>

RegisterWithoutRef ==
  /\ method = "parse"
  /\ m_clients' = m_clients \cup {message["main"]}
  /\ registered' = registered \cup {message["main"]}
  /\ method' = "command"
  /\ UNCHANGED <<refcount, delivered, owed, pc, message, replied>>

RegisterTwice ==
  /\ method = "parse"
  /\ refcount' = [refcount EXCEPT ![message["main"]] = @ + 2]
  /\ m_clients' = m_clients \cup {message["main"]}
  /\ registered' = registered \cup {message["main"]}
  /\ method' = "command"
  /\ UNCHANGED <<delivered, owed, pc, message, replied>>

\* LSMessageRef(requestMessage); m_clients[++m_clientId] = requestMessage
Register ==
  /\ method = "parse"
  /\ Ref(message["main"])
  /\ m_clients' = m_clients \cup {message["main"]}
  /\ registered' = registered \cup {message["main"]}
  /\ method' = "command"
  /\ UNCHANGED <<delivered, owed, pc, message, replied>>

\* The command is queued, to be called back for later, or refused: then main
\* runs the callback itself before the method returns.
Dispatch ==
  /\ method = "command"
  /\ \/ owed' = owed \cup {message["main"]} /\ UNCHANGED pc
     \/ Goto("main", "lookup") /\ UNCHANGED owed
  /\ method' = "return"
  /\ UNCHANGED <<refcount, delivered, m_clients, message, replied, registered>>

\* The local LS::Message ends, then the bus lets go.
Return ==
  /\ method = "return"
  /\ pc["main"] = "idle"
  /\ Unref(message["main"])
  /\ method' = "release"
  /\ UNCHANGED <<delivered, callbackVars>>

Release ==
  /\ method = "release"
  /\ Unref(message["main"])
  /\ method' = "none"
  /\ UNCHANGED <<delivered, callbackVars>>

-----------------------------------------------------------------------------
(* CecLunaService::callback.                                               *)

Begin(t, m) ==
  /\ pc[t] = "idle"
  /\ m \in owed
  /\ owed' = owed \ {m}
  /\ message' = [message EXCEPT ![t] = m]
  /\ Goto(t, "lookup")
  /\ UNCHANGED <<refcount, busVars, m_clients, replied, registered>>

LookUp(t) ==
  /\ pc[t] = "lookup"
  /\ Goto(t, IF message[t] \in m_clients THEN "wrap" ELSE "idle")
  /\ UNCHANGED <<refcount, busVars, m_clients, owed, message, replied, registered>>

\* LS::Message request(requestMessage), of the pointer found.
Wrap(t) ==
  /\ pc[t] = "wrap"
  /\ Ref(message[t])
  /\ Goto(t, "respond")
  /\ UNCHANGED <<busVars, m_clients, owed, message, replied, registered>>

Respond(t) ==
  /\ pc[t] = "respond"
  /\ replied' = replied \cup {message[t]}
  /\ Goto(t, "erase")
  /\ UNCHANGED <<refcount, busVars, m_clients, owed, message, registered>>

\* The entry is erased, and the local LS::Message ends.  Nobody gives back the
\* reference that Register took.
Erase(t) ==
  /\ pc[t] = "erase"
  /\ m_clients' = m_clients \ {message[t]}
  /\ Unref(message[t])
  /\ Goto(t, "idle")
  /\ UNCHANGED <<busVars, owed, message, replied, registered>>

-----------------------------------------------------------------------------
Init ==
  /\ refcount = [m \in Messages |-> 0]
  /\ delivered = {}
  /\ method = "none"
  /\ m_clients = {} /\ owed = {} /\ replied = {} /\ registered = {}
  /\ pc = [t \in Threads |-> "idle"]
  /\ message \in [Threads -> Messages]

MethodStep ==
  (\E m \in Messages : Deliver(m)) \/ ParseError \/ Register \/ Dispatch \/ Return \/ Release

CallbackStep(t) == LookUp(t) \/ Wrap(t) \/ Respond(t) \/ Erase(t)

Next ==
  \/ MethodStep
  \/ \E t \in Callers, m \in Messages : Begin(t, m)
  \/ \E t \in Threads : CallbackStep(t)

Spec == Init /\ [][Next]_vars

-----------------------------------------------------------------------------
(* Properties.                                                             *)

TypeOK ==
  /\ refcount \in [Messages -> Nat]
  /\ delivered \subseteq Messages
  /\ method \in {"none", "parse", "command", "return", "release"}
  /\ m_clients \subseteq Messages /\ owed \subseteq Messages
  /\ replied \subseteq Messages /\ registered \subseteq Messages
  /\ pc \in [Threads -> {"idle", "lookup", "wrap", "respond", "erase"}]
  /\ message \in [Threads -> Messages]

\* The message is alive whenever its pointer is used, however late the answer
\* and whatever main does meanwhile (src/CecLunaService.cpp lines 70 and 304).
AliveWhenUsed ==
  /\ method # "none" => refcount[message["main"]] > 0
  /\ \A t \in Threads : pc[t] # "idle" => refcount[message[t]] > 0

\* The references to a message are those of the bus and the method while it
\* runs, one of each callback that holds it, and the one that Register took:
\* a message that was registered outlives its reply by that one reference, for
\* ever (line 71 has no LSMessageUnref), and one that was not is released.
HeldByMethod(m) ==
  IF message["main"] # m \/ method = "none" THEN 0
  ELSE IF method = "release" THEN 1 ELSE 2
HeldByCallbacks(m) == {t \in Threads : message[t] = m /\ pc[t] \in {"respond", "erase"}}

ReferencesBalance ==
  \A m \in Messages :
    refcount[m] = HeldByMethod(m) + Cardinality(HeldByCallbacks(m))
                    + (IF m \in registered THEN 1 ELSE 0)
=============================================================================
