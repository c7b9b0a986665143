----------------------------- MODULE Lifecycle ------------------------------
(***************************************************************************)
(* The life of the process: main starts the service and runs the main loop *)
(* until a signal handler quits it, then releases the loop, destroys the   *)
(* service and returns, while the thread of std::async and the dispatch    *)
(* thread, which nobody joins (the handlers that own them are never        *)
(* deleted), may still be at work.                                         *)
(*                                                                         *)
(* A signal interrupts main between any two of its steps, and its handler  *)
(* runs to its end there: Linux gives a signal of the process to the main  *)
(* thread whenever that does not block it, so the others take none.  Of    *)
(* the main loop of GLib the model keeps the flag is_running and the lock  *)
(* of its context, which g_main_loop_quit needs and an iteration holds     *)
(* except while it polls or dispatches.                                    *)
(***************************************************************************)
EXTENDS Naturals, FiniteSets

CONSTANTS
  MaxSignals,   \* bound: signals in a behaviour
  MaxCalls      \* bound: calls of bus methods in a behaviour

ASSUME LifecycleAssumption == MaxSignals \in Nat /\ MaxCalls \in Nat

Signals == {"SIGTERM", "SIGINT"}

VARIABLES
  stage,      \* where main is
  handled,    \* signals that term_handler handles
  mainLoop,   \* "null", "stopped", "running" or "freed"
  service,    \* the local variable of main: "none", "alive" or "destroyed"
  lists,      \* the static lists: "alive" or "destroyed"
  init,       \* the thread of std::async: "none", "running" or "done"
  jobs,       \* messages that the dispatch thread has to handle: those of the
              \* constructor (own) and those of clients
  calls,      \* calls of bus methods so far
  signals,    \* history: the stages at which term_handler has run
  dead        \* history: what was used when it no longer existed

vars == <<stage, handled, mainLoop, service, lists, init, jobs, calls, signals, dead>>
objects == <<mainLoop, service, lists>>
work == <<init, jobs, calls>>
history == <<signals, dead>>

Running == {"locked", "poll", "dispatch"}
Ended == {"gone", "killed", "terminated", "stuck"}

Goto(label) == stage' = label

-----------------------------------------------------------------------------
(* main, up to the loop.                                                   *)

\* exit(1), or exit(0) after --help, before anything is set up.
ParseOptions ==
  /\ stage = "parse"
  /\ Goto("sigterm") \/ Goto("gone")
  /\ UNCHANGED <<handled, objects, work, history>>

\* signal(SIGTERM, term_handler); signal(SIGINT, term_handler)
Handle(here, s, next) ==
  /\ stage = here
  /\ handled' = handled \cup {s}
  /\ Goto(next)
  /\ UNCHANGED <<objects, work, history>>
InstallHandlers == Handle("sigterm", "SIGTERM", "sigint") \/ Handle("sigint", "SIGINT", "new")

NewLoop ==
  /\ stage = "new"
  /\ mainLoop' = "stopped"
  /\ Goto("construct")
  /\ UNCHANGED <<handled, service, lists, work, history>>

ConstructAsyncFirst ==
  /\ stage = "construct"
  /\ init' = "running"
  /\ \/ Goto("attach") /\ service' = "alive"
     \/ Goto("return") /\ UNCHANGED service
  /\ UNCHANGED <<handled, mainLoop, lists, jobs, calls, history>>

\* The constructor of CecLunaService: LS::Error of the registration leaves
\* main before std::async; what std::async itself throws is not caught.
ConstructService ==
  /\ stage = "construct"
  /\ \/ Goto("attach") /\ service' = "alive" /\ init' = "running"
     \/ Goto("return") /\ UNCHANGED <<service, init>>
     \/ Goto("terminated") /\ UNCHANGED <<service, init>>
  /\ UNCHANGED <<handled, mainLoop, lists, jobs, calls, history>>

AttachReleases ==
  /\ stage = "attach"
  /\ Goto("run") \/ Goto("unref")
  /\ UNCHANGED <<handled, objects, work, history>>

\* attachToLoop may throw LS::Error too, when the thread is running.
Attach ==
  /\ stage = "attach"
  /\ Goto("run") \/ Goto("destroy")
  /\ UNCHANGED <<handled, objects, work, history>>

-----------------------------------------------------------------------------
(* g_main_loop_run.                                                        *)

Run ==
  /\ stage = "run"
  /\ mainLoop' = "running"
  /\ Goto("locked")
  /\ UNCHANGED <<handled, service, lists, work, history>>

IterateForever ==
  /\ stage = "locked"
  /\ Goto("poll") \/ Goto("dispatch")
  /\ UNCHANGED <<handled, objects, work, history>>

Iterate ==
  /\ stage = "locked"
  /\ IF mainLoop = "running" THEN Goto("poll") \/ Goto("dispatch") ELSE Goto("unref")
  /\ UNCHANGED <<handled, objects, work, history>>

PollReturns ==
  /\ stage = "poll"
  /\ Goto("locked")
  /\ UNCHANGED <<handled, objects, work, history>>

\* A bus method: CecController::HandleCommand waits for the thread of
\* std::async, then the command is queued, or refused.
BusCall ==
  /\ stage = "dispatch"
  /\ IF calls < MaxCalls
     THEN /\ init = "done"
          /\ calls' = calls + 1
          /\ jobs' \in {jobs, [jobs EXCEPT !.clients = @ + 1]}
     ELSE UNCHANGED <<calls, jobs>>
  /\ Goto("locked")
  /\ UNCHANGED <<handled, objects, init, history>>

-----------------------------------------------------------------------------
(* main, after the loop.                                                   *)

Unref ==
  /\ stage = "unref"
  /\ mainLoop' = "freed"
  /\ Goto("destroy")
  /\ UNCHANGED <<handled, service, lists, work, history>>

DestroyService ==
  /\ stage = "destroy"
  /\ service' = "destroyed"
  /\ Goto("return")
  /\ UNCHANGED <<handled, mainLoop, lists, work, history>>

\* return 0: the static objects are destroyed, then the process ends.
Return ==
  /\ stage = "return"
  /\ lists' = "destroyed"
  /\ Goto("exit")
  /\ UNCHANGED <<handled, mainLoop, service, work, history>>

Exit ==
  /\ stage = "exit"
  /\ Goto("gone")
  /\ UNCHANGED <<handled, objects, work, history>>

-----------------------------------------------------------------------------
(* Signals.                                                                *)

\* The default action of a signal that is not handled yet.
Killed(s) ==
  /\ stage \notin Ended
  /\ s \notin handled
  /\ Goto("killed")
  /\ UNCHANGED <<handled, objects, work, history>>

\* g_main_loop_quit by a thread that holds the lock of the context waits for
\* itself; it refuses a null loop, and does not know that one was released.
TermHandlerKeepsLoop(s) ==
  /\ stage \notin Ended
  /\ s \in handled
  /\ Cardinality(signals) < MaxSignals
  /\ signals' = signals \cup {<<Cardinality(signals), stage>>}
  /\ UNCHANGED <<stage, handled, objects, work, dead>>

TermHandler(s) ==
  /\ stage \notin Ended
  /\ s \in handled
  /\ Cardinality(signals) < MaxSignals
  /\ signals' = signals \cup {<<Cardinality(signals), stage>>}
  /\ IF stage = "locked" THEN Goto("stuck") ELSE UNCHANGED stage
  /\ mainLoop' = IF mainLoop = "running" /\ stage # "locked" THEN "stopped" ELSE mainLoop
  /\ dead' = IF mainLoop = "freed" THEN dead \cup {"loop"} ELSE dead
  /\ UNCHANGED <<handled, service, lists, work>>

-----------------------------------------------------------------------------
(* The other threads, while the process lives.                             *)

Use(things) ==
  dead' = dead \cup {o \in things : \/ o = "service" /\ service = "destroyed"
                                    \/ o = "lists" /\ lists = "destroyed"}

\* CecController::initialize: the constructor of DefaultCecHandler uses
\* mCmdList and queues its own message.
Initialize ==
  /\ stage \notin Ended
  /\ init = "running"
  /\ init' = "done"
  /\ jobs' = [jobs EXCEPT !.own = 1]
  /\ Use({"lists"})
  /\ UNCHANGED <<stage, handled, objects, calls, signals>>

\* The callback of a message uses the lists; that of a client's command, the
\* service as well.
HandleOwn ==
  /\ stage \notin Ended
  /\ jobs.own = 1
  /\ jobs' = [jobs EXCEPT !.own = 0]
  /\ Use({"lists"})
  /\ UNCHANGED <<stage, handled, objects, init, calls, signals>>

HandleClients ==
  /\ stage \notin Ended
  /\ jobs.clients > 0
  /\ jobs' = [jobs EXCEPT !.clients = @ - 1]
  /\ Use({"lists", "service"})
  /\ UNCHANGED <<stage, handled, objects, init, calls, signals>>

-----------------------------------------------------------------------------
Init ==
  /\ stage = "parse"
  /\ handled = {}
  /\ mainLoop = "null" /\ service = "none" /\ lists = "alive"
  /\ init = "none" /\ jobs = [own |-> 0, clients |-> 0] /\ calls = 0
  /\ signals = {} /\ dead = {}

MainStep ==
  \/ ParseOptions \/ InstallHandlers \/ NewLoop \/ ConstructService \/ Attach
  \/ Run \/ Iterate \/ PollReturns \/ BusCall
  \/ Unref \/ DestroyService \/ Return \/ Exit

Next ==
  \/ MainStep \/ Initialize \/ HandleOwn \/ HandleClients
  \/ \E s \in Signals : Killed(s) \/ TermHandler(s)

\* main runs, a poll returns (quitting the loop wakes it), and the creation
\* of the handlers comes to its end.
Spec == Init /\ [][Next]_vars /\ WF_vars(MainStep) /\ WF_vars(Initialize)

-----------------------------------------------------------------------------
(* Properties.                                                             *)

\* Where term_handler found main.
Interrupted == {s[2] : s \in signals}

TypeOK ==
  /\ stage \in {"parse", "sigterm", "sigint", "new", "construct", "attach", "run",
                "unref", "destroy", "return", "exit"} \cup Running \cup Ended
  /\ handled \subseteq Signals
  /\ mainLoop \in {"null", "stopped", "running", "freed"}
  /\ service \in {"none", "alive", "destroyed"}
  /\ lists \in {"alive", "destroyed"}
  /\ init \in {"none", "running", "done"}
  /\ jobs \in [own: {0, 1}, clients: 0..MaxCalls]
  /\ calls \in 0..MaxCalls
  /\ dead \subseteq {"loop", "service", "lists"}

\* A signal is in vain only if it comes before g_main_loop_run (src/Main.cpp
\* lines 75 to 84): one that finds the loop at work stops it, for good, or
\* never returns from its handler.
InVainOnlyEarly == stage \in Running /\ mainLoop = "running" => Interrupted \cap Running = {}

\* Having stopped the loop, the process ends: main waits for nothing but the
\* creation of the handlers, unless a further signal catches it in the lock.
SignalEndsService ==
  (stage \in Running /\ mainLoop = "stopped") ~> (stage \in Ended)

\* The released loop (line 85) is used by a second signal only, one that comes
\* after the signal that made main leave the loop.
ReleasedLoopNeedsTwoSignals ==
  "loop" \in dead => /\ Cardinality(signals) >= 2
                     /\ Interrupted \cap {"poll", "dispatch"} # {}

\* A failed start (LS::Error of the registration) leaves no thread behind that
\* uses the destroyed static lists: nothing runs before std::async.
FailedStartLeavesNothing == service = "none" => dead \subseteq {"loop"}
=============================================================================
