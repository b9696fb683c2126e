------------------------------ MODULE Lifecycle ------------------------------
(***************************************************************************)
(* Startup and shutdown of one NinjaAPI (lifecycle.go): the goroutine that *)
(* is inside Serve, the goroutines that call Shutdown, the lifecycleState  *)
(* monitor between them and the net/http server underneath.                *)
(*                                                                         *)
(* A step is what a goroutine does between two points where another one    *)
(* can interfere: one critical section of lifecycle.mu or serverState.mu,  *)
(* one hook, or one call into net/http.                                    *)
(***************************************************************************)
EXTENDS Naturals, Sequences

CONSTANTS
  ServeThread,    \* the goroutine that calls Serve
  Closers,        \* goroutines that call Shutdown
  StartupHooks,   \* number of registered startup hooks
  MaxServes,      \* bound: how often Serve is called, one call after another
  MaxHooks,       \* bound: shutdown hooks registered with OnShutdown
  MaxInflight,    \* bound: requests one server handles at the same time
  NoServer        \* the nil *http.Server

ASSUME LifecycleAssumption ==
  /\ ServeThread \notin Closers
  /\ StartupHooks \in Nat /\ MaxServes \in Nat
  /\ MaxHooks \in Nat /\ MaxInflight \in Nat
  /\ NoServer \notin Nat

VARIABLES
  \* lifecycleState
  starting, generation, shutdownGeneration,
  \* serverState, and the http.Servers made so far, numbered from 1
  server, accepting, servers,
  \* the number of hooks OnShutdown has registered, in registration order
  hooks,
  \* net/http (external): servers told to shut down, requests being handled
  inShutdown, inflight,
  \* the goroutines: program counter, server in hand, position in the hooks,
  \* and the generation whose shutdown hooks the goroutine claimed
  pc, hand, pos, claimed,
  \* history: the shutdown hooks run for each generation, in order
  ran

lifecycleVars == <<starting, generation, shutdownGeneration>>
serverVars    == <<server, accepting, servers>>
httpVars      == <<inShutdown, inflight>>
threadVars    == <<pc, hand, pos, claimed>>
vars == <<lifecycleVars, serverVars, hooks, httpVars, threadVars, ran>>

Threads     == Closers \cup {ServeThread}
ServerIds   == 1..MaxServes
Generations == 0..MaxServes

Locations ==
  {"idle", "begin", "startup", "startupOK", "startupErr", "accept", "serve", "clear",
   "stop", "drain", "enter", "condWait", "snapshot", "hooks"}

Goto(t, location) == pc' = [pc EXCEPT ![t] = location]

TypeOK ==
  /\ starting \in BOOLEAN /\ accepting \in BOOLEAN
  /\ generation \in Generations /\ shutdownGeneration \in Generations
  /\ servers \in Generations /\ server \in ServerIds \cup {NoServer}
  /\ hooks \in 0..MaxHooks
  /\ inShutdown \subseteq ServerIds
  /\ inflight \in [ServerIds -> 0..MaxInflight]
  /\ pc \in [Threads -> Locations]
  /\ hand \in [Threads -> ServerIds \cup {NoServer}]
  /\ pos \in [Threads -> Nat]
  /\ claimed \in [Threads -> Generations]
  /\ ran \in [Generations -> Seq(1..MaxHooks)]

Init ==
  /\ starting = FALSE /\ generation = 0 /\ shutdownGeneration = 0
  /\ server = NoServer /\ accepting = FALSE /\ servers = 0
  /\ hooks = 0
  /\ inShutdown = {} /\ inflight = [s \in ServerIds |-> 0]
  /\ pc = [t \in Threads |-> "idle"]
  /\ hand = [t \in Threads |-> NoServer]
  /\ pos = [t \in Threads |-> 0]
  /\ claimed = [t \in Threads |-> 0]
  /\ ran = [g \in Generations |-> <<>>]

-----------------------------------------------------------------------------
(* OnShutdown, from any goroutine.                                         *)

OnShutdown ==
  /\ hooks < MaxHooks
  /\ hooks' = hooks + 1
  /\ UNCHANGED <<lifecycleVars, serverVars, httpVars, threadVars, ran>>

-----------------------------------------------------------------------------
(* Serve. newHTTPServer and setServer, then the startup hooks.             *)

SetServer ==
  /\ pc[ServeThread] = "idle"
  /\ servers < MaxServes
  /\ servers' = servers + 1
  /\ server' = servers + 1
  /\ hand' = [hand EXCEPT ![ServeThread] = servers + 1]
  /\ Goto(ServeThread, "begin")
  /\ UNCHANGED <<lifecycleVars, accepting, hooks, httpVars, pos, claimed, ran>>

BeginStartup ==
  /\ pc[ServeThread] = "begin"
  /\ starting' = TRUE
  /\ generation' = generation + 1
  /\ pos' = [pos EXCEPT ![ServeThread] = 0]
  /\ Goto(ServeThread, "startup")
  /\ UNCHANGED <<shutdownGeneration, serverVars, hooks, httpVars, hand, claimed, ran>>

\* One startup hook returns nil; after the last one the loop ends.
StartupHookOK ==
  /\ pc[ServeThread] = "startup"
  /\ pos[ServeThread] < StartupHooks
  /\ pos' = [pos EXCEPT ![ServeThread] = @ + 1]
  /\ UNCHANGED <<lifecycleVars, serverVars, hooks, httpVars, pc, hand, claimed, ran>>

StartupHooksDone ==
  /\ pc[ServeThread] = "startup"
  /\ pos[ServeThread] = StartupHooks
  /\ Goto(ServeThread, "startupOK")
  /\ UNCHANGED <<lifecycleVars, serverVars, hooks, httpVars, hand, pos, claimed, ran>>

\* A startup hook returns an error, its own or that of a cancelled context.
StartupHookFails ==
  /\ pc[ServeThread] = "startup"
  /\ pos[ServeThread] < StartupHooks
  /\ Goto(ServeThread, "startupErr")
  /\ UNCHANGED <<lifecycleVars, serverVars, hooks, httpVars, hand, pos, claimed, ran>>

\* A failed startup goes straight to the shutdown hooks, a good one to
\* startAccepting.
AfterStartup == IF pc[ServeThread] = "startupOK" THEN "accept" ELSE "enter"

EndStartupWaking(woken) ==
  /\ pc[ServeThread] \in {"startupOK", "startupErr"}
  /\ starting' = FALSE
  /\ pc' = [t \in Threads |-> IF t = ServeThread THEN AfterStartup
                             ELSE IF t \in woken THEN "enter" ELSE pc[t]]
  /\ UNCHANGED <<generation, shutdownGeneration, serverVars, hooks, httpVars,
                 hand, pos, claimed, ran>>

\* A plausible bug: Signal, which wakes one waiter, in place of Broadcast.
EndStartupSignal ==
  LET waiting == {t \in Closers : pc[t] = "condWait"} IN
  IF waiting = {} THEN EndStartupWaking({})
  ELSE \E t \in waiting : EndStartupWaking({t})

\* The deferred function of runStartupHooks: every goroutine waiting on the
\* condition variable is woken and looks at starting again.
EndStartup == EndStartupWaking({t \in Closers : pc[t] = "condWait"})

\* startAccepting, under routesMu: from here on AddRouter and UseGin panic.
StartAccepting ==
  /\ pc[ServeThread] = "accept"
  /\ accepting' = TRUE
  /\ Goto(ServeThread, "serve")
  /\ UNCHANGED <<lifecycleVars, server, servers, hooks, httpVars, hand, pos, claimed, ran>>

\* server.Serve returns ErrServerClosed as soon as Shutdown was called on the
\* server, whether or not it was serving by then, and with another error when
\* the listener fails. Serve does not wait for the requests in flight.
ServeReturns ==
  /\ pc[ServeThread] = "serve"
  /\ Goto(ServeThread, "enter")
  /\ UNCHANGED <<lifecycleVars, serverVars, hooks, httpVars, hand, pos, claimed, ran>>

ServeClosed   == hand[ServeThread] \in inShutdown /\ ServeReturns
ListenerFails == hand[ServeThread] \notin inShutdown /\ ServeReturns

\* The deferred clearServer, and Serve returns.
ClearServer ==
  /\ pc[ServeThread] = "clear"
  /\ server' = NoServer
  /\ accepting' = FALSE
  /\ hand' = [hand EXCEPT ![ServeThread] = NoServer]
  /\ Goto(ServeThread, "idle")
  /\ UNCHANGED <<lifecycleVars, servers, hooks, httpVars, pos, claimed, ran>>

\* Requests of the server being served (net/http).
RequestArrives ==
  LET s == hand[ServeThread] IN
  /\ pc[ServeThread] = "serve" /\ s \notin inShutdown
  /\ inflight[s] < MaxInflight
  /\ inflight' = [inflight EXCEPT ![s] = @ + 1]
  /\ UNCHANGED <<lifecycleVars, serverVars, hooks, inShutdown, threadVars, ran>>

RequestEnds(s) ==
  /\ inflight[s] > 0
  /\ inflight' = [inflight EXCEPT ![s] = @ - 1]
  /\ UNCHANGED <<lifecycleVars, serverVars, hooks, inShutdown, threadVars, ran>>

-----------------------------------------------------------------------------
(* Shutdown, by goroutine t.                                               *)

\* A plausible bug: Shutdown runs the hooks and leaves the server alone.
CallShutdownHooksOnly(t) ==
  /\ pc[t] = "idle"
  /\ hand' = [hand EXCEPT ![t] = server]
  /\ Goto(t, "enter")
  /\ UNCHANGED <<lifecycleVars, serverVars, hooks, httpVars, pos, claimed, ran>>

\* currentServer; without one, Shutdown goes straight to the hooks.
CallShutdown(t) ==
  /\ pc[t] = "idle"
  /\ hand' = [hand EXCEPT ![t] = server]
  /\ Goto(t, IF server = NoServer THEN "enter" ELSE "stop")
  /\ UNCHANGED <<lifecycleVars, serverVars, hooks, httpVars, pos, claimed, ran>>

\* server.Shutdown: the listener closes at once ...
StopServer(t) ==
  /\ pc[t] = "stop"
  /\ inShutdown' = inShutdown \cup {hand[t]}
  /\ Goto(t, "drain")
  /\ UNCHANGED <<lifecycleVars, serverVars, hooks, inflight, hand, pos, claimed, ran>>

\* ... and the call returns when no request is left, or when ctx is done.
LeaveDrain(t) ==
  /\ pc[t] = "drain"
  /\ Goto(t, "enter")
  /\ UNCHANGED <<lifecycleVars, serverVars, hooks, httpVars, hand, pos, claimed, ran>>

Drained(t)      == pc[t] = "drain" /\ inflight[hand[t]] = 0 /\ LeaveDrain(t)
DrainTimeout(t) == pc[t] = "drain" /\ inflight[hand[t]] > 0 /\ LeaveDrain(t)

-----------------------------------------------------------------------------
(* runShutdownHooks, by Serve and by Shutdown.                             *)

\* runShutdownHooks returns: into Serve, or out of Shutdown.
Return(t) ==
  /\ Goto(t, IF t = ServeThread THEN "clear" ELSE "idle")
  /\ hand' = [hand EXCEPT ![t] = IF t = ServeThread THEN @ ELSE NoServer]
  /\ pos' = [pos EXCEPT ![t] = 0]
  /\ claimed' = [claimed EXCEPT ![t] = 0]
  /\ UNCHANGED <<lifecycleVars, serverVars, hooks, httpVars, ran>>

\* for starting { cond.Wait() }
WaitForStartup(t) ==
  /\ pc[t] = "enter"
  /\ starting
  /\ Goto(t, "condWait")
  /\ UNCHANGED <<lifecycleVars, serverVars, hooks, httpVars, hand, pos, claimed, ran>>

\* The hooks of this generation already belong to another call: return nil.
AlreadyShutDown(t) ==
  /\ pc[t] = "enter"
  /\ ~starting /\ shutdownGeneration = generation
  /\ Return(t)

\* A plausible bug: the loop on starting is left out.
ClaimWhileStarting(t) ==
  /\ pc[t] = "enter"
  /\ shutdownGeneration # generation
  /\ shutdownGeneration' = generation
  /\ claimed' = [claimed EXCEPT ![t] = generation]
  /\ Goto(t, "snapshot")
  /\ UNCHANGED <<starting, generation, serverVars, hooks, httpVars, hand, pos, ran>>

\* A plausible bug: the generation is compared and never stored.
ClaimForgotten(t) ==
  /\ pc[t] = "enter"
  /\ ~starting /\ shutdownGeneration # generation
  /\ claimed' = [claimed EXCEPT ![t] = generation]
  /\ Goto(t, "snapshot")
  /\ UNCHANGED <<lifecycleVars, serverVars, hooks, httpVars, hand, pos, ran>>

ClaimGeneration(t) ==
  /\ pc[t] = "enter"
  /\ ~starting /\ shutdownGeneration # generation
  /\ shutdownGeneration' = generation
  /\ claimed' = [claimed EXCEPT ![t] = generation]
  /\ Goto(t, "snapshot")
  /\ UNCHANGED <<starting, generation, serverVars, hooks, httpVars, hand, pos, ran>>

\* A plausible bug: the loop starts at len(hooks).
SnapshotPastEnd(t) ==
  /\ pc[t] = "snapshot"
  /\ pos' = [pos EXCEPT ![t] = hooks + 1]
  /\ Goto(t, "hooks")
  /\ UNCHANGED <<lifecycleVars, serverVars, hooks, httpVars, hand, claimed, ran>>

\* The copy of shutdownHooks under hooksMu.
SnapshotHooks(t) ==
  /\ pc[t] = "snapshot"
  /\ pos' = [pos EXCEPT ![t] = hooks]
  /\ Goto(t, "hooks")
  /\ UNCHANGED <<lifecycleVars, serverVars, hooks, httpVars, hand, claimed, ran>>

\* The hooks run last to first; an error is collected and the loop goes on.
RunHook(t) ==
  /\ pc[t] = "hooks"
  /\ pos[t] > 0
  /\ ran' = [ran EXCEPT ![claimed[t]] = Append(@, pos[t])]
  /\ pos' = [pos EXCEPT ![t] = @ - 1]
  /\ UNCHANGED <<lifecycleVars, serverVars, hooks, httpVars, pc, hand, claimed>>

\* A plausible bug: i > 0 in place of i >= 0 in the loop.
HooksDoneEarly(t) ==
  /\ pc[t] = "hooks"
  /\ pos[t] <= 1
  /\ Return(t)

HooksDone(t) ==
  /\ pc[t] = "hooks"
  /\ pos[t] = 0
  /\ Return(t)

-----------------------------------------------------------------------------

RunShutdownHooks(t) ==
  \/ WaitForStartup(t) \/ AlreadyShutDown(t) \/ ClaimGeneration(t)
  \/ SnapshotHooks(t) \/ RunHook(t) \/ HooksDone(t)

\* What the Serve goroutine does by itself once it has been called.
ServeStep ==
  \/ BeginStartup \/ StartupHookOK \/ StartupHooksDone \/ EndStartup \/ StartAccepting
  \/ ServeClosed \/ ClearServer \/ RunShutdownHooks(ServeThread)

\* What a Shutdown call does by itself; ctx ends, so it does not stay in drain.
ShutdownStep(t) ==
  StopServer(t) \/ Drained(t) \/ DrainTimeout(t) \/ RunShutdownHooks(t)

Next ==
  \/ OnShutdown \/ SetServer \/ ServeStep
  \/ StartupHookFails \/ ListenerFails \/ RequestArrives
  \/ \E s \in ServerIds : RequestEnds(s)
  \/ \E t \in Closers : CallShutdown(t) \/ ShutdownStep(t)

\* Goroutines that can run are run and hooks return. Nothing says that anyone
\* calls Serve, OnShutdown or Shutdown, that a request comes or ends, or that
\* the listener fails.
Fairness == WF_vars(ServeStep) /\ \A t \in Closers : WF_vars(ShutdownStep(t))

Spec == Init /\ [][Next]_vars /\ Fairness

-----------------------------------------------------------------------------
(* Safety.                                                                 *)

\* No lost wake-up: a goroutine is blocked in cond.Wait only while a startup
\* is running, so the Broadcast that ends it is still to come.
NoLostWakeup == \A t \in Threads : pc[t] = "condWait" => starting

\* Serve and every Shutdown race for the hooks of a generation and one of them
\* gets them: what has run for it is a run of neighbours, last hook first,
\* none skipped, none twice.
HooksRunOnce ==
  \A g \in Generations : \A i \in 1..(Len(ran[g]) - 1) : ran[g][i + 1] = ran[g][i] - 1

\* The goroutines that run shutdown hooks.
Executing(t) == pc[t] \in {"snapshot", "hooks"}

\* The shutdown hooks of a generation never overlap its startup hooks, however
\* early Shutdown is called. (Those of an earlier generation may: the call that
\* loses the race in runShutdownHooks returns before the winner is done, and
\* Serve can be called again.)
ShutdownAfterStartup ==
  \A t \in Threads : Executing(t) => ~starting \/ claimed[t] < generation

\* When Serve is back at its caller, whatever way it ended, its generation has
\* been shut down or is being shut down, the API takes routers again and
\* Shutdown finds no server.
ServeLeavesNothing ==
  pc[ServeThread] = "idle" =>
    shutdownGeneration = generation /\ ~starting /\ ~accepting /\ server = NoServer

-----------------------------------------------------------------------------
(* Liveness.                                                               *)

\* A hook registered before the generation's shutdown is claimed runs, once the
\* server was told to stop: also when it was told before its startup began.
\* Servers and generations are numbered alike.
RegisteredHooksRun ==
  \A g \in ServerIds, h \in 1..MaxHooks :
    (g \in inShutdown /\ shutdownGeneration < g /\ h <= hooks)
      ~> (\E i \in 1..Len(ran[g]) : ran[g][i] = h)

\* Every Shutdown call returns and ends the Serve call it stopped.
ShutdownEndsServe ==
  /\ \A t \in Closers : pc[t] = "stop" ~> pc[t] = "idle"
  /\ \A g \in ServerIds : g \in inShutdown ~> hand[ServeThread] # g
=============================================================================
