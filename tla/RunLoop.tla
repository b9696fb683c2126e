------------------------------- MODULE RunLoop -------------------------------
(***************************************************************************)
(* NinjaAPI.Run (ninja.go): Run starts one goroutine that calls serve,     *)
(* waits for its result or for a signal, and on a signal cancels the       *)
(* startup context, calls Shutdown and waits for the goroutine. The serve  *)
(* goroutine is ServeThread of Lifecycle, Run itself is the only Closer.   *)
(***************************************************************************)
EXTENDS Lifecycle

CONSTANT RunThread

ASSUME RunLoopAssumption == Closers = {RunThread} /\ MaxServes = 1

VARIABLES
  run,        \* where Run is
  signalled,  \* sigCh holds a SIGINT or SIGTERM
  errCh,      \* errCh holds the result of serve
  drained     \* history: server.Shutdown ended because no request was left

runVars == <<run, signalled, errCh, drained>>
allVars == <<vars, runVars>>

RunTypeOK ==
  /\ TypeOK
  /\ run \in {"select", "cancelled", "shutdown", "join", "returned"}
  /\ signalled \in BOOLEAN /\ errCh \in BOOLEAN /\ drained \in BOOLEAN

RunInit ==
  /\ Init
  /\ run = "select" /\ signalled = FALSE /\ errCh = FALSE /\ drained = FALSE

\* signal.Notify puts one signal in the channel of capacity 1, drops the rest.
SignalArrives ==
  /\ run # "returned"
  /\ ~signalled
  /\ signalled' = TRUE
  /\ UNCHANGED <<vars, run, errCh, drained>>

\* The steps of the goroutine that Run starts; serve returns with ClearServer.
ServeGoroutine ==
  /\ SetServer \/ ServeStep \/ StartupHookFails \/ ListenerFails
  /\ errCh' = (errCh \/ pc[ServeThread] = "clear")
  /\ UNCHANGED <<run, signalled, drained>>

\* The first case of the select: serve ended by itself.
SelectError ==
  /\ run = "select" /\ errCh
  /\ run' = "returned"
  /\ UNCHANGED <<vars, signalled, errCh, drained>>

\* The second case: cancelStartup, which startup hooks may or may not heed.
SelectSignal ==
  /\ run = "select" /\ signalled
  /\ run' = "cancelled"
  /\ UNCHANGED <<vars, signalled, errCh, drained>>

\* api.Shutdown(shutdownCtx) ...
RunCallsShutdown ==
  /\ run = "cancelled"
  /\ CallShutdown(RunThread)
  /\ run' = "shutdown"
  /\ UNCHANGED <<signalled, errCh, drained>>

RunInShutdown ==
  /\ run = "shutdown"
  /\ ShutdownStep(RunThread)
  /\ drained' = (drained \/ (pc[RunThread] = "drain" /\ inflight[hand[RunThread]] = 0))
  /\ UNCHANGED <<run, signalled, errCh>>

\* A plausible bug: Run returns what Shutdown returned without waiting for serve.
RunSkipsJoin ==
  /\ run = "shutdown" /\ pc[RunThread] = "idle"
  /\ run' = "returned"
  /\ UNCHANGED <<vars, signalled, errCh, drained>>

\* ... returns, and Run goes on to <-errCh.
ShutdownReturned ==
  /\ run = "shutdown" /\ pc[RunThread] = "idle"
  /\ run' = "join"
  /\ UNCHANGED <<vars, signalled, errCh, drained>>

Join ==
  /\ run = "join" /\ errCh
  /\ run' = "returned"
  /\ UNCHANGED <<vars, signalled, errCh, drained>>

Requests ==
  /\ RequestArrives \/ \E s \in ServerIds : RequestEnds(s)
  /\ UNCHANGED runVars

Registration == OnShutdown /\ UNCHANGED runVars

RunStep ==
  SelectError \/ SelectSignal \/ RunCallsShutdown \/ RunInShutdown
    \/ ShutdownReturned \/ Join

RunNext ==
  SignalArrives \/ ServeGoroutine \/ RunStep \/ Requests \/ Registration

\* Both goroutines are scheduled, hooks return. The goroutine is started, so
\* unlike in Lifecycle SetServer happens. No signal is promised.
RunFairness ==
  /\ WF_allVars(RunStep)
  /\ WF_allVars((SetServer \/ ServeStep) /\ ServeGoroutine)

RunSpec == RunInit /\ [][RunNext]_allVars /\ RunFairness

-----------------------------------------------------------------------------

\* When Run returns, and so main and the process with it, nobody is in the
\* middle of the shutdown hooks, and those of the startup it began have run:
\* whichever of Serve and Shutdown won them. A graceful shutdown that had the time
\* to drain leaves no request behind: none was cut off, none accepted meanwhile.
NothingCutShort ==
  run = "returned" =>
    /\ \A t \in Threads : pc[t] = "idle"
    /\ generation = 1 /\ shutdownGeneration = generation
    /\ drained => \A s \in ServerIds : inflight[s] = 0

\* A signal that finds the server already published ends Run.
SignalEndsRun ==
  (run = "select" /\ signalled /\ server # NoServer) ~> run = "returned"

\* The documentation of GracefulShutdownTimeout: it bounds how long Run waits
\* after SIGINT or SIGTERM, so Run returns after any signal. It does not when
\* the signal is handled before the goroutine's setServer: Shutdown finds
\* neither a server nor a generation to shut down and returns at once, and
\* nothing ever stops the server that then starts; later signals are dropped.
EverySignalEndsRun == signalled ~> run = "returned"
=============================================================================
