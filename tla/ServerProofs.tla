---------------------------- MODULE ServerProofs ----------------------------
(***************************************************************************)
(* The safety properties of Lifecycle for any number of goroutines that    *)
(* call Shutdown, of startup and shutdown hooks, of servers and requests;  *)
(* NothingCutShort of RunLoop: what is still going on when Run returns. And*)
(* what a program does before it calls Run: OpenedIsConfigured for any     *)
(* configuration, MountedAsWritten for any routers and operations.         *)
(***************************************************************************)
EXTENDS RunLoop, Settings, RouterTree, LeastElements, FiniteSetTheorems, SequenceTheorems, TLAPS

S == ServeThread

\* Where Serve is says whether a startup is running; only the goroutines that
\* call Shutdown wait for its end, and none is left waiting.
Phases ==
  /\ starting <=> pc[S] \in {"startup", "startupOK", "startupErr"}
  /\ pc[S] \notin {"condWait", "stop", "drain"}
  /\ \A t \in Threads : pc[t] \in {"stop", "drain"} => hand[t] # NoServer
  /\ pc[S] = "idle" => server = NoServer
  /\ pc[S] \notin {"serve", "enter", "snapshot", "hooks", "clear"} => ~accepting
  /\ NoLostWakeup

\* Servers and generations are numbered alike, and a generation can be shut
\* down only between the end of its startup hooks and the return of Serve.
Numbering ==
  /\ pc[S] = "begin" => generation + 1 = servers
  /\ pc[S] # "begin" => generation = servers
  /\ shutdownGeneration <= generation
  /\ starting => shutdownGeneration < generation
  /\ pc[S] \in {"idle", "begin", "clear", "snapshot", "hooks"} => shutdownGeneration = generation

\* Whoever runs shutdown hooks has claimed a generation that nobody else has.
Claims ==
  /\ \A t \in Threads : Executing(t) => 1 <= claimed[t] /\ claimed[t] <= shutdownGeneration
  /\ \A t, u \in Threads : Executing(t) /\ Executing(u) /\ t # u => claimed[t] # claimed[u]

\* No hook of a generation runs before it is claimed; after that the hooks that
\* have run end where the loop of the claimer stands.
History ==
  /\ \A g \in Generations : shutdownGeneration < g => ran[g] = <<>>
  /\ \A t \in Threads : pc[t] = "snapshot" => ran[claimed[t]] = <<>>
  /\ \A t \in Threads : pc[t] = "hooks" =>
       /\ pos[t] <= hooks
       /\ ran[claimed[t]] # <<>> => ran[claimed[t]][Len(ran[claimed[t]])] = pos[t] + 1
  /\ HooksRunOnce

LifecycleInv == TypeOK /\ Phases /\ Numbering /\ Claims /\ History

-----------------------------------------------------------------------------

LEMMA ServeIsThread == S \in Threads /\ S \notin Closers /\ Threads = Closers \cup {S}
  BY LifecycleAssumption DEF S, Threads

LEMMA InitInv == Init => LifecycleInv
<1> SUFFICES ASSUME Init PROVE LifecycleInv
  OBVIOUS
<1>1. TypeOK
  BY LifecycleAssumption DEF Init, TypeOK, Generations, ServerIds, Threads, Locations
<1>2. Phases /\ Numbering /\ Claims
  BY ServeIsThread DEF Init, Phases, Numbering, Claims, NoLostWakeup, Executing
<1>3. History
  BY ServeIsThread DEF Init, History, HooksRunOnce
<1> QED
  BY <1>1, <1>2, <1>3 DEF LifecycleInv

\* Steps that leave the monitor, the hooks and the goroutines alone.
LEMMA FrameStep ==
  ASSUME LifecycleInv, UNCHANGED <<lifecycleVars, threadVars, ran, server, accepting, servers>>,
         hooks' \in 0..MaxHooks, hooks <= hooks',
         inShutdown' \subseteq ServerIds, inflight' \in [ServerIds -> 0..MaxInflight]
  PROVE  LifecycleInv'
<1> USE ServeIsThread DEF lifecycleVars, threadVars
<1>1. TypeOK'
  BY DEF LifecycleInv, TypeOK
<1>2. Phases' /\ Numbering' /\ Claims'
  BY DEF LifecycleInv, Phases, Numbering, Claims, NoLostWakeup, Executing
<1>3. History'
  BY LifecycleAssumption DEF LifecycleInv, TypeOK, History, HooksRunOnce
<1> QED
  BY <1>1, <1>2, <1>3 DEF LifecycleInv

\* Serve publishes the next server.
LEMMA SetServerStep ==
  ASSUME LifecycleInv, SetServer
  PROVE  LifecycleInv'
<1> USE ServeIsThread DEF S, SetServer, Goto, lifecycleVars, serverVars, httpVars, threadVars
<1>1. TypeOK'
  <2>1. servers + 1 \in ServerIds /\ servers + 1 \in Generations
    BY LifecycleAssumption DEF LifecycleInv, TypeOK, Generations, ServerIds
  <2> QED
    BY <2>1 DEF LifecycleInv, TypeOK, Locations
<1>2. Phases'
  BY DEF LifecycleInv, TypeOK, Phases, NoLostWakeup
<1>3. Numbering'
  BY DEF LifecycleInv, TypeOK, Numbering, Phases
<1>4. Claims'
  BY DEF LifecycleInv, TypeOK, Claims, Executing
<1>5. History'
  BY LifecycleAssumption DEF LifecycleInv, TypeOK, History, HooksRunOnce
<1> QED
  BY <1>1, <1>2, <1>3, <1>4, <1>5 DEF LifecycleInv

\* The startup of the next generation begins.
LEMMA BeginStartupStep ==
  ASSUME LifecycleInv, BeginStartup
  PROVE  LifecycleInv'
<1> USE ServeIsThread DEF S, BeginStartup, Goto, lifecycleVars, serverVars, httpVars, threadVars
<1>1. TypeOK'
  <2>1. generation + 1 \in Generations
    BY LifecycleAssumption DEF LifecycleInv, TypeOK, Generations, Numbering
  <2> QED
    BY <2>1 DEF LifecycleInv, TypeOK, Locations
<1>2. Phases'
  BY DEF LifecycleInv, TypeOK, Phases, NoLostWakeup
<1>3. Numbering'
  BY LifecycleAssumption DEF LifecycleInv, TypeOK, Generations, Numbering, Phases
<1>4. Claims'
  BY DEF LifecycleInv, TypeOK, Claims, Executing
<1>5. History'
  BY LifecycleAssumption DEF LifecycleInv, TypeOK, History, HooksRunOnce
<1> QED
  BY <1>1, <1>2, <1>3, <1>4, <1>5 DEF LifecycleInv

\* One startup hook is done.
LEMMA StartupHookOKStep ==
  ASSUME LifecycleInv, StartupHookOK
  PROVE  LifecycleInv'
<1> USE ServeIsThread DEF S, StartupHookOK, Goto, lifecycleVars, serverVars, httpVars, threadVars
<1>1. TypeOK'
  <2>1. pos[S] + 1 \in Nat
    BY DEF LifecycleInv, TypeOK
  <2> QED
    BY <2>1 DEF LifecycleInv, TypeOK, S
<1>2. Phases'
  BY DEF LifecycleInv, TypeOK, Phases, NoLostWakeup
<1>3. Numbering'
  BY DEF LifecycleInv, TypeOK, Numbering, Phases
<1>4. Claims'
  BY DEF LifecycleInv, TypeOK, Claims, Executing
<1>5. History'
  BY LifecycleAssumption DEF LifecycleInv, TypeOK, History, HooksRunOnce
<1> QED
  BY <1>1, <1>2, <1>3, <1>4, <1>5 DEF LifecycleInv

\* All startup hooks are done.
LEMMA StartupHooksDoneStep ==
  ASSUME LifecycleInv, StartupHooksDone
  PROVE  LifecycleInv'
<1> USE ServeIsThread DEF S, StartupHooksDone, Goto, lifecycleVars, serverVars, httpVars, threadVars
<1>1. TypeOK'
  BY LifecycleAssumption DEF LifecycleInv, TypeOK, Locations, Generations, ServerIds
<1>2. Phases'
  BY DEF LifecycleInv, TypeOK, Phases, NoLostWakeup
<1>3. Numbering'
  BY DEF LifecycleInv, TypeOK, Numbering, Phases
<1>4. Claims'
  BY DEF LifecycleInv, TypeOK, Claims, Executing
<1>5. History'
  BY LifecycleAssumption DEF LifecycleInv, TypeOK, History, HooksRunOnce
<1> QED
  BY <1>1, <1>2, <1>3, <1>4, <1>5 DEF LifecycleInv

\* A startup hook fails.
LEMMA StartupHookFailsStep ==
  ASSUME LifecycleInv, StartupHookFails
  PROVE  LifecycleInv'
<1> USE ServeIsThread DEF S, StartupHookFails, Goto, lifecycleVars, serverVars, httpVars, threadVars
<1>1. TypeOK'
  BY LifecycleAssumption DEF LifecycleInv, TypeOK, Locations, Generations, ServerIds
<1>2. Phases'
  BY DEF LifecycleInv, TypeOK, Phases, NoLostWakeup
<1>3. Numbering'
  BY DEF LifecycleInv, TypeOK, Numbering, Phases
<1>4. Claims'
  BY DEF LifecycleInv, TypeOK, Claims, Executing
<1>5. History'
  BY LifecycleAssumption DEF LifecycleInv, TypeOK, History, HooksRunOnce
<1> QED
  BY <1>1, <1>2, <1>3, <1>4, <1>5 DEF LifecycleInv

\* The end of a startup wakes whoever waits for it.
LEMMA EndStartupStep ==
  ASSUME LifecycleInv, EndStartup
  PROVE  LifecycleInv'
<1> USE ServeIsThread DEF S, EndStartup, EndStartupWaking, AfterStartup, Goto, lifecycleVars, serverVars, httpVars, threadVars
<1>1. TypeOK'
  BY LifecycleAssumption DEF LifecycleInv, TypeOK, Locations, Generations, ServerIds
<1>2. Phases'
  BY DEF LifecycleInv, TypeOK, Phases, NoLostWakeup
<1>3. Numbering'
  BY DEF LifecycleInv, TypeOK, Numbering, Phases
<1>4. Claims'
  BY DEF LifecycleInv, TypeOK, Claims, Executing
<1>5. History'
  BY LifecycleAssumption DEF LifecycleInv, TypeOK, History, HooksRunOnce
<1> QED
  BY <1>1, <1>2, <1>3, <1>4, <1>5 DEF LifecycleInv

\* The routes are frozen.
LEMMA StartAcceptingStep ==
  ASSUME LifecycleInv, StartAccepting
  PROVE  LifecycleInv'
<1> USE ServeIsThread DEF S, StartAccepting, Goto, lifecycleVars, serverVars, httpVars, threadVars
<1>1. TypeOK'
  BY LifecycleAssumption DEF LifecycleInv, TypeOK, Locations, Generations, ServerIds
<1>2. Phases'
  BY DEF LifecycleInv, TypeOK, Phases, NoLostWakeup
<1>3. Numbering'
  BY DEF LifecycleInv, TypeOK, Numbering, Phases
<1>4. Claims'
  BY DEF LifecycleInv, TypeOK, Claims, Executing
<1>5. History'
  BY LifecycleAssumption DEF LifecycleInv, TypeOK, History, HooksRunOnce
<1> QED
  BY <1>1, <1>2, <1>3, <1>4, <1>5 DEF LifecycleInv

\* The server is closed or its listener has failed.
LEMMA ServeReturnsStep ==
  ASSUME LifecycleInv, ServeReturns
  PROVE  LifecycleInv'
<1> USE ServeIsThread DEF S, ServeReturns, Goto, lifecycleVars, serverVars, httpVars, threadVars
<1>1. TypeOK'
  BY LifecycleAssumption DEF LifecycleInv, TypeOK, Locations, Generations, ServerIds
<1>2. Phases'
  BY DEF LifecycleInv, TypeOK, Phases, NoLostWakeup
<1>3. Numbering'
  BY DEF LifecycleInv, TypeOK, Numbering, Phases
<1>4. Claims'
  BY DEF LifecycleInv, TypeOK, Claims, Executing
<1>5. History'
  BY LifecycleAssumption DEF LifecycleInv, TypeOK, History, HooksRunOnce
<1> QED
  BY <1>1, <1>2, <1>3, <1>4, <1>5 DEF LifecycleInv

\* Serve returns to its caller.
LEMMA ClearServerStep ==
  ASSUME LifecycleInv, ClearServer
  PROVE  LifecycleInv'
<1> USE ServeIsThread DEF S, ClearServer, Goto, lifecycleVars, serverVars, httpVars, threadVars
<1>1. TypeOK'
  BY LifecycleAssumption DEF LifecycleInv, TypeOK, Locations, Generations, ServerIds
<1>2. Phases'
  BY DEF LifecycleInv, TypeOK, Phases, NoLostWakeup
<1>3. Numbering'
  BY DEF LifecycleInv, TypeOK, Numbering, Phases
<1>4. Claims'
  BY DEF LifecycleInv, TypeOK, Claims, Executing
<1>5. History'
  BY LifecycleAssumption DEF LifecycleInv, TypeOK, History, HooksRunOnce
<1> QED
  BY <1>1, <1>2, <1>3, <1>4, <1>5 DEF LifecycleInv

\* Shutdown looks for a server.
LEMMA CallShutdownStep ==
  ASSUME LifecycleInv, NEW t \in Closers, CallShutdown(t)
  PROVE  LifecycleInv'
<1> USE ServeIsThread DEF S, CallShutdown, Goto, lifecycleVars, serverVars, httpVars, threadVars
<1>1. TypeOK'
  BY LifecycleAssumption DEF LifecycleInv, TypeOK, Locations, Generations, ServerIds
<1>2. Phases'
  BY DEF LifecycleInv, TypeOK, Phases, NoLostWakeup
<1>3. Numbering'
  BY DEF LifecycleInv, TypeOK, Numbering, Phases
<1>4. Claims'
  BY DEF LifecycleInv, TypeOK, Claims, Executing
<1>5. History'
  BY LifecycleAssumption DEF LifecycleInv, TypeOK, History, HooksRunOnce
<1> QED
  BY <1>1, <1>2, <1>3, <1>4, <1>5 DEF LifecycleInv

\* Shutdown closes the listener of the server it found.
LEMMA StopServerStep ==
  ASSUME LifecycleInv, NEW t \in Closers, StopServer(t)
  PROVE  LifecycleInv'
<1> USE ServeIsThread DEF S, StopServer, Goto, lifecycleVars, serverVars, httpVars, threadVars
<1>1. TypeOK'
  <2>1. t \in Threads /\ hand[t] \in ServerIds
    BY DEF LifecycleInv, TypeOK, Phases
  <2> QED
    BY <2>1 DEF LifecycleInv, TypeOK, Locations
<1>2. Phases'
  BY DEF LifecycleInv, TypeOK, Phases, NoLostWakeup
<1>3. Numbering'
  BY DEF LifecycleInv, TypeOK, Numbering, Phases
<1>4. Claims'
  BY DEF LifecycleInv, TypeOK, Claims, Executing
<1>5. History'
  BY LifecycleAssumption DEF LifecycleInv, TypeOK, History, HooksRunOnce
<1> QED
  BY <1>1, <1>2, <1>3, <1>4, <1>5 DEF LifecycleInv

\* http.Server.Shutdown returns.
LEMMA LeaveDrainStep ==
  ASSUME LifecycleInv, NEW t \in Closers, LeaveDrain(t)
  PROVE  LifecycleInv'
<1> USE ServeIsThread DEF S, LeaveDrain, Goto, lifecycleVars, serverVars, httpVars, threadVars
<1>1. TypeOK'
  BY LifecycleAssumption DEF LifecycleInv, TypeOK, Locations, Generations, ServerIds
<1>2. Phases'
  BY DEF LifecycleInv, TypeOK, Phases, NoLostWakeup
<1>3. Numbering'
  BY DEF LifecycleInv, TypeOK, Numbering, Phases
<1>4. Claims'
  BY DEF LifecycleInv, TypeOK, Claims, Executing
<1>5. History'
  BY LifecycleAssumption DEF LifecycleInv, TypeOK, History, HooksRunOnce
<1> QED
  BY <1>1, <1>2, <1>3, <1>4, <1>5 DEF LifecycleInv

\* Shutdown hooks wait for the startup; Serve itself never does.
LEMMA WaitForStartupStep ==
  ASSUME LifecycleInv, NEW t \in Threads, WaitForStartup(t)
  PROVE  LifecycleInv'
<1> USE ServeIsThread DEF S, WaitForStartup, Goto, lifecycleVars, serverVars, httpVars, threadVars
<1>1. TypeOK'
  BY LifecycleAssumption DEF LifecycleInv, TypeOK, Locations, Generations, ServerIds
<1>2. Phases'
  BY DEF LifecycleInv, TypeOK, Phases, NoLostWakeup
<1>3. Numbering'
  BY DEF LifecycleInv, TypeOK, Numbering, Phases
<1>4. Claims'
  BY DEF LifecycleInv, TypeOK, Claims, Executing
<1>5. History'
  BY LifecycleAssumption DEF LifecycleInv, TypeOK, History, HooksRunOnce
<1> QED
  BY <1>1, <1>2, <1>3, <1>4, <1>5 DEF LifecycleInv

\* The generation belongs to another call.
LEMMA AlreadyShutDownStep ==
  ASSUME LifecycleInv, NEW t \in Threads, AlreadyShutDown(t)
  PROVE  LifecycleInv'
<1> USE ServeIsThread DEF S, AlreadyShutDown, Return, Goto, lifecycleVars, serverVars, httpVars, threadVars
<1>1. TypeOK'
  <2>1. pc' \in [Threads -> Locations]
    BY DEF LifecycleInv, TypeOK, Locations
  <2>2. hand' \in [Threads -> ServerIds \cup {NoServer}]
    BY DEF LifecycleInv, TypeOK
  <2>3. pos' \in [Threads -> Nat] /\ claimed' \in [Threads -> Generations]
    BY LifecycleAssumption DEF LifecycleInv, TypeOK, Generations
  <2> QED
    BY <2>1, <2>2, <2>3 DEF LifecycleInv, TypeOK
<1>2. Phases'
  BY DEF LifecycleInv, TypeOK, Phases, NoLostWakeup
<1>3. Numbering'
  BY DEF LifecycleInv, TypeOK, Numbering, Phases
<1>4. Claims'
  BY DEF LifecycleInv, TypeOK, Claims, Executing
<1>5. History'
  BY LifecycleAssumption DEF LifecycleInv, TypeOK, History, HooksRunOnce
<1> QED
  BY <1>1, <1>2, <1>3, <1>4, <1>5 DEF LifecycleInv

\* A call claims the generation.
LEMMA ClaimGenerationStep ==
  ASSUME LifecycleInv, NEW t \in Threads, ClaimGeneration(t)
  PROVE  LifecycleInv'
<1> USE ServeIsThread DEF S, ClaimGeneration, Goto, lifecycleVars, serverVars, httpVars, threadVars
<1>0. /\ generation \in Generations /\ shutdownGeneration \in Generations
      /\ shutdownGeneration < generation /\ generation \in Nat /\ shutdownGeneration \in Nat
  BY LifecycleAssumption DEF LifecycleInv, TypeOK, Numbering, Generations
<1>1. TypeOK'
  BY LifecycleAssumption DEF LifecycleInv, TypeOK, Locations, Generations, ServerIds
<1>2. Phases'
  BY DEF LifecycleInv, TypeOK, Phases, NoLostWakeup
<1>3. Numbering'
  BY LifecycleAssumption DEF LifecycleInv, TypeOK, Generations, Numbering, Phases
<1>4. Claims'
  <2>1. \A u \in Threads : claimed[u] \in Nat
    BY LifecycleAssumption DEF LifecycleInv, TypeOK, Generations
  <2>2. ~Executing(t)
    BY DEF Executing
  <2>3. \A u \in Threads : u # t => claimed'[u] = claimed[u] /\ (Executing(u)' <=> Executing(u))
    BY DEF LifecycleInv, TypeOK, Executing
  <2>4. claimed'[t] = generation /\ shutdownGeneration' = generation
    BY DEF LifecycleInv, TypeOK
  <2>5. \A u \in Threads : u # t /\ Executing(u) =>
          1 <= claimed[u] /\ claimed[u] <= shutdownGeneration
    BY DEF LifecycleInv, Claims
  <2>6. \A u \in Threads : Executing(u)' => 1 <= claimed'[u] /\ claimed'[u] <= generation
    BY <1>0, <2>1, <2>3, <2>4, <2>5
  <2>7. \A u \in Threads : u # t /\ Executing(u)' => claimed'[u] # claimed'[t]
    BY <1>0, <2>1, <2>3, <2>4, <2>5
  <2>8. \A u, v \in Threads :
          u # t /\ v # t /\ Executing(u)' /\ Executing(v)' /\ u # v => claimed'[u] # claimed'[v]
    BY <2>3 DEF LifecycleInv, Claims
  <2> QED
    BY <2>4, <2>6, <2>7, <2>8 DEF Claims
<1>5. History'
  <2>1. \A u \in Threads : u # t =>
          claimed'[u] = claimed[u] /\ (pc'[u] = "snapshot" <=> pc[u] = "snapshot")
            /\ (pc'[u] = "hooks" <=> pc[u] = "hooks")
    BY DEF LifecycleInv, TypeOK
  <2>2. claimed'[t] = generation /\ pc'[t] = "snapshot" /\ ran[generation] = <<>>
    BY <1>0 DEF LifecycleInv, TypeOK, History
  <2>3. \A g \in Generations : generation < g => ran[g] = <<>>
    BY <1>0, LifecycleAssumption DEF LifecycleInv, TypeOK, History, Generations
  <2> QED
    BY <2>1, <2>2, <2>3 DEF LifecycleInv, History, HooksRunOnce
<1> QED
  BY <1>1, <1>2, <1>3, <1>4, <1>5 DEF LifecycleInv

\* The hooks of the claimed generation are counted.
LEMMA SnapshotHooksStep ==
  ASSUME LifecycleInv, NEW t \in Threads, SnapshotHooks(t)
  PROVE  LifecycleInv'
<1> USE ServeIsThread DEF S, SnapshotHooks, Goto, lifecycleVars, serverVars, httpVars, threadVars
<1>1. TypeOK'
  <2>1. hooks \in Nat
    BY LifecycleAssumption DEF LifecycleInv, TypeOK
  <2> QED
    BY <2>1 DEF LifecycleInv, TypeOK, Locations
<1>2. Phases'
  BY DEF LifecycleInv, TypeOK, Phases, NoLostWakeup
<1>3. Numbering'
  BY DEF LifecycleInv, TypeOK, Numbering, Phases
<1>4. Claims'
  BY DEF LifecycleInv, TypeOK, Claims, Executing
<1>5. History'
  BY LifecycleAssumption DEF LifecycleInv, TypeOK, History, HooksRunOnce
<1> QED
  BY <1>1, <1>2, <1>3, <1>4, <1>5 DEF LifecycleInv

\* One shutdown hook runs.
LEMMA RunHookStep ==
  ASSUME LifecycleInv, NEW t \in Threads, RunHook(t)
  PROVE  LifecycleInv'
<1> USE ServeIsThread DEF S, RunHook, Goto, lifecycleVars, serverVars, httpVars, threadVars
<1> DEFINE g == claimed[t]
<1>a. /\ g \in Generations /\ pos[t] \in 1..MaxHooks /\ pos[t] - 1 \in Nat
      /\ ran[g] \in Seq(1..MaxHooks)
  BY LifecycleAssumption DEF LifecycleInv, TypeOK, History
<1>b. /\ ran'[g] = Append(ran[g], pos[t])
      /\ \A h \in Generations : h # g => ran'[h] = ran[h]
      /\ pos'[t] = pos[t] - 1
      /\ \A u \in Threads : u # t => pos'[u] = pos[u]
  BY <1>a DEF LifecycleInv, TypeOK
<1>c. Len(ran'[g]) = Len(ran[g]) + 1 /\ ran'[g][Len(ran'[g])] = pos[t] /\ ran'[g] # <<>>
  BY <1>a, <1>b, SMTT(20)
<1>d. \A u \in Threads : u # t /\ Executing(u) => claimed[u] # g
  BY DEF LifecycleInv, Claims, Executing
<1>e. g <= shutdownGeneration
  BY DEF LifecycleInv, Claims, Executing
<1>1. TypeOK'
  <2>1. ran' \in [Generations -> Seq(1..MaxHooks)]
    BY <1>a DEF LifecycleInv, TypeOK
  <2>2. pos' \in [Threads -> Nat]
    BY <1>a DEF LifecycleInv, TypeOK
  <2> QED
    BY <2>1, <2>2 DEF LifecycleInv, TypeOK
<1>2. Phases'
  BY DEF LifecycleInv, TypeOK, Phases, NoLostWakeup
<1>3. Numbering'
  BY DEF LifecycleInv, TypeOK, Numbering, Phases
<1>4. Claims'
  BY DEF LifecycleInv, TypeOK, Claims, Executing
<1>5. History'
  <2>1. \A h \in Generations : shutdownGeneration < h => ran'[h] = <<>>
    BY <1>a, <1>b, <1>e, LifecycleAssumption, SMTT(20) DEF LifecycleInv, TypeOK, Generations, History
  <2>2. \A u \in Threads : pc[u] = "snapshot" => ran'[claimed[u]] = <<>>
    BY <1>b, <1>d DEF LifecycleInv, TypeOK, History, Executing
  <2>3. \A u \in Threads : pc[u] = "hooks" =>
          /\ pos'[u] <= hooks
          /\ ran'[claimed[u]] # <<>> => ran'[claimed[u]][Len(ran'[claimed[u]])] = pos'[u] + 1
    <3>1. pos[t] - 1 <= hooks /\ pos[t] = (pos[t] - 1) + 1
      BY <1>a, LifecycleAssumption DEF LifecycleInv, TypeOK, History
    <3>2. ASSUME NEW u \in Threads, u # t, pc[u] = "hooks"
          PROVE  /\ pos'[u] <= hooks
                 /\ ran'[claimed[u]] # <<>> =>
                      ran'[claimed[u]][Len(ran'[claimed[u]])] = pos'[u] + 1
      BY <3>2, <1>b, <1>d DEF LifecycleInv, TypeOK, History, Executing
    <3> QED
      BY <3>1, <3>2, <1>b, <1>c
  <2>4. HooksRunOnce'
    <3>1. ASSUME NEW i \in 1..(Len(ran'[g]) - 1)
          PROVE  ran'[g][i + 1] = ran'[g][i] - 1
      <4>1. i \in 1..Len(ran[g]) /\ Len(ran[g]) \in Nat
        BY <1>a, <1>c
      <4>2. CASE i < Len(ran[g])
        BY <4>1, <4>2, <1>a, <1>b DEF LifecycleInv, History, HooksRunOnce
      <4>3. CASE i = Len(ran[g])
        <5>1. ran[g] # <<>> /\ ran[g][Len(ran[g])] = pos[t] + 1
          BY <4>1, <4>3, <1>a DEF LifecycleInv, History
        <5> QED
          BY <5>1, <4>1, <4>3, <1>a, <1>b
      <4> QED
        BY <4>1, <4>2, <4>3
    <3>2. ASSUME NEW h \in Generations, h # g, NEW i \in 1..(Len(ran'[h]) - 1)
          PROVE  ran'[h][i + 1] = ran'[h][i] - 1
      BY <3>2, <1>b DEF LifecycleInv, History, HooksRunOnce
    <3> QED
      BY <3>1, <3>2 DEF HooksRunOnce
  <2> QED
    BY <2>1, <2>2, <2>3, <2>4 DEF History
<1> QED
  BY <1>1, <1>2, <1>3, <1>4, <1>5 DEF LifecycleInv

\* All shutdown hooks have run.
LEMMA HooksDoneStep ==
  ASSUME LifecycleInv, NEW t \in Threads, HooksDone(t)
  PROVE  LifecycleInv'
<1> USE ServeIsThread DEF S, HooksDone, Return, Goto, lifecycleVars, serverVars, httpVars, threadVars
<1>1. TypeOK'
  <2>1. pc' \in [Threads -> Locations]
    BY DEF LifecycleInv, TypeOK, Locations
  <2>2. hand' \in [Threads -> ServerIds \cup {NoServer}]
    BY DEF LifecycleInv, TypeOK
  <2>3. pos' \in [Threads -> Nat] /\ claimed' \in [Threads -> Generations]
    BY LifecycleAssumption DEF LifecycleInv, TypeOK, Generations
  <2> QED
    BY <2>1, <2>2, <2>3 DEF LifecycleInv, TypeOK
<1>2. Phases'
  BY DEF LifecycleInv, TypeOK, Phases, NoLostWakeup
<1>3. Numbering'
  BY DEF LifecycleInv, TypeOK, Numbering, Phases
<1>4. Claims'
  BY DEF LifecycleInv, TypeOK, Claims, Executing
<1>5. History'
  BY LifecycleAssumption DEF LifecycleInv, TypeOK, History, HooksRunOnce
<1> QED
  BY <1>1, <1>2, <1>3, <1>4, <1>5 DEF LifecycleInv

LEMMA NextInv == LifecycleInv /\ [Next]_vars => LifecycleInv'
<1> SUFFICES ASSUME LifecycleInv, [Next]_vars PROVE LifecycleInv'
  OBVIOUS
<1>1. ASSUME NEW t \in Threads, RunShutdownHooks(t) PROVE LifecycleInv'
  BY <1>1, WaitForStartupStep, AlreadyShutDownStep, ClaimGenerationStep, SnapshotHooksStep,
     RunHookStep, HooksDoneStep DEF RunShutdownHooks
<1>2. CASE ServeStep
  BY <1>1, <1>2, ServeIsThread, BeginStartupStep, StartupHookOKStep, StartupHooksDoneStep,
     EndStartupStep, StartAcceptingStep, ServeReturnsStep, ClearServerStep
     DEF ServeStep, ServeClosed, S
<1>3. ASSUME NEW t \in Closers, ShutdownStep(t) PROVE LifecycleInv'
  BY <1>1, <1>3, ServeIsThread, StopServerStep, LeaveDrainStep
     DEF ShutdownStep, Drained, DrainTimeout
<1>4. CASE OnShutdown
  <2>1. hooks + 1 \in 0..MaxHooks /\ hooks <= hooks + 1
    BY <1>4, LifecycleAssumption DEF OnShutdown, LifecycleInv, TypeOK
  <2> QED
    BY <1>4, <2>1, FrameStep DEF OnShutdown, serverVars, httpVars, LifecycleInv, TypeOK
<1>5. CASE RequestArrives
  <2>1. inflight' \in [ServerIds -> 0..MaxInflight]
    <3> DEFINE s == hand[S]
    <3>1. inflight' = [inflight EXCEPT ![s] = inflight[s] + 1] /\ inflight[s] < MaxInflight
      BY <1>5 DEF RequestArrives, S
    <3>2. CASE s \in ServerIds
      <4>1. inflight[s] + 1 \in 0..MaxInflight
        BY <3>1, <3>2, LifecycleAssumption DEF LifecycleInv, TypeOK
      <4> QED
        BY <3>1, <4>1 DEF LifecycleInv, TypeOK
    <3>3. CASE s \notin ServerIds
      BY <3>1, <3>3 DEF LifecycleInv, TypeOK
    <3> QED
      BY <3>2, <3>3
  <2>2. hooks \in 0..MaxHooks /\ hooks <= hooks
    BY LifecycleAssumption DEF LifecycleInv, TypeOK
  <2> QED
    BY <1>5, <2>1, <2>2, FrameStep DEF RequestArrives, serverVars, LifecycleInv, TypeOK
<1>6. ASSUME NEW s \in ServerIds, RequestEnds(s) PROVE LifecycleInv'
  <2>1. inflight' \in [ServerIds -> 0..MaxInflight]
    BY <1>6, LifecycleAssumption DEF RequestEnds, LifecycleInv, TypeOK
  <2>2. hooks \in 0..MaxHooks /\ hooks <= hooks
    BY LifecycleAssumption DEF LifecycleInv, TypeOK
  <2> QED
    BY <1>6, <2>1, <2>2, FrameStep DEF RequestEnds, serverVars, LifecycleInv, TypeOK
<1>7. CASE UNCHANGED vars
  <2>1. hooks \in 0..MaxHooks /\ hooks <= hooks
    BY LifecycleAssumption DEF LifecycleInv, TypeOK
  <2> QED
    BY <1>7, <2>1, FrameStep DEF vars, serverVars, httpVars, LifecycleInv, TypeOK
<1> QED
  BY <1>2, <1>3, <1>4, <1>5, <1>6, <1>7, SetServerStep, StartupHookFailsStep,
     ServeReturnsStep, CallShutdownStep DEF Next, ListenerFails

-----------------------------------------------------------------------------

\* The inductive invariant holds throughout.
THEOREM LifecycleInvHolds == Spec => []LifecycleInv
<1>1. Init => LifecycleInv
  BY InitInv
<1>2. LifecycleInv /\ [Next]_vars => LifecycleInv'
  BY NextInv
<1> QED
  BY <1>1, <1>2, PTL DEF Spec

\* No goroutine is left in cond.Wait of runShutdownHooks once the startup it
\* waits for is over, with any number of callers of Shutdown.
THEOREM WakeupsAreKept == Spec => []NoLostWakeup
<1>1. LifecycleInv => NoLostWakeup
  BY DEF LifecycleInv, Phases
<1> QED
  BY <1>1, LifecycleInvHolds, PTL

\* Among Serve and any number of callers of Shutdown, each generation's shutdown
\* hooks run once, in reverse order of registration (runShutdownHooks).
THEOREM HooksRunAtMostOnce == Spec => []HooksRunOnce
<1>1. LifecycleInv => HooksRunOnce
  BY DEF LifecycleInv, History
<1> QED
  BY <1>1, LifecycleInvHolds, PTL

\* The shutdown hooks of a generation start after its startup hooks are over
\* (runStartupHooks, runShutdownHooks).
THEOREM ShutdownFollowsStartup == Spec => []ShutdownAfterStartup
<1>1. LifecycleInv => ShutdownAfterStartup
  BY LifecycleAssumption
     DEF LifecycleInv, TypeOK, Generations, Numbering, Claims, ShutdownAfterStartup
<1> QED
  BY <1>1, LifecycleInvHolds, PTL

\* Serve hands back an API that can be changed and served again (serve with its
\* deferred clearServer).
THEOREM ServeCleansUp == Spec => []ServeLeavesNothing
<1>1. LifecycleInv => ServeLeavesNothing
  BY DEF LifecycleInv, Phases, Numbering, ServeLeavesNothing, S
<1> QED
  BY <1>1, LifecycleInvHolds, PTL

-----------------------------------------------------------------------------
(* Run.                                                                    *)

R == RunThread

\* Run is inside Shutdown only while it says so.
CallsAreNested == run # "shutdown" => pc[R] = "idle"

\* The result of serve is sent once, when its goroutine is over.
ResultIsLast ==
  /\ servers = 0 => pc[S] = "idle"
  /\ errCh => servers = 1 /\ pc[S] = "idle"
  /\ run = "returned" => errCh

\* A server that Shutdown waits for takes no requests any more.
DrainedIsClosed ==
  /\ pc[R] = "drain" => hand[R] \in inShutdown
  /\ drained => 1 \in inShutdown /\ inflight[1] = 0

RunInv == LifecycleInv /\ RunTypeOK /\ CallsAreNested /\ ResultIsLast /\ DrainedIsClosed

-----------------------------------------------------------------------------

\* There are two goroutines and one server.
LEMMA TwoThreads ==
  /\ S # R /\ Threads = {S, R} /\ Closers = {R}
  /\ MaxServes = 1 /\ ServerIds = {1} /\ Generations = {0, 1}
  BY LifecycleAssumption, RunLoopAssumption, ServeIsThread
  DEF S, R, Threads, ServerIds, Generations

\* Nothing has begun.
LEMMA RunStarts == RunInit => RunInv
<1>. SUFFICES ASSUME RunInit PROVE RunInv
  OBVIOUS
<1>1. LifecycleInv
  BY InitInv DEF RunInit
<1>2. CallsAreNested /\ ResultIsLast /\ DrainedIsClosed
  BY TwoThreads DEF RunInit, Init, CallsAreNested, ResultIsLast, DrainedIsClosed
<1>. QED
  BY <1>1, <1>2 DEF RunInv, RunTypeOK, RunInit, LifecycleInv

\* A step of the serve goroutine: it may wake Run, and does no more to it.
LEMMA ServeLeavesRun ==
  ASSUME LifecycleInv, SetServer \/ ServeStep \/ StartupHookFails \/ ListenerFails
  PROVE  /\ hand'[R] = hand[R]
         /\ pc'[R] = pc[R] \/ (pc[R] = "condWait" /\ pc'[R] = "enter")
         /\ UNCHANGED <<inShutdown, inflight>>
<1>. USE TwoThreads DEF S, Goto, lifecycleVars, serverVars, httpVars, threadVars
<1>1. CASE SetServer
  BY <1>1 DEF LifecycleInv, TypeOK, SetServer
<1>2. CASE StartupHookFails \/ ListenerFails \/ ServeClosed
  BY <1>2 DEF LifecycleInv, TypeOK, StartupHookFails, ListenerFails, ServeClosed, ServeReturns
<1>3. CASE BeginStartup \/ StartupHookOK \/ StartupHooksDone \/ StartAccepting \/ ClearServer
  BY <1>3
  DEF LifecycleInv, TypeOK, BeginStartup, StartupHookOK, StartupHooksDone, StartAccepting, ClearServer
<1>4. CASE EndStartup
  BY <1>4 DEF LifecycleInv, TypeOK, EndStartup, EndStartupWaking
<1>5. CASE RunShutdownHooks(S)
  BY <1>5
  DEF LifecycleInv, TypeOK, RunShutdownHooks, WaitForStartup, AlreadyShutDown, ClaimGeneration,
      SnapshotHooks, RunHook, HooksDone, Return
<1>. QED
  BY <1>1, <1>2, <1>3, <1>4, <1>5 DEF ServeStep

\* It begins once, and is over when it has cleared the server.
LEMMA ServeGoesOn ==
  ASSUME RunInv, SetServer \/ ServeStep \/ StartupHookFails \/ ListenerFails
  PROVE  /\ ~errCh
         /\ servers' = 1
         /\ pc[S] = "clear" => pc'[S] = "idle"
<1>. USE TwoThreads DEF S, Goto, lifecycleVars, serverVars, httpVars, threadVars
<1>1. CASE SetServer
  BY <1>1 DEF RunInv, LifecycleInv, TypeOK, ResultIsLast, SetServer
<1>2. CASE StartupHookFails \/ ListenerFails \/ ServeClosed
  BY <1>2
  DEF RunInv, LifecycleInv, TypeOK, ResultIsLast, StartupHookFails, ListenerFails, ServeClosed,
      ServeReturns
<1>3. CASE BeginStartup \/ StartupHookOK \/ StartupHooksDone \/ StartAccepting \/ EndStartup
  BY <1>3
  DEF RunInv, LifecycleInv, TypeOK, ResultIsLast, BeginStartup, StartupHookOK, StartupHooksDone,
      StartAccepting, EndStartup, EndStartupWaking
<1>4. CASE ClearServer
  BY <1>4 DEF RunInv, LifecycleInv, TypeOK, ResultIsLast, ClearServer
<1>5. CASE RunShutdownHooks(S)
  BY <1>5
  DEF RunInv, LifecycleInv, TypeOK, ResultIsLast, RunShutdownHooks, WaitForStartup, AlreadyShutDown,
      ClaimGeneration, SnapshotHooks, RunHook, HooksDone, Return
<1>. QED
  BY <1>1, <1>2, <1>3, <1>4, <1>5 DEF ServeStep

\* A step of Run inside Shutdown leaves the serve goroutine alone.
LEMMA ShutdownLeavesServe ==
  ASSUME LifecycleInv, ShutdownStep(R)
  PROVE  /\ pc'[S] = pc[S] /\ UNCHANGED <<servers, inflight>>
         /\ inShutdown \subseteq inShutdown'
         /\ pc'[R] = "drain" => hand'[R] \in inShutdown'
<1>. USE TwoThreads DEF S, R, Goto, lifecycleVars, serverVars, httpVars, threadVars
<1>1. CASE StopServer(R)
  BY <1>1 DEF LifecycleInv, TypeOK, StopServer
<1>2. CASE Drained(R) \/ DrainTimeout(R)
  BY <1>2 DEF LifecycleInv, TypeOK, Drained, DrainTimeout, LeaveDrain
<1>3. CASE RunShutdownHooks(R)
  BY <1>3
  DEF LifecycleInv, TypeOK, RunShutdownHooks, WaitForStartup, AlreadyShutDown, ClaimGeneration,
      SnapshotHooks, RunHook, HooksDone, Return
<1>. QED
  BY <1>1, <1>2, <1>3 DEF ShutdownStep

-----------------------------------------------------------------------------
(* The steps.                                                              *)

\* What is a step of Lifecycle keeps its invariant.
LEMMA LifecycleKept == ASSUME RunInv, RunNext PROVE LifecycleInv'
<1>. SUFFICES [Next]_vars
  BY NextInv DEF RunInv
<1>1. CASE SignalArrives \/ SelectError \/ SelectSignal \/ ShutdownReturned \/ Join
  BY <1>1 DEF SignalArrives, SelectError, SelectSignal, ShutdownReturned, Join
<1>2. CASE ServeGoroutine
  BY <1>2 DEF ServeGoroutine, Next
<1>3. CASE RunCallsShutdown \/ RunInShutdown
  BY <1>3, TwoThreads DEF RunCallsShutdown, RunInShutdown, Next, R
<1>4. CASE Requests \/ Registration
  BY <1>4 DEF Requests, Registration, Next
<1>. QED
  BY <1>1, <1>2, <1>3, <1>4 DEF RunNext, RunStep

\* The serve goroutine.
LEMMA ServeKeepsRun ==
  ASSUME RunInv, ServeGoroutine
  PROVE  RunTypeOK' /\ CallsAreNested' /\ ResultIsLast' /\ DrainedIsClosed'
<1>1. LifecycleInv'
  BY LifecycleKept DEF RunNext
<1>2. RunTypeOK'
  BY <1>1 DEF RunInv, RunTypeOK, ServeGoroutine, LifecycleInv
<1>3. CallsAreNested' /\ DrainedIsClosed'
  BY ServeLeavesRun DEF RunInv, ServeGoroutine, CallsAreNested, DrainedIsClosed
<1>4. ~errCh /\ servers' = 1 /\ (pc[S] = "clear" => pc'[S] = "idle")
  BY ServeGoesOn DEF ServeGoroutine
<1>5. (errCh' => pc[S] = "clear") /\ run' = run
  BY <1>4 DEF RunInv, RunTypeOK, ServeGoroutine, S
<1>6. ResultIsLast'
  BY <1>4, <1>5 DEF RunInv, ResultIsLast
<1>. QED
  BY <1>2, <1>3, <1>6

\* Run itself.
LEMMA RunStepKeepsRun ==
  ASSUME RunInv, RunStep
  PROVE  RunTypeOK' /\ CallsAreNested' /\ ResultIsLast' /\ DrainedIsClosed'
<1>1. LifecycleInv'
  BY LifecycleKept DEF RunNext
<1>2. CASE SelectError \/ SelectSignal \/ ShutdownReturned \/ Join
  BY <1>1, <1>2
  DEF RunInv, RunTypeOK, LifecycleInv, SelectError, SelectSignal, ShutdownReturned, Join,
      CallsAreNested, ResultIsLast, DrainedIsClosed, vars, lifecycleVars, serverVars, httpVars,
      threadVars, R
<1>3. CASE RunCallsShutdown
  <2>1. pc'[S] = pc[S] /\ pc'[R] # "drain" /\ UNCHANGED <<servers, inflight, inShutdown>>
    BY <1>3, TwoThreads
    DEF RunInv, LifecycleInv, TypeOK, RunCallsShutdown, CallShutdown, Goto, serverVars, httpVars, R
  <2>. QED
    BY <1>1, <1>3, <2>1
    DEF RunInv, RunTypeOK, LifecycleInv, RunCallsShutdown, CallsAreNested, ResultIsLast,
        DrainedIsClosed
<1>4. CASE RunInShutdown
  <2>1. ShutdownStep(R)
    BY <1>4 DEF RunInShutdown, R
  <2>2. drained' => 1 \in inShutdown /\ inflight[1] = 0
    BY <1>4, TwoThreads, ServeIsThread
    DEF RunInv, LifecycleInv, TypeOK, Phases, RunInShutdown, DrainedIsClosed, R
  <2>3. CallsAreNested' /\ ResultIsLast' /\ DrainedIsClosed'
    BY <1>4, <2>1, <2>2, ShutdownLeavesServe
    DEF RunInv, RunInShutdown, CallsAreNested, ResultIsLast, DrainedIsClosed
  <2>. QED
    BY <1>1, <1>4, <2>3 DEF RunInv, RunTypeOK, LifecycleInv, RunInShutdown
<1>. QED
  BY <1>2, <1>3, <1>4 DEF RunStep

\* Signals, hooks that are registered, and requests: a server that is closed gets none.
LEMMA OthersKeepRun ==
  ASSUME RunInv, SignalArrives \/ Requests \/ Registration \/ UNCHANGED allVars
  PROVE  RunTypeOK' /\ CallsAreNested' /\ ResultIsLast' /\ DrainedIsClosed'
<1>1. LifecycleInv'
  <2>1. CASE UNCHANGED allVars
    BY <2>1, NextInv DEF RunInv, allVars
  <2>. QED
    BY <2>1, LifecycleKept DEF RunNext
<1>2. pc' = pc /\ hand' = hand /\ servers' = servers /\ inShutdown' = inShutdown
  BY DEF SignalArrives, Requests, Registration, RequestArrives, RequestEnds, OnShutdown, allVars, vars,
         serverVars, httpVars, threadVars
<1>3. 1 \in inShutdown /\ inflight[1] = 0 => inflight'[1] = 0
  <2>1. CASE RequestArrives
    BY <2>1, TwoThreads DEF RunInv, LifecycleInv, TypeOK, RequestArrives
  <2>2. ASSUME NEW s \in ServerIds, RequestEnds(s)
        PROVE  1 \in inShutdown /\ inflight[1] = 0 => inflight'[1] = 0
    BY <2>2, TwoThreads DEF RunInv, LifecycleInv, TypeOK, RequestEnds
  <2>3. CASE UNCHANGED inflight
    BY <2>3
  <2>. QED
    BY <2>1, <2>2, <2>3 DEF SignalArrives, Requests, Registration, OnShutdown, allVars, vars, httpVars
<1>4. run' = run /\ errCh' = errCh /\ drained' = drained /\ signalled' \in BOOLEAN
  BY DEF RunInv, RunTypeOK, SignalArrives, Requests, Registration, allVars, runVars
<1>. QED
  BY <1>1, <1>2, <1>3, <1>4
  DEF RunInv, RunTypeOK, LifecycleInv, CallsAreNested, ResultIsLast, DrainedIsClosed

\* Every step keeps the invariant.
LEMMA RunSteps == RunInv /\ [RunNext]_allVars => RunInv'
<1>. SUFFICES ASSUME RunInv, [RunNext]_allVars PROVE RunInv'
  OBVIOUS
<1>1. LifecycleInv'
  <2>1. CASE UNCHANGED allVars
    BY <2>1, NextInv DEF RunInv, allVars
  <2>. QED
    BY <2>1, LifecycleKept
<1>. QED
  BY <1>1, ServeKeepsRun, RunStepKeepsRun, OthersKeepRun DEF RunInv, RunNext

\* The invariant holds in every reachable state.
THEOREM RunInvHolds == RunSpec => []RunInv
<1>1. RunInit => RunInv
  BY RunStarts
<1>2. RunInv /\ [RunNext]_allVars => RunInv'
  BY RunSteps
<1>. QED
  BY <1>1, <1>2, PTL DEF RunSpec

\* When Run returns, whichever way it ended, the goroutine of serve is over, nobody is
\* in the middle of shutdown hooks, those of the startup have been claimed and run, and
\* a shutdown that drained has left no request behind (ninja.go Run, lifecycle.go).
THEOREM RunCutsNothingShort == RunSpec => []NothingCutShort
<1>1. RunInv => NothingCutShort
  BY TwoThreads, ServeIsThread
  DEF RunInv, CallsAreNested, ResultIsLast, DrainedIsClosed, LifecycleInv, Numbering,
      NothingCutShort
<1>. QED
  BY <1>1, RunInvHolds, PTL

\* Run, errCh and signals keep their types.
THEOREM RunTypesHold == RunSpec => []RunTypeOK
<1>1. RunInv => RunTypeOK
  BY DEF RunInv
<1>. QED
  BY <1>1, RunInvHolds, PTL

-----------------------------------------------------------------------------
(* Settings: the configuration and the database that an application has    *)
(* before it runs.                                                         *)

(* What was decoded follows what was given, and what is opened follows that. *)

\* The DSN that the files and the environment give.
GivenDSN == ValueOf("database.dsn", merged, setup.environ)

\* SQLite's names stand for SQLite, and of the DSN that was given the Config has lost
\* nothing but the default.
RegistryHolds ==
  \A name \in DOMAIN registry : name \in {"sqlite", "sqlite3"} => registry[name] = "sqlite"

DecodedHolds ==
  loadStage \in {"loaded", "open"} =>
    \/ config["database.dsn"] = GivenDSN
    \/ config["database.dsn"] = "" /\ GivenDSN = "app.db"

SettingsInv == RegistryHolds /\ DecodedHolds /\ OpenedIsConfigured

\* Nothing is registered, decoded or open at first.
LEMMA SettingsInvInit == SettingsInit => SettingsInv
  BY DEF SettingsInit, SettingsInv, RegistryHolds, DecodedHolds, OpenedIsConfigured

\* A package adds its names to the registry and takes none away.
LEMMA RegistryGrows ==
  ASSUME RegistryHolds, NEW package \in DriverPackages, RegisterDriver(package)
  PROVE  RegistryHolds'
<1>1. PICK taken \in 0..Len(package.names) :
        /\ \A i \in 1..taken : package.names[i] \notin DOMAIN registry
        /\ registry' = MergeKeys(registry, [name \in {package.names[i] : i \in 1..taken} |-> package.builder])
  BY DEF RegisterDriver
<1>. SUFFICES ASSUME NEW name \in DOMAIN registry', name \in {"sqlite", "sqlite3"}
             PROVE  registry'[name] = "sqlite"
  BY DEF RegistryHolds
<1>2. CASE name \in {package.names[i] : i \in 1..taken}
  <2>1. registry'[name] = package.builder
    BY <1>1, <1>2 DEF MergeKeys
  <2>2. PICK i \in 1..taken : name = package.names[i]
    BY <1>2
  <2>3. i \in DOMAIN package.names
    BY <1>1, <2>2, SettingsAssumption
  <2>. QED
    BY <2>1, <2>2, <2>3, SettingsAssumption
<1>3. CASE name \notin {package.names[i] : i \in 1..taken}
  BY <1>1, <1>3 DEF MergeKeys, RegistryHolds
<1>. QED
  BY <1>2, <1>3

\* Decoding drops no DSN but the default.
LEMMA DecodeKeepsGiven ==
  ASSUME Decode, loadStage' = "loaded"
  PROVE  \/ config'["database.dsn"] = GivenDSN
         \/ config'["database.dsn"] = "" /\ GivenDSN = "app.db"
<1>. DEFINE values == [key \in ConfigKeys |-> ValueOf(key, merged, setup.environ)]
<1>1. config' = [values EXCEPT !["database.dsn"] = NormalizedDSN(values)]
  BY DEF Decode
<1>2. "database.dsn" \in ConfigKeys
  BY SettingsAssumption DEF ConfigKeys
<1>3. values["database.dsn"] = GivenDSN /\ config'["database.dsn"] = NormalizedDSN(values)
  BY <1>1, <1>2 DEF GivenDSN
<1>4. \/ NormalizedDSN(values) = values["database.dsn"]
      \/ NormalizedDSN(values) = "" /\ values["database.dsn"] = "app.db"
  <2>. HIDE DEF values
  <2>. QED
    BY DEF NormalizedDSN
<1>. QED
  BY <1>3, <1>4

\* What InitDB opens follows the DSN of the Config, unless it is the default and the
\* server has structured settings.
LEMMA DatabaseFollows ==
  ASSUME NEW values, NEW builder,
         builder # "sqlite" => values["database.driver"] \notin {"sqlite", "sqlite3"},
         DatabaseOf(values, builder) # NoDatabase
  PROVE  LET dsn == values["database.dsn"]
             database == DatabaseOf(values, builder)
         IN /\ database.builder = builder
            /\ builder # "sqlite" /\ IsConfigured(values, builder) /\ dsn \in {"", "app.db"}
                 => "structured" \in DOMAIN database
            /\ dsn \notin {"", "app.db"} => database = [builder |-> builder, dsn |-> dsn]
  BY DEF DatabaseOf, IgnoreDefaultDSN

\* So InitDB opens what was configured.
LEMMA OpensConfigured ==
  ASSUME SettingsInv, OpenDatabase
  PROVE  OpenedIsConfigured'
<1>. SUFFICES ASSUME loadStage' = "open"
             PROVE  OpenedIsConfigured'
  BY DEF OpenedIsConfigured
<1>. DEFINE driver == DriverName(config["database.driver"])
            builder == registry[driver]
<1>1. /\ driver \in DOMAIN registry /\ opened' = DatabaseOf(config, builder)
      /\ DatabaseOf(config, builder) # NoDatabase
  BY DEF OpenDatabase
<1>2. builder # "sqlite" => config["database.driver"] \notin {"sqlite", "sqlite3"}
  BY <1>1 DEF SettingsInv, RegistryHolds, DriverName
<1>3. loadStage = "loaded" /\ UNCHANGED <<config, merged, setup>>
  BY DEF OpenDatabase
<1>4. LET dsn == config["database.dsn"]
          database == DatabaseOf(config, builder)
      IN /\ database.builder = builder
         /\ builder # "sqlite" /\ IsConfigured(config, builder) /\ dsn \in {"", "app.db"}
              => "structured" \in DOMAIN database
         /\ dsn \notin {"", "app.db"} => database = [builder |-> builder, dsn |-> dsn]
  <2>. HIDE DEF builder
  <2>. QED
    BY <1>1, <1>2, DatabaseFollows
<1>. HIDE DEF builder, driver
<1>. QED
  BY <1>1, <1>3, <1>4 DEF OpenedIsConfigured, SettingsInv, DecodedHolds, GivenDSN

\* No step of loading loses any of it.
LEMMA SettingsInvStep == SettingsInv /\ [SettingsNext]_settingsVars => SettingsInv'
<1>. SUFFICES ASSUME SettingsInv, [SettingsNext]_settingsVars
             PROVE  SettingsInv'
  OBVIOUS
<1>1. CASE UNCHANGED settingsVars
  BY <1>1 DEF settingsVars, SettingsInv, RegistryHolds, DecodedHolds, GivenDSN, OpenedIsConfigured
<1>2. ASSUME NEW package \in DriverPackages, RegisterDriver(package)
      PROVE  SettingsInv'
  <2>1. loadStage' \in {"start", "failed"}
    BY <1>2 DEF RegisterDriver
  <2>. QED
    BY <1>2, <2>1, RegistryGrows DEF SettingsInv, DecodedHolds, OpenedIsConfigured
<1>3. CASE ReadBase \/ CannotReadBase \/ MergeOverrides \/ CannotReadOverride
  <2>1. loadStage' \in {"base", "merged", "failed"} /\ UNCHANGED registry
    BY <1>3 DEF ReadBase, CannotReadBase, MergeOverrides, CannotReadOverride, LoadFails
  <2>. QED
    BY <2>1 DEF SettingsInv, RegistryHolds, DecodedHolds, OpenedIsConfigured
<1>4. CASE Decode
  <2>1. loadStage' \in {"loaded", "failed"} /\ UNCHANGED <<registry, merged, setup>>
    BY <1>4 DEF Decode
  <2>. QED
    BY <1>4, <2>1, DecodeKeepsGiven
       DEF SettingsInv, RegistryHolds, DecodedHolds, OpenedIsConfigured, GivenDSN
<1>5. CASE OpenDatabase
  <2>1. loadStage = "loaded" /\ UNCHANGED <<registry, config, merged, setup>>
    BY <1>5 DEF OpenDatabase
  <2>. QED
    BY <1>5, <2>1, OpensConfigured DEF SettingsInv, RegistryHolds, DecodedHolds, GivenDSN
<1>. QED
  BY <1>1, <1>2, <1>3, <1>4, <1>5 DEF SettingsNext

\* At every stage of loading, with any driver packages in any order.
THEOREM SettingsInvHolds == SettingsSpec => []SettingsInv
  BY SettingsInvInit, SettingsInvStep, PTL DEF SettingsSpec

\* A configured database server is never replaced by the default file app.db, however its
\* driver is written, and a DSN that was set is the one that is opened.
THEOREM ConfiguredIsOpened == SettingsSpec => []OpenedIsConfigured
<1>1. SettingsInv => OpenedIsConfigured
  BY DEF SettingsInv
<1>. QED
  BY <1>1, SettingsInvHolds, PTL

-----------------------------------------------------------------------------

\* The concatenation of lists of elements is a list of them.
LEMMA FlattenIsASequence ==
  ASSUME NEW E, NEW lists \in Seq(Seq(E))
  PROVE  FlattenSeq(lists) \in Seq(E)
<1>1. CASE Len(lists) = 0
  BY <1>1 DEF FlattenSeq
<1>2. CASE Len(lists) # 0
  <2>. DEFINE joined(f, n) == [i \in 1..n |-> IF i = 1 THEN lists[i] ELSE f[i - 1] \o lists[i]]
              Missing == {n \in 1..Len(lists) : ~ \E f : f = joined(f, n)}
              N == Len(lists)
  <2>1. Missing = {}
    <3>1. SUFFICES ASSUME Missing # {} PROVE FALSE
      OBVIOUS
    <3>2. PICK n \in Missing : \A m \in Missing : n <= m
      <4>1. Missing \subseteq 1..Len(lists)
        BY Zenon
      <4>2. 1..Len(lists) \subseteq Nat
        OBVIOUS
      <4>. HIDE DEF Missing
      <4>3. Missing \subseteq Nat
        BY <4>1, <4>2
      <4>. QED
        BY <3>1, <4>3, LeastThereIs
    <3>3. n \in 1..Len(lists) /\ ~ \E f : f = joined(f, n)
      OBVIOUS
    <3>4. CASE n = 1
      <4>. DEFINE f == [i \in 1..1 |-> lists[i]]
      <4>1. f = joined(f, 1)
        OBVIOUS
      <4>. QED
        BY <3>3, <3>4, <4>1
    <3>5. CASE n # 1
      <4>1. n - 1 \in 1..Len(lists) /\ n - 1 < n
        BY <3>3, <3>5
      <4>2. n - 1 \notin Missing
        <5>1. n \in Nat
          BY <3>3
        <5>. HIDE DEF Missing
        <5>. QED
          BY <3>2, <4>1, <5>1
      <4>3. PICK f : f = joined(f, n - 1)
        BY <4>1, <4>2
      <4>. DEFINE h == [i \in 1..n |-> IF i = n THEN f[n - 1] \o lists[n] ELSE f[i]]
      <4>4. ASSUME NEW i \in 1..n
            PROVE  h[i] = IF i = 1 THEN lists[i] ELSE h[i - 1] \o lists[i]
        <5>1. CASE i = n
          <6>1. n - 1 \in 1..n /\ n - 1 # n
            BY <3>3, <3>5
          <6>. QED
            BY <3>5, <5>1, <6>1
        <5>2. CASE i # n /\ i = 1
          <6>1. i \in 1..(n - 1)
            BY <3>3, <5>2
          <6>. QED
            BY <4>3, <5>2, <6>1
        <5>3. CASE i # n /\ i # 1
          <6>1. i \in 1..(n - 1) /\ i - 1 \in 1..n /\ i - 1 # n
            BY <3>3, <5>3
          <6>2. f[i] = f[i - 1] \o lists[i]
            BY <4>3, <5>3, <6>1
          <6>3. h[i] = f[i] /\ h[i - 1] = f[i - 1]
            BY <5>3, <6>1
          <6>. QED
            BY <5>3, <6>2, <6>3
        <5>. QED
          BY <5>1, <5>2, <5>3
      <4>5. h = joined(h, n)
        BY <4>4
      <4>. QED
        BY <3>3, <4>5
    <3>. QED
      BY <3>4, <3>5
  <2>. DEFINE flatten == CHOOSE f : f = joined(f, N)
  <2>2. flatten = joined(flatten, N)
    <3>1. N \in 1..N
      BY <1>2
    <3>2. \E f : f = joined(f, N)
      BY <2>1, <3>1
    <3>. QED
      BY <3>2, Zenon
  <2>3. FlattenSeq(lists) = flatten[N]
    BY <1>2 DEF FlattenSeq
  <2>. HIDE DEF flatten
  <2>. DEFINE Bad == {n \in 1..N : flatten[n] \notin Seq(E)}
  <2>4. Bad = {}
    <3>1. SUFFICES ASSUME Bad # {} PROVE FALSE
      OBVIOUS
    <3>2. PICK n \in Bad : \A m \in Bad : n <= m
      <4>1. Bad \subseteq Nat
        OBVIOUS
      <4>. HIDE DEF Bad
      <4>. QED
        BY <3>1, <4>1, LeastThereIs
    <3>3. n \in 1..N /\ lists[n] \in Seq(E) /\ flatten[n] \notin Seq(E)
      OBVIOUS
    <3>4. n # 1
      BY <2>2, <3>3
    <3>5. n - 1 \in 1..N /\ n - 1 < n /\ n \in Nat
      BY <3>3, <3>4
    <3>6. flatten[n] = flatten[n - 1] \o lists[n]
      BY <2>2, <3>3, <3>4
    <3>7. flatten[n - 1] \in Seq(E)
      <4>1. n - 1 \notin Bad
        <5>. HIDE DEF Bad
        <5>. QED
          BY <3>2, <3>5
      <4>. QED
        BY <3>5, <4>1
    <3>. QED
      BY <3>3, <3>6, <3>7
  <2>. QED
    BY <1>2, <2>3, <2>4
<1>. QED
  BY <1>1, <1>2

\* What is below a router is below what is above it.
LEMMA BelowGoesDown ==
  ASSUME NEW r \in Nodes, NEW t \in Children(r), Children(r) \subseteq Nodes
  PROVE  {t} \cup Below(t) \subseteq Below(r)
<1>1. ASSUME NEW closed \in SUBSET Nodes,
             Children(r) \cup UNION {Children(u) : u \in closed} \subseteq closed
      PROVE  t \in closed /\ Children(t) \cup UNION {Children(u) : u \in closed} \subseteq closed
  BY <1>1
<1>2. t \in Below(r)
  BY <1>1 DEF Below
<1>3. ASSUME NEW s \in Below(t) PROVE s \in Below(r)
  <2>1. s \in Nodes
    BY <1>3 DEF Below
  <2>2. ASSUME NEW closed \in SUBSET Nodes,
               Children(r) \cup UNION {Children(u) : u \in closed} \subseteq closed
        PROVE  s \in closed
    <3>1. Children(t) \cup UNION {Children(u) : u \in closed} \subseteq closed
      BY <1>1, <2>2
    <3>. QED
      BY <1>3, <3>1 DEF Below
  <2>. QED
    BY <2>1, <2>2 DEF Below
<1>. QED
  BY <1>2, <1>3

\* A router, with what it has got.
Operations == [endpoint : Endpoints, by : Nodes, number : Nat, secured : BOOLEAN]
RouterRecords ==
  [prefix : {routing.prefix : routing \in Routings}, version : {routing.version : routing \in Routings},
   auth : {routing.auth : routing \in Routings}, operations : Seq(Operations),
   subrouters : Seq(Nodes), guarded : BOOLEAN, mounted : BOOLEAN]

\* What is found under a router leads there by routers that are below it.
Entries(s) == [chain : Seq({s} \cup Below(s)), operation : Operations]
LeadDown(below) == \A s \in Nodes : below[s] \in Seq(Entries(s))

\* One level more keeps that.
LEMMA LevelLeadsDown ==
  ASSUME tree \in [Nodes -> RouterRecords], NEW below, LeadDown(below)
  PROVE  LeadDown(Level(below))
<1>1. SUFFICES ASSUME NEW s \in Nodes PROVE Level(below)[s] \in Seq(Entries(s))
  BY DEF Level, LeadDown
<1>2. tree[s].operations \in Seq(Operations) /\ tree[s].subrouters \in Seq(Nodes)
  BY DEF RouterRecords
<1>3. Own(s) \in Seq(Entries(s))
  <2>1. DOMAIN tree[s].operations = 1..Len(tree[s].operations) /\ Len(tree[s].operations) \in Nat
    BY <1>2
  <2>2. ASSUME NEW i \in 1..Len(tree[s].operations)
        PROVE  [chain |-> <<s>>, operation |-> tree[s].operations[i]] \in Entries(s)
    <3>1. tree[s].operations[i] \in Operations
      BY <1>2, <2>2
    <3>2. <<s>> \in Seq({s} \cup Below(s))
      OBVIOUS
    <3>. QED
      BY <3>1, <3>2 DEF Entries
  <2>. HIDE DEF Entries
  <2>. QED
    BY <2>1, <2>2 DEF Own
<1>. DEFINE lists == [i \in DOMAIN tree[s].subrouters |-> Under(s, below[tree[s].subrouters[i]])]
<1>4. lists \in Seq(Seq(Entries(s)))
  <2>1. DOMAIN tree[s].subrouters = 1..Len(tree[s].subrouters) /\ Len(tree[s].subrouters) \in Nat
    BY <1>2
  <2>2. ASSUME NEW i \in 1..Len(tree[s].subrouters)
        PROVE  Under(s, below[tree[s].subrouters[i]]) \in Seq(Entries(s))
    <3>. DEFINE t == tree[s].subrouters[i]
    <3>1. t \in Nodes /\ t \in Children(s) /\ Children(s) \subseteq Nodes
      BY <1>2, <2>1 DEF Children, ToSet
    <3>2. {t} \cup Below(t) \subseteq Below(s)
      BY <3>1, BelowGoesDown
    <3>3. below[t] \in Seq(Entries(t))
      BY <3>1 DEF LeadDown
    <3>. HIDE DEF t
    <3>4. Len(below[t]) \in Nat /\ DOMAIN below[t] = 1..Len(below[t])
      BY <3>3
    <3>5. ASSUME NEW k \in 1..Len(below[t])
          PROVE  [chain |-> <<s>> \o below[t][k].chain, operation |-> below[t][k].operation] \in Entries(s)
      <4>1. below[t][k] \in Entries(t)
        BY <3>3, <3>5, ElementOfSeq
      <4>2. below[t][k].chain \in Seq({t} \cup Below(t)) /\ below[t][k].operation \in Operations
        BY <4>1 DEF Entries
      <4>3. below[t][k].chain \in Seq({s} \cup Below(s)) /\ <<s>> \in Seq({s} \cup Below(s))
        BY <3>2, <4>2
      <4>4. <<s>> \o below[t][k].chain \in Seq({s} \cup Below(s))
        BY <4>3
      <4>. QED
        BY <4>2, <4>4 DEF Entries
    <3>6. Under(s, below[t]) \in Seq(Entries(s))
      <4>. DEFINE found == below[t]
                  under == [k \in 1..Len(found) |->
                              [chain |-> <<s>> \o found[k].chain, operation |-> found[k].operation]]
      <4>1. Under(s, found) = under
        BY <3>4 DEF Under
      <4>. HIDE DEF Entries
      <4>2. under \in [1..Len(found) -> Entries(s)]
        BY <3>5
      <4>3. under \in Seq(Entries(s))
        <5>. HIDE DEF under
        <5>. QED
          BY <3>4, <4>2
      <4>. QED
        BY <4>1, <4>3
    <3>. QED
      BY <3>6 DEF t
  <2>. HIDE DEF Entries
  <2>. QED
    BY <2>1, <2>2
<1>5. FlattenSeq(lists) \in Seq(Entries(s))
  BY <1>4, FlattenIsASequence
<1>6. Own(s) \o FlattenSeq(lists) \in Seq(Entries(s))
  <2>. HIDE DEF lists, Entries
  <2>. QED
    BY <1>3, <1>5
<1>. QED
  BY <1>6 DEF Level

\* However deep the tree is, what is found under a router is below it.
LEMMA FoundLeadsDown ==
  ASSUME tree \in [Nodes -> RouterRecords], NEW r \in Nodes
  PROVE  Found(r) \in Seq(Entries(r))
<1>. DEFINE N == Cardinality(Nodes)
            walked(f, n) == [k \in 0..n |-> Level(IF k = 0 THEN [s \in Nodes |-> <<>>] ELSE f[k - 1])]
            Missing == {n \in 0..N : ~ \E f : f = walked(f, n)}
<1>1. N \in Nat
  BY RoutersAssumption, FS_CardinalityType
<1>2. Missing = {}
  <2>1. SUFFICES ASSUME Missing # {} PROVE FALSE
    OBVIOUS
  <2>2. PICK n \in Missing : \A m \in Missing : n <= m
    <3>1. Missing \subseteq 0..N
      BY Zenon
    <3>2. 0..N \subseteq Nat
      OBVIOUS
    <3>. HIDE DEF Missing
    <3>3. Missing \subseteq Nat
      BY <3>1, <3>2
    <3>. QED
      BY <2>1, <3>3, LeastThereIs
  <2>3. n \in 0..N /\ ~ \E f : f = walked(f, n)
    OBVIOUS
  <2>4. CASE n = 0
    <3>. DEFINE f == [k \in 0..0 |-> Level([s \in Nodes |-> <<>>])]
    <3>1. f = walked(f, 0)
      OBVIOUS
    <3>. QED
      BY <2>3, <2>4, <3>1
  <2>5. CASE n # 0
    <3>1. n - 1 \in 0..N /\ n - 1 < n
      BY <1>1, <2>3, <2>5
    <3>2. n - 1 \notin Missing
      <4>1. n \in Nat
        BY <2>3
      <4>. HIDE DEF Missing
      <4>. QED
        BY <2>2, <3>1, <4>1
    <3>3. PICK f : f = walked(f, n - 1)
      BY <3>1, <3>2
    <3>. DEFINE h == [k \in 0..n |-> IF k = n THEN Level(f[n - 1]) ELSE f[k]]
    <3>4. ASSUME NEW k \in 0..n
          PROVE  h[k] = Level(IF k = 0 THEN [s \in Nodes |-> <<>>] ELSE h[k - 1])
      <4>1. CASE k = n
        <5>1. n - 1 \in 0..n /\ n - 1 # n
          BY <2>3, <2>5
        <5>. QED
          BY <2>5, <4>1, <5>1
      <4>2. CASE k # n /\ k = 0
        <5>1. k \in 0..(n - 1)
          BY <2>3, <4>2
        <5>. QED
          BY <3>3, <4>2, <5>1
      <4>3. CASE k # n /\ k # 0
        <5>1. k \in 0..(n - 1) /\ k - 1 \in 0..n /\ k - 1 # n
          BY <2>3, <4>3
        <5>2. f[k] = Level(f[k - 1])
          BY <3>3, <4>3, <5>1
        <5>3. h[k] = f[k] /\ h[k - 1] = f[k - 1]
          BY <4>3, <5>1
        <5>. QED
          BY <4>3, <5>2, <5>3
      <4>. QED
        BY <4>1, <4>2, <4>3
    <3>5. h = walked(h, n)
      BY <3>4
    <3>. QED
      BY <2>3, <3>5
  <2>. QED
    BY <2>4, <2>5
<1>. DEFINE walk == CHOOSE f : f = walked(f, N)
<1>3. walk = walked(walk, N)
  <2>1. N \in 0..N
    BY <1>1
  <2>2. \E f : f = walked(f, N)
    BY <1>2, <2>1
  <2>. QED
    BY <2>2, Zenon
<1>4. Found(r) = walk[N][r]
  BY DEF Found
<1>. HIDE DEF walk
<1>. DEFINE Astray == {n \in 0..N : ~ LeadDown(walk[n])}
<1>5. Astray = {}
  <2>1. SUFFICES ASSUME Astray # {} PROVE FALSE
    OBVIOUS
  <2>2. PICK n \in Astray : \A m \in Astray : n <= m
    <3>1. Astray \subseteq Nat
      OBVIOUS
    <3>. HIDE DEF Astray
    <3>. QED
      BY <2>1, <3>1, LeastThereIs
  <2>3. n \in 0..N /\ ~ LeadDown(walk[n])
    OBVIOUS
  <2>4. CASE n = 0
    <3>1. LeadDown([s \in Nodes |-> <<>>])
      BY DEF LeadDown
    <3>2. walk[n] = Level([s \in Nodes |-> <<>>])
      BY <1>3, <2>3, <2>4
    <3>. QED
      BY <2>3, <3>1, <3>2, LevelLeadsDown
  <2>5. CASE n # 0
    <3>1. n - 1 \in 0..N /\ n - 1 < n /\ n \in Nat
      BY <1>1, <2>3, <2>5
    <3>2. n - 1 \notin Astray
      <4>. HIDE DEF Astray
      <4>. QED
        BY <2>2, <3>1
    <3>3. walk[n] = Level(walk[n - 1])
      BY <1>3, <2>3, <2>5
    <3>. QED
      BY <2>3, <3>1, <3>2, <3>3, LevelLeadsDown
  <2>. QED
    BY <2>4, <2>5
<1>6. LeadDown(walk[N])
  <2>1. N \in 0..N
    BY <1>1
  <2>. QED
    BY <1>5, <2>1
<1>. QED
  BY <1>4, <1>6 DEF LeadDown

-----------------------------------------------------------------------------

\* A name made unique is a new one.
LEMMA MadeUnique ==
  ASSUME NEW ids, IsFiniteSet(ids), NEW endpoint \in Endpoints
  PROVE  UniqueOperationID(ids, endpoint.id) \notin ids
<1>. DEFINE id == endpoint.id
            X == {endpoint.id[i] : i \in 1..Len(endpoint.id)}
            Free == {i \in 2..Cardinality(ids) + 1 : id \o <<i>> \notin ids}
<1>1. CASE id \notin ids
  BY <1>1 DEF UniqueOperationID
<1>2. CASE id \in ids
  <2>0. Cardinality(ids) \in Nat
    BY FS_CardinalityType
  <2>1. id \in Seq(X)
    <3>1. Len(id) \in Nat /\ id = [i \in 1..Len(id) |-> id[i]]
      BY RoutersAssumption
    <3>2. [i \in 1..Len(id) |-> id[i]] \in [1..Len(id) -> X]
      OBVIOUS
    <3>. HIDE DEF id, X
    <3>3. id \in [1..Len(id) -> X]
      BY <3>1, <3>2
    <3>. QED
      BY <3>1, <3>3
  <2>. HIDE DEF id, X
  <2>2. ASSUME NEW i \in Int
        PROVE  /\ Len(id \o <<i>>) = Len(id) + 1
               /\ (id \o <<i>>)[Len(id) + 1] = i
    <3>1. id \in Seq(X \cup Int) /\ <<i>> \in Seq(X \cup Int)
      BY <2>1
    <3>. QED
      BY <3>1
  <2>3. Free # {}
    <3>1. SUFFICES ASSUME Free = {} PROVE FALSE
      OBVIOUS
    <3>. DEFINE I == 2..Cardinality(ids) + 1
                T == ids \ {id}
                f == [i \in I |-> id \o <<i>>]
    <3>2. IsFiniteSet(T) /\ Cardinality(T) = Cardinality(ids) - 1
      BY <1>2, FS_RemoveElement
    <3>3. IsFiniteSet(I) /\ Cardinality(I) = Cardinality(ids)
      <4>1. 2 \in Int /\ Cardinality(ids) + 1 \in Int
        BY <2>0
      <4>2. /\ IsFiniteSet(I)
            /\ Cardinality(I) = IF 2 > Cardinality(ids) + 1 THEN 0 ELSE (Cardinality(ids) + 1) - 2 + 1
        BY <4>1, FS_Interval
      <4>. HIDE DEF I
      <4>. QED
        BY <2>0, <4>2
    <3>4. f \in [I -> T]
      <4>1. ASSUME NEW i \in I PROVE id \o <<i>> \in T
        <5>1. id \o <<i>> \in ids
          BY <3>1
        <5>2. id \o <<i>> # id
          <6>1. i \in Int /\ Len(id) \in Nat
            BY <2>0, <2>1
          <6>2. Len(id \o <<i>>) = Len(id) + 1
            BY <2>2, <6>1
          <6>. QED
            BY <6>1, <6>2
        <5>. QED
          BY <5>1, <5>2
      <4>. QED
        BY <4>1
    <3>5. Cardinality(T) < Cardinality(I)
      BY <2>0, <3>2, <3>3
    <3>6. \E i, j \in I : i # j /\ f[i] = f[j]
      <4>. HIDE DEF I, T, f
      <4>. QED
        BY <3>2, <3>3, <3>4, <3>5, FS_PigeonHole
    <3>7. PICK i \in I, j \in I : i # j /\ f[i] = f[j]
      BY <3>6
    <3>8. i \in Int /\ j \in Int /\ id \o <<i>> = id \o <<j>>
      BY <2>0, <3>7
    <3>. QED
      BY <2>2, <3>7, <3>8
  <2>4. PICK i \in Free : \A j \in Free : i <= j
    <3>1. Free \subseteq Nat
      BY <2>0
    <3>. HIDE DEF Free
    <3>. QED
      BY <2>3, <3>1, LeastThereIs
  <2>5. /\ i \in 2..Cardinality(ids) + 1
        /\ id \o <<i>> \notin ids
        /\ \A j \in 2..i - 1 : id \o <<j>> \in ids
    <3>1. ASSUME NEW j \in 2..i - 1 PROVE id \o <<j>> \in ids
      <4>1. i \in 2..Cardinality(ids) + 1
        OBVIOUS
      <4>2. j \in 2..Cardinality(ids) + 1 /\ ~(i <= j)
        BY <2>0, <4>1
      <4>3. j \notin Free
        <5>. HIDE DEF Free
        <5>. QED
          BY <2>4, <4>2
      <4>. QED
        BY <4>2, <4>3
    <3>. QED
      BY <3>1
  <2>. DEFINE j == CHOOSE i_1 \in 2..Cardinality(ids) + 1 :
                     /\ id \o <<i_1>> \notin ids
                     /\ \A j_1 \in 2..i_1 - 1 : id \o <<j_1>> \in ids
  <2>6. id \o <<j>> \notin ids
    BY <2>5, Zenon
  <2>7. UniqueOperationID(ids, id) = id \o <<j>>
    BY <1>2 DEF UniqueOperationID
  <2>. QED
    BY <2>6, <2>7 DEF id
<1>. QED
  BY <1>1, <1>2

\* The operations of a document have names that are its own, each another.
DocumentNames(document) ==
  /\ IsFiniteSet(document.ids)
  /\ \A key \in DOMAIN document.entries : document.entries[key].id \in document.ids
  /\ \A key, other \in DOMAIN document.entries :
       document.entries[key].id = document.entries[other].id => key = other
AllNamed(docs) == \A d \in DOMAIN docs : DocumentNames(docs[d])

\* An operation that is added gets a name nobody has, and may replace one.
LEMMA AddingNames ==
  ASSUME NEW document, DocumentNames(document),
         NEW registration, registration.operation.endpoint \in Endpoints
  PROVE  DocumentNames(AddOperation(document, registration))
<1>. DEFINE id == UniqueOperationID(document.ids, registration.operation.endpoint.id)
            key == <<registration.method, registration.written>>
            entry == [id |-> id, operation |-> registration.operation, version |-> registration.version,
                      deprecated |-> registration.deprecated, above |-> registration.above]
            entries == [k \in {key} \cup DOMAIN document.entries |->
                          IF k = key THEN entry ELSE document.entries[k]]
<1>1. CASE registration.operation.endpoint.hidden
  BY <1>1 DEF AddOperation
<1>2. CASE ~ registration.operation.endpoint.hidden
  <2>1. id \notin document.ids /\ entry.id = id
    BY MadeUnique DEF DocumentNames
  <2>2. AddOperation(document, registration) = [entries |-> entries, ids |-> document.ids \cup {id}]
    BY <1>2 DEF AddOperation
  <2>3. IsFiniteSet(document.ids \cup {id})
    BY FS_AddElement DEF DocumentNames
  <2>. HIDE DEF entry, id, key
  <2>4. /\ DOMAIN entries = {key} \cup DOMAIN document.entries
        /\ \A k \in DOMAIN entries : entries[k] = IF k = key THEN entry ELSE document.entries[k]
    OBVIOUS
  <2>. HIDE DEF entries
  <2>5. \A k \in DOMAIN entries : entries[k].id \in document.ids \cup {id}
    BY <2>1, <2>4 DEF DocumentNames
  <2>6. \A k, other \in DOMAIN entries : entries[k].id = entries[other].id => k = other
    BY <2>1, <2>4 DEF DocumentNames
  <2>. QED
    BY <2>2, <2>3, <2>5, <2>6 DEF DocumentNames
<1>. QED
  BY <1>1, <1>2

\* The main document and that of the version; one that is made is empty.
LEMMA AddingKeepsNames ==
  ASSUME NEW docs, AllNamed(docs),
         NEW registration, registration.operation.endpoint \in Endpoints
  PROVE  AllNamed(AddToDocuments(docs, registration))
<1>. DEFINE targets == {Unreleased, registration.version}
            before(d) == IF d \in DOMAIN docs THEN docs[d] ELSE [entries |-> NoEntries, ids |-> {}]
<1>1. ASSUME NEW d PROVE DocumentNames(before(d))
  <2>1. CASE d \in DOMAIN docs
    BY <2>1 DEF AllNamed
  <2>2. CASE d \notin DOMAIN docs
    BY <2>2, FS_EmptySet DEF DocumentNames, NoEntries
  <2>. QED
    BY <2>1, <2>2
<1>2. ASSUME NEW d \in targets \cup DOMAIN docs
      PROVE  DocumentNames(AddToDocuments(docs, registration)[d])
  <2>1. AddToDocuments(docs, registration)[d] =
          IF d \in targets THEN AddOperation(before(d), registration) ELSE docs[d]
    BY DEF AddToDocuments
  <2>2. CASE d \in targets
    <3>1. DocumentNames(AddOperation(before(d), registration))
      <4>. HIDE DEF before
      <4>. QED
        BY <1>1, AddingNames
    <3>. QED
      BY <2>1, <2>2, <3>1
  <2>3. CASE d \notin targets
    BY <2>1, <2>3 DEF AllNamed
  <2>. QED
    BY <2>2, <2>3
<1>3. DOMAIN AddToDocuments(docs, registration) = targets \cup DOMAIN docs
  BY DEF AddToDocuments
<1>. QED
  BY <1>2, <1>3 DEF AllNamed

\* However many are registered.
LEMMA RegisteringKeepsNames ==
  ASSUME AllNamed(documents), NEW regs, Len(regs) \in Nat,
         \A k \in 1..Len(regs) : regs[k].operation.endpoint \in Endpoints,
         NEW last \in 0..Len(regs)
  PROVE  AllNamed(DocumentsAfter(regs, last))
<1>. DEFINE N == Len(regs)
            done(f, n) == [k \in 0..n |->
                             IF k = 0 THEN documents ELSE AddToDocuments(f[k - 1], regs[k])]
            Missing == {n \in 0..N : ~ \E f : f = done(f, n)}
<1>1. N \in Nat
  OBVIOUS
<1>2. Missing = {}
  <2>1. SUFFICES ASSUME Missing # {} PROVE FALSE
    OBVIOUS
  <2>2. PICK n \in Missing : \A m \in Missing : n <= m
    <3>1. Missing \subseteq 0..N
      BY Zenon
    <3>2. 0..N \subseteq Nat
      OBVIOUS
    <3>. HIDE DEF Missing
    <3>3. Missing \subseteq Nat
      BY <3>1, <3>2
    <3>. QED
      BY <2>1, <3>3, LeastThereIs
  <2>3. n \in 0..N /\ ~ \E f : f = done(f, n)
    OBVIOUS
  <2>4. CASE n = 0
    <3>. DEFINE f == [k \in 0..0 |-> documents]
    <3>1. f = done(f, 0)
      OBVIOUS
    <3>. QED
      BY <2>3, <2>4, <3>1
  <2>5. CASE n # 0
    <3>1. n - 1 \in 0..N /\ n - 1 < n
      BY <1>1, <2>3, <2>5
    <3>2. n - 1 \notin Missing
      <4>1. n \in Nat
        BY <2>3
      <4>. HIDE DEF Missing
      <4>. QED
        BY <2>2, <3>1, <4>1
    <3>3. PICK f : f = done(f, n - 1)
      BY <3>1, <3>2
    <3>. DEFINE h == [k \in 0..n |-> IF k = n THEN AddToDocuments(f[n - 1], regs[n]) ELSE f[k]]
    <3>4. ASSUME NEW k \in 0..n
          PROVE  h[k] = IF k = 0 THEN documents ELSE AddToDocuments(h[k - 1], regs[k])
      <4>1. CASE k = n
        <5>1. n - 1 \in 0..n /\ n - 1 # n
          BY <2>3, <2>5
        <5>. QED
          BY <2>5, <4>1, <5>1
      <4>2. CASE k # n /\ k = 0
        <5>1. k \in 0..(n - 1)
          BY <2>3, <4>2
        <5>. QED
          BY <3>3, <4>2, <5>1
      <4>3. CASE k # n /\ k # 0
        <5>1. k \in 0..(n - 1) /\ k - 1 \in 0..n /\ k - 1 # n
          BY <2>3, <4>3
        <5>2. f[k] = AddToDocuments(f[k - 1], regs[k])
          BY <3>3, <4>3, <5>1
        <5>3. h[k] = f[k] /\ h[k - 1] = f[k - 1]
          BY <4>3, <5>1
        <5>. QED
          BY <4>3, <5>2, <5>3
      <4>. QED
        BY <4>1, <4>2, <4>3
    <3>5. h = done(h, n)
      BY <3>4
    <3>. QED
      BY <2>3, <3>5
  <2>. QED
    BY <2>4, <2>5
<1>. DEFINE after == CHOOSE f : f = done(f, N)
<1>3. after = done(after, N)
  <2>1. N \in 0..N
    BY <1>1
  <2>2. \E f : f = done(f, N)
    BY <1>2, <2>1
  <2>. QED
    BY <2>2, Zenon
<1>4. DocumentsAfter(regs, last) = after[last]
  BY DEF DocumentsAfter
<1>. HIDE DEF after
<1>. DEFINE Unnamed == {n \in 0..N : ~ AllNamed(after[n])}
<1>5. Unnamed = {}
  <2>1. SUFFICES ASSUME Unnamed # {} PROVE FALSE
    OBVIOUS
  <2>2. PICK n \in Unnamed : \A m \in Unnamed : n <= m
    <3>1. Unnamed \subseteq Nat
      OBVIOUS
    <3>. HIDE DEF Unnamed
    <3>. QED
      BY <2>1, <3>1, LeastThereIs
  <2>3. n \in 0..N /\ ~ AllNamed(after[n])
    OBVIOUS
  <2>4. n # 0
    BY <1>3, <2>3
  <2>5. n - 1 \in 0..N /\ n - 1 < n /\ n \in Nat /\ n \in 1..N
    BY <1>1, <2>3, <2>4
  <2>6. n - 1 \notin Unnamed
    <3>. HIDE DEF Unnamed
    <3>. QED
      BY <2>2, <2>5
  <2>7. after[n] = AddToDocuments(after[n - 1], regs[n])
    BY <1>3, <2>3, <2>4
  <2>. QED
    BY <2>3, <2>5, <2>6, <2>7, AddingKeepsNames
<1>. QED
  BY <1>4, <1>5

-----------------------------------------------------------------------------

\* What guards an operation that is served: all that the routers on its way have
\* now, and the engine.
Guarded(route) ==
  /\ route.globals = globals
  /\ \A r \in route.above :
       /\ tree[r].guarded => <<r, "guard">> \in route.middleware
       /\ tree[r].auth = "enforced" => <<r, "auth">> \in route.middleware

\* Why it stays so: those routers are mounted, unless the program is gone, and the
\* engine gets nothing once a router is mounted.
ServedFromMounted ==
  /\ \A route \in Served :
       /\ route.above \subseteq Nodes
       /\ ~panicked => \A r \in route.above : tree[r].mounted
  /\ roots = <<>> => Served = {}
  /\ ~started => roots = <<>>

TreeInv ==
  /\ tree \in [Nodes -> RouterRecords] /\ roots \in Seq(Nodes)
  /\ ServedFromMounted /\ AllNamed(documents)
  /\ \A route \in Served : Guarded(route)

\* A router is as it was called for.
LEMMA NewRoutersAreRouters ==
  ASSUME NEW routing \in Routings
  PROVE  NewRouter(routing) \in RouterRecords
  BY DEF NewRouter, RouterRecords

\* No router, no operation.
LEMMA TreeStarts == RouterInit => TreeInv
<1>. SUFFICES ASSUME RouterInit PROVE TreeInv
  OBVIOUS
<1>1. (CHOOSE routing \in Routings : TRUE) \in Routings
  BY RoutersAssumption
<1>2. tree \in [Nodes -> RouterRecords]
  BY <1>1, NewRoutersAreRouters DEF RouterInit
<1>3. Served = {}
  BY DEF RouterInit, Served
<1>4. AllNamed(documents)
  BY FS_EmptySet DEF RouterInit, AllNamed, DocumentNames, NoEntries
<1>. QED
  BY <1>2, <1>3, <1>4 DEF RouterInit, TreeInv, ServedFromMounted

\* A call on one router that is not mounted leaves those that are as they were.
LEMMA CallsLeaveTheMounted ==
  ASSUME TreeInv, NEW r \in Nodes, Building(r),
         tree' \in [Nodes -> RouterRecords],
         \A s \in Nodes \ {r} : tree'[s] = tree[s],
         UNCHANGED <<roots, globals, engine, documents, panicked, started>>
  PROVE  TreeInv'
<1>1. ASSUME NEW route \in Served
      PROVE  /\ Guarded(route)' /\ route.above \subseteq Nodes
             /\ \A s \in route.above : tree'[s].mounted
  <2>1. ASSUME NEW s \in route.above PROVE s \in Nodes /\ tree'[s] = tree[s] /\ tree[s].mounted
    BY DEF TreeInv, ServedFromMounted, Building
  <2>. QED
    BY <2>1 DEF TreeInv, ServedFromMounted, Guarded
<1>2. Served' = Served
  BY DEF Served
<1>. QED
  BY <1>1, <1>2 DEF TreeInv, ServedFromMounted, AllNamed, DocumentNames

\* What a router that is mounted registers: operations of routers that are below it,
\* with the middleware of all of them.
LEMMA RegistrationsAreGuarded ==
  ASSUME tree \in [Nodes -> RouterRecords], NEW r \in Nodes
  PROVE  /\ Len(Registrations(r)) \in Nat
         /\ DOMAIN Registrations(r) = 1..Len(Registrations(r))
         /\ \A k \in 1..Len(Registrations(r)) :
              LET route == Registrations(r)[k] IN
                /\ ~route.internal /\ route.operation.endpoint \in Endpoints
                /\ route.above \subseteq {r} \cup Below(r)
                /\ Guarded(route)
<1>. DEFINE found == Found(r)
<1>1. found \in Seq(Entries(r))
  BY FoundLeadsDown
<1>. HIDE DEF found
<1>2. Len(found) \in Nat /\ DOMAIN found = 1..Len(found)
  BY <1>1
<1>3. Registrations(r) = [k \in 1..Len(found) |-> Registered(found[k].chain, found[k].operation)]
  BY <1>2 DEF Registrations, found
<1>4. /\ Len(Registrations(r)) = Len(found)
      /\ DOMAIN Registrations(r) = 1..Len(found)
  <2>1. DOMAIN Registrations(r) = 1..Len(found)
    BY <1>3
  <2>. QED
    BY <1>2, <2>1
<1>5. ASSUME NEW k \in 1..Len(found)
      PROVE  LET route == Registrations(r)[k] IN
               /\ ~route.internal /\ route.operation.endpoint \in Endpoints
               /\ route.above \subseteq {r} \cup Below(r)
               /\ Guarded(route)
  <2>1. found[k] \in Entries(r)
    BY <1>1, ElementOfSeq
  <2>2. found[k].chain \in Seq({r} \cup Below(r)) /\ found[k].operation.endpoint \in Endpoints
    BY <2>1 DEF Entries, Operations
  <2>3. ToSet(found[k].chain) \subseteq {r} \cup Below(r)
    BY <2>2 DEF ToSet
  <2>. DEFINE route == Registered(found[k].chain, found[k].operation)
  <2>4. /\ route.internal = FALSE /\ route.operation = found[k].operation
        /\ route.above = ToSet(found[k].chain) /\ route.globals = globals
        /\ route.middleware =
             {<<s, "guard">> : s \in {t \in ToSet(found[k].chain) : tree[t].guarded}}
               \cup {<<s, "auth">> : s \in {t \in ToSet(found[k].chain) : tree[t].auth = "enforced"}}
    BY DEF Registered
  <2>. HIDE DEF route
  <2>5. Guarded(route)
    BY <2>4 DEF Guarded
  <2>6. Registrations(r)[k] = route
    BY <1>3 DEF route
  <2>. QED
    BY <2>2, <2>3, <2>4, <2>5, <2>6
<1>. QED
  BY <1>2, <1>4, <1>5

\* The routers are made before any is used.
LEMMA MakingRouters ==
  ASSUME TreeInv, NewRouters
  PROVE  TreeInv'
<1>1. tree' \in [Nodes -> RouterRecords]
  BY NewRoutersAreRouters DEF NewRouters
<1>2. Served = {} /\ Served' = {}
  BY DEF NewRouters, TreeInv, ServedFromMounted, Served
<1>. QED
  BY <1>1, <1>2 DEF NewRouters, TreeInv, ServedFromMounted, AllNamed, DocumentNames

\* A call that adds to a router, to one that is not mounted.
LEMMA BuildingARouter ==
  ASSUME TreeInv, NEW r \in Nodes,
         \/ UseRouter(r)
         \/ \E endpoint \in Endpoints : RegisterOperation(r, endpoint)
         \/ \E sub \in Nodes : AddSubrouter(r, sub)
  PROVE  TreeInv'
<1>1. tree \in [Nodes -> RouterRecords]
  BY DEF TreeInv
<1>2. CASE UseRouter(r)
  <2>1. [tree[r] EXCEPT !.guarded = TRUE] \in RouterRecords
    BY <1>1 DEF RouterRecords
  <2>2. tree' = [tree EXCEPT ![r] = [tree[r] EXCEPT !.guarded = TRUE]]
    BY <1>2 DEF UseRouter
  <2>3. tree' \in [Nodes -> RouterRecords] /\ \A s \in Nodes \ {r} : tree'[s] = tree[s]
    BY <1>1, <2>1, <2>2
  <2>. QED
    BY <1>2, <2>3, CallsLeaveTheMounted DEF UseRouter, Adding
<1>3. ASSUME NEW endpoint \in Endpoints, RegisterOperation(r, endpoint) PROVE TreeInv'
  <2>. DEFINE operation == [endpoint |-> endpoint, by |-> r, number |-> Len(tree[r].operations),
                            secured |-> tree[r].auth # "none"]
              added == Append(tree[r].operations, operation)
  <2>1. added \in Seq(Operations)
    <3>1. tree[r].operations \in Seq(Operations)
      BY <1>1 DEF RouterRecords
    <3>2. operation \in Operations
      BY <3>1 DEF Operations
    <3>. HIDE DEF operation
    <3>. QED
      BY <3>1, <3>2
  <2>2. tree' = [tree EXCEPT ![r] = [tree[r] EXCEPT !.operations = added]]
    BY <1>3 DEF RegisterOperation
  <2>. HIDE DEF added
  <2>3. [tree[r] EXCEPT !.operations = added] \in RouterRecords
    BY <1>1, <2>1 DEF RouterRecords
  <2>4. tree' \in [Nodes -> RouterRecords] /\ \A s \in Nodes \ {r} : tree'[s] = tree[s]
    BY <1>1, <2>2, <2>3
  <2>. QED
    BY <1>3, <2>4, CallsLeaveTheMounted DEF RegisterOperation, Adding
<1>4. ASSUME NEW sub \in Nodes, AddSubrouter(r, sub) PROVE TreeInv'
  <2>. DEFINE added == Append(tree[r].subrouters, sub)
  <2>1. added \in Seq(Nodes)
    BY <1>1 DEF RouterRecords
  <2>2. tree' = [tree EXCEPT ![r] = [tree[r] EXCEPT !.subrouters = added]]
    BY <1>4 DEF AddSubrouter
  <2>. HIDE DEF added
  <2>3. [tree[r] EXCEPT !.subrouters = added] \in RouterRecords
    BY <1>1, <2>1 DEF RouterRecords
  <2>4. tree' \in [Nodes -> RouterRecords] /\ \A s \in Nodes \ {r} : tree'[s] = tree[s]
    BY <1>1, <2>2, <2>3
  <2>. QED
    BY <1>4, <2>4, CallsLeaveTheMounted DEF AddSubrouter, Adding
<1>. QED
  BY <1>2, <1>3, <1>4

\* The engine has no operation yet when it gets middleware.
LEMMA UsingGlobally ==
  ASSUME TreeInv, UseGlobal
  PROVE  TreeInv'
<1>1. Served = {} /\ Served' = {}
  BY DEF UseGlobal, TreeInv, ServedFromMounted, Served
<1>. QED
  BY <1>1 DEF UseGlobal, TreeInv, ServedFromMounted, AllNamed, DocumentNames

\* Mounting registers what is below a router and marks it; gin's panic ends the
\* program in the middle.
LEMMA MountingARouter ==
  ASSUME TreeInv, NEW r \in Nodes, Mount(r)
  PROVE  TreeInv'
<1>1. /\ tree \in [Nodes -> RouterRecords] /\ Building(r)
      /\ roots' = Append(roots, r) /\ UNCHANGED <<globals, started>>
  BY DEF TreeInv, Mount
<1>2. roots' \in Seq(Nodes) /\ roots' # <<>> /\ started'
  BY <1>1 DEF TreeInv, Building
<1>3. CASE \E s \in {r} \cup Below(r) : s \in Below(s)
  <2>1. panicked' = TRUE /\ UNCHANGED <<tree, engine, documents>>
    BY <1>3 DEF Mount
  <2>2. Served' = Served
    BY <2>1 DEF Served
  <2>3. \A route \in Served : Guarded(route)'
    BY <1>1, <2>1 DEF TreeInv, Guarded
  <2>. QED
    BY <1>2, <2>1, <2>2, <2>3 DEF TreeInv, ServedFromMounted, AllNamed, DocumentNames
<1>4. CASE ~ \E s \in {r} \cup Below(r) : s \in Below(s)
  <2>. DEFINE regs == Registrations(r)
              of(x) == <<x.method, x.path>>
              conflicts == {i \in DOMAIN regs :
                 \/ of(regs[i]) \in {of(x) : x \in engine}
                 \/ \E j \in 1..i - 1 : of(regs[j]) = of(regs[i])}
              last == IF conflicts = {} THEN Len(regs)
                      ELSE CHOOSE i \in conflicts : \A j \in conflicts : i <= j
  <2>1. /\ documents' = DocumentsAfter(regs, last)
        /\ engine' = engine \cup {regs[i] : i \in 1..last \ conflicts}
        /\ panicked' = (conflicts # {})
        /\ tree' = IF conflicts = {} THEN MarkMounted(r) ELSE tree
    BY <1>4 DEF Mount
  <2>2. conflicts \subseteq DOMAIN regs
    OBVIOUS
  <2>3. /\ Len(regs) \in Nat /\ DOMAIN regs = 1..Len(regs)
        /\ \A k \in 1..Len(regs) :
             /\ ~regs[k].internal /\ regs[k].operation.endpoint \in Endpoints
             /\ regs[k].above \subseteq {r} \cup Below(r)
             /\ Guarded(regs[k])
    BY <1>1, RegistrationsAreGuarded
  <2>. HIDE DEF regs, conflicts
  <2>4. last \in 0..Len(regs)
    <3>1. CASE conflicts = {}
      BY <2>3, <3>1
    <3>2. CASE conflicts # {}
      <4>1. conflicts \subseteq Nat
        BY <2>2, <2>3
      <4>2. \E i \in conflicts : \A j \in conflicts : i <= j
        BY <3>2, <4>1, LeastThereIs
      <4>3. last \in conflicts
        BY <3>2, <4>2
      <4>. QED
        BY <2>2, <2>3, <4>3
    <3>. QED
      BY <3>1, <3>2
  <2>. HIDE DEF last
  <2>5. AllNamed(documents')
    BY <2>1, <2>3, <2>4, RegisteringKeepsNames DEF TreeInv
  <2>6. /\ tree' \in [Nodes -> RouterRecords]
        /\ \A s \in Nodes : tree'[s].guarded = tree[s].guarded /\ tree'[s].auth = tree[s].auth
        /\ \A s \in Nodes : tree[s].mounted => tree'[s].mounted
        /\ ~panicked' => \A s \in {r} \cup Below(r) : tree'[s].mounted
    <3>1. CASE conflicts = {}
      <4>1. ASSUME NEW s \in Nodes
            PROVE  LET marked == [tree[s] EXCEPT !.mounted = TRUE] IN
                   /\ marked \in RouterRecords /\ marked.mounted
                   /\ marked.guarded = tree[s].guarded /\ marked.auth = tree[s].auth
        BY <1>1 DEF RouterRecords
      <4>2. tree' = [s \in Nodes |-> IF s \in {r} \cup Below(r) THEN [tree[s] EXCEPT !.mounted = TRUE]
                                     ELSE tree[s]]
        BY <2>1, <3>1 DEF MarkMounted
      <4>3. {r} \cup Below(r) \subseteq Nodes
        BY DEF Below
      <4>. QED
        BY <1>1, <4>1, <4>2, <4>3
    <3>2. CASE conflicts # {}
      BY <1>1, <2>1, <3>2
    <3>. QED
      BY <3>1, <3>2
  <2>7. ASSUME NEW route \in Served'
        PROVE  /\ route.above \subseteq Nodes /\ Guarded(route)
               /\ ~panicked' => \A s \in route.above : tree'[s].mounted
    <3>1. route \in engine' /\ ~route.internal
      BY DEF Served
    <3>2. CASE route \in engine
      <4>1. route \in Served
        BY <3>1, <3>2 DEF Served
      <4>2. ~panicked
        BY <1>1 DEF Building
      <4>. QED
        BY <2>6, <4>1, <4>2 DEF TreeInv, ServedFromMounted
    <3>3. CASE route \notin engine
      <4>1. PICK i \in 1..last \ conflicts : route = regs[i]
        BY <2>1, <3>1, <3>3
      <4>2. i \in 1..Len(regs)
        BY <2>3, <2>4, <4>1
      <4>3. {r} \cup Below(r) \subseteq Nodes
        BY DEF Below
      <4>. QED
        BY <2>3, <2>6, <4>1, <4>2, <4>3
    <3>. QED
      BY <3>2, <3>3
  <2>8. ASSUME NEW route \in Served' PROVE Guarded(route)'
    BY <1>1, <2>6, <2>7 DEF Guarded
  <2>. QED
    BY <1>2, <2>5, <2>6, <2>7, <2>8 DEF TreeInv, ServedFromMounted, AllNamed, DocumentNames
<1>. QED
  BY <1>3, <1>4

\* Every call of the program.
LEMMA TreeStep ==
  ASSUME TreeInv, [RouterNext]_routerVars
  PROVE  TreeInv'
<1>1. CASE NewRouters
  BY <1>1, MakingRouters
<1>2. ASSUME NEW r \in Nodes, NEW endpoint \in Endpoints, RegisterOperation(r, endpoint) PROVE TreeInv'
  BY <1>2, BuildingARouter
<1>3. ASSUME NEW r \in Nodes, UseRouter(r) PROVE TreeInv'
  BY <1>3, BuildingARouter
<1>4. ASSUME NEW r \in Nodes, NEW sub \in Nodes, AddSubrouter(r, sub) PROVE TreeInv'
  BY <1>4, BuildingARouter
<1>5. CASE UseGlobal
  BY <1>5, UsingGlobally
<1>6. ASSUME NEW r \in Nodes, Mount(r) PROVE TreeInv'
  BY <1>6, MountingARouter
<1>7. CASE UNCHANGED routerVars
  BY <1>7 DEF routerVars, TreeInv, ServedFromMounted, Served, Guarded, AllNamed, DocumentNames
<1>. QED
  BY <1>1, <1>2, <1>3, <1>4, <1>5, <1>6, <1>7 DEF RouterNext

\* MountedAsWritten, of any routers, operations and calls: a request passes all the
\* middleware of the routers on its way, whatever is called later, and operations
\* of a document have names of their own (ninja.go:216-361, openapi.go:347-371).
THEOREM RoutersMountedAsWritten == RouterSpec => []MountedAsWritten
<1>1. TreeInv => MountedAsWritten
  <2>1. TreeInv => RoutesAreGuarded
    BY DEF TreeInv, Guarded, RoutesAreGuarded
  <2>2. TreeInv => OperationIDsUnique
    <3>. SUFFICES ASSUME TreeInv, NEW d \in DOMAIN documents
                  PROVE  IsInjective([key \in DOMAIN documents[d].entries |-> documents[d].entries[key].id])
      BY DEF OperationIDsUnique
    <3>. QED
      BY DEF TreeInv, AllNamed, DocumentNames, IsInjective
  <2>. QED
    BY <2>1, <2>2 DEF MountedAsWritten
<1>. QED
  BY <1>1, TreeStarts, TreeStep, PTL DEF RouterSpec
=============================================================================
