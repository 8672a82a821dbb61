------------------------- MODULE AgentSupervisor_proofs -------------------------
(***************************************************************************)
(* Proofs about AgentSupervisor, for any number of starts, stops, restarts *)
(* for the tools, crashes and requests:                                    *)
(*   - NeverTwoEngines: an engine is spawned only where none lives;        *)
(*   - RestartsArePaidFor: no restart comes from nowhere;                  *)
(*   - ShutdownLeavesNothing: nothing survives the shutdown's stop().      *)
(***************************************************************************)
EXTENDS AgentSupervisor, FiniteSetTheorems, TLAPS

Pcs == {"none", "wait", "dirs", "init", "dying", "done"}
Launch == [pc : Pcs, prev : Epochs \cup {0}]

Types ==
    /\ epoch \in Nat /\ current \in Epochs \cup {0}
    /\ launch \in [Epochs -> Launch]
    /\ proc \in [Epochs -> ProcState] /\ generation \in Nat

\* The engine that lives is the one the supervisor knows.
OneOwner ==
    /\ \A e \in Epochs : Live(e) => e = current
    /\ current # 0 => current \in Epochs /\ Live(current)

\* No launch is ahead of its epoch.  The launch of the last epoch replaces the
\* engine there was when it began, and goes on only when that one is gone; an
\* older launch never gets past its check.
LaunchesFollow ==
    /\ \A e \in Epochs : launch[e].pc # "none" => e <= epoch
    /\ \A e \in Epochs : e = epoch /\ launch[e].pc \in {"wait", "dirs"} =>
          /\ current \in {0, launch[e].prev}
          /\ launch[e].pc = "dirs" /\ launch[e].prev # 0 => Gone(launch[e].prev)

IInv == Types /\ OneOwner /\ LaunchesFollow

LEMMA EpochsType == MaxEpoch \in Nat
<1>1. Cardinality(Clients) \in Nat BY SupervisorAssumption, FS_CardinalityType
<1> QED BY <1>1, SupervisorAssumption DEF MaxEpoch

\* What the invariant sees of a step that neither starts, stops nor launches.
LEMMA Untouched == IInv /\ UNCHANGED <<epoch, current, launch, proc, generation>> => IInv'
BY DEF IInv, Types, OneOwner, LaunchesFollow, Live, Gone

\* Processes may be marked and launches may move on or end, as long as no process
\* starts or ends.
LEMMA Marked ==
  ASSUME IInv, proc' \in [Epochs -> ProcState], launch' \in [Epochs -> Launch],
         \A e \in Epochs : proc'[e].status = proc[e].status,
         \A e \in Epochs : \/ launch'[e] = launch[e]
                           \/ launch[e].pc # "none" /\ launch'[e].pc \in {"init", "dying", "done"},
         UNCHANGED <<epoch, current>>, generation' \in Nat
  PROVE  IInv'
<1>1. Types' /\ Types /\ OneOwner /\ LaunchesFollow BY DEF IInv, Types
<1>2. \A e : e \in Epochs => (Live(e)' <=> Live(e)) /\ (Gone(e)' <=> Gone(e)) BY DEF Live, Gone
<1>3. OneOwner' BY <1>1, <1>2 DEF OneOwner
<1>4. LaunchesFollow'
 <2>1. ASSUME NEW e \in Epochs, e = epoch, launch'[e].pc \in {"wait", "dirs"}
       PROVE  /\ launch'[e] = launch[e] /\ current \in {0, launch[e].prev}
              /\ launch[e].pc = "dirs" /\ launch[e].prev # 0 => Gone(launch[e].prev) /\ launch[e].prev \in Epochs
   BY <1>1, <2>1 DEF LaunchesFollow, Types, Launch
 <2>2. \A e \in Epochs : launch'[e].pc # "none" => e <= epoch BY <1>1 DEF LaunchesFollow
 <2> QED BY <1>2, <2>1, <2>2 DEF LaunchesFollow, Gone
<1> QED BY <1>1, <1>3, <1>4 DEF IInv

\* start(): the new launch takes over from the engine there is.
LEMMA StartStep == IInv /\ Start /\ UNCHANGED <<current, proc, generation>> => IInv'
<1> SUFFICES ASSUME IInv, Start, UNCHANGED <<current, proc, generation>> PROVE IInv' OBVIOUS
<1>0. Types /\ OneOwner /\ LaunchesFollow BY DEF IInv
<1>1. CASE UNCHANGED <<epoch, launch>> BY <1>1, Untouched
<1>2. CASE /\ epoch' = epoch + 1
           /\ launch' = [launch EXCEPT ![epoch + 1] = [pc |-> "wait", prev |-> current]]
 <2> DEFINE new == [pc |-> "wait", prev |-> current]
 <2>1. new \in Launch /\ new.prev = current BY <1>0 DEF Types, Launch, Pcs
 <2>0. launch' = [launch EXCEPT ![epoch + 1] = new] BY <1>2
 <2> HIDE DEF new
 <2>2. \A e \in Epochs : launch'[e] = IF e = epoch + 1 THEN new ELSE launch[e] BY <1>0, <2>0 DEF Types
 <2>3. Types'
  <3>1. launch' \in [Epochs -> Launch] BY <1>0, <2>0, <2>1 DEF Types
  <3>2. epoch' \in Nat BY <1>0, <1>2 DEF Types
  <3> QED BY <1>0, <3>1, <3>2 DEF Types
 <2>4. OneOwner' BY <1>0 DEF OneOwner, Live
 <2>5. \A e \in Epochs : e \in Int /\ (launch'[e].pc # "none" => e <= epoch + 1)
   BY <1>0, <2>2, EpochsType DEF LaunchesFollow, Types, Epochs
 <2>6. LaunchesFollow'
  <3>1. \A e \in Epochs : e = epoch + 1 => launch'[e] = new /\ new.pc = "wait" /\ new.prev = current
    BY <2>1, <2>2 DEF new
  <3> QED BY <1>0, <1>2, <2>5, <3>1 DEF LaunchesFollow
 <2> QED BY <2>3, <2>4, <2>6 DEF IInv
<1> QED BY <1>1, <1>2 DEF Start

\* stop(): whatever launch there was is behind the epoch now.
LEMMA StopBegins == IInv /\ Stop /\ UNCHANGED <<current, launch, generation>> => IInv'
<1> SUFFICES ASSUME IInv, Stop, UNCHANGED <<current, launch, generation>> PROVE IInv' OBVIOUS
<1>0. Types /\ OneOwner /\ LaunchesFollow BY DEF IInv
<1>1. epoch' = epoch + 1 /\ epoch \in Nat BY <1>0 DEF Stop, Types
<1>2. proc' \in [Epochs -> ProcState] /\ \A e \in Epochs : proc'[e].status = proc[e].status
 <2>1. CASE UNCHANGED proc BY <1>0, <2>1 DEF Types
 <2>2. CASE proc' = [proc EXCEPT ![current].expected = TRUE]
  <3> DEFINE p == [proc[current] EXCEPT !.expected = TRUE]
  <3>1. \A e \in Epochs : proc[e] \in ProcState BY <1>0 DEF Types
  <3>2. current \in Epochs => p \in ProcState /\ p.status = proc[current].status BY <3>1 DEF ProcState
  <3>3. proc' = [proc EXCEPT ![current] = p] BY <2>2
  <3> HIDE DEF p
  <3> QED BY <1>0, <3>2, <3>3 DEF Types
 <2> QED BY <2>1, <2>2 DEF Stop
<1>3. Types' BY <1>0, <1>1, <1>2 DEF Types
<1>4. OneOwner' BY <1>0, <1>2 DEF OneOwner, Live
<1>5. \A e \in Epochs : e \in Int /\ (launch[e].pc # "none" => e <= epoch)
  BY <1>0, EpochsType DEF LaunchesFollow, Epochs
<1>6. LaunchesFollow' BY <1>1, <1>5 DEF LaunchesFollow
<1> QED BY <1>3, <1>4, <1>6 DEF IInv

LEMMA InvStep == IInv /\ [Next]_vars => IInv'
<1> SUFFICES ASSUME IInv, [Next]_vars PROVE IInv' OBVIOUS
<1>0. Types /\ OneOwner /\ LaunchesFollow BY DEF IInv
<1>a. \A e \in Epochs : proc[e] \in ProcState /\ launch[e] \in Launch BY <1>0 DEF Types
<1> DEFINE MoveTo(e, pc) == [launch[e] EXCEPT !.pc = pc]
<1>b. ASSUME NEW e \in Epochs, NEW pc \in Pcs
      PROVE  MoveTo(e, pc) \in Launch /\ MoveTo(e, pc).pc = pc /\ MoveTo(e, pc).prev = launch[e].prev
  BY <1>a DEF Launch
\* A launch that moves past its check, or ends, with no process changed.
<1>c. ASSUME NEW e \in Epochs, NEW pc \in {"init", "dying", "done"}, launch[e].pc # "none",
             launch' = [launch EXCEPT ![e].pc = pc], UNCHANGED <<epoch, current, proc, generation>>
      PROVE  IInv'
 <2>1. launch' = [launch EXCEPT ![e] = MoveTo(e, pc)] /\ MoveTo(e, pc) \in Launch /\ MoveTo(e, pc).pc = pc
   BY <1>b, <1>c DEF Pcs
 <2> HIDE DEF MoveTo
 <2>2. launch' \in [Epochs -> Launch] BY <1>0, <2>1 DEF Types
 <2> QED BY <1>0, <1>c, <2>1, <2>2, Marked DEF Types
<1>1. CASE Boot BY <1>1, StartStep DEF Boot
<1>2. CASE Shutdown BY <1>2, StopBegins DEF Shutdown
<1>3. CASE ToolsRestart BY <1>3, StopBegins DEF ToolsRestart
<1>4. CASE ToolsStart
 <2>1. CASE Overtaken BY <1>4, <2>1, Untouched DEF ToolsStart
 <2>2. CASE ~Overtaken BY <1>4, <2>2, StartStep DEF ToolsStart
 <2> QED BY <2>1, <2>2
<1>5. CASE ToolsStarted \/ ReapDone \/ UNCHANGED vars BY <1>5, Untouched DEF ToolsStarted, ReapDone, vars, superVars
<1>6. CASE TimerFires
 <2>1. CASE UNCHANGED <<epoch, launch>> BY <1>6, <2>1, Untouched DEF TimerFires
 <2>2. CASE Start BY <1>6, <2>2, StartStep DEF TimerFires
 <2> QED BY <1>6, <2>1, <2>2 DEF TimerFires
<1>7. ASSUME NEW e \in Epochs, LaunchWaited(e) PROVE IInv'
 <2>1. /\ launch[e].pc = "wait" /\ (launch[e].prev # 0 => Gone(launch[e].prev))
       /\ launch' = [launch EXCEPT ![e] = MoveTo(e, "dirs")]
       /\ UNCHANGED <<epoch, current, proc, generation>> BY <1>7 DEF LaunchWaited, PrevGone, superVars
 <2>2. MoveTo(e, "dirs") \in Launch /\ MoveTo(e, "dirs").pc = "dirs" /\ MoveTo(e, "dirs").prev = launch[e].prev
   BY <1>b DEF Pcs
 <2> HIDE DEF MoveTo
 <2>3. \A d \in Epochs : launch'[d] = IF d = e THEN MoveTo(e, "dirs") ELSE launch[d] BY <1>0, <2>1 DEF Types
 <2>4. Types' BY <1>0, <2>1, <2>2 DEF Types
 <2>5. OneOwner' BY <1>0, <2>1 DEF OneOwner, Live
 <2>6. LaunchesFollow' BY <1>0, <2>1, <2>2, <2>3 DEF LaunchesFollow, Gone
 <2> QED BY <2>4, <2>5, <2>6 DEF IInv
\* The engine it replaces is gone, so there is none.
<1>8. ASSUME NEW e \in Epochs, LaunchSpawn(e) PROVE IInv'
 <2>1. CASE Cancelled(e) BY <1>8, <2>1, <1>c DEF LaunchSpawn
 <2>2. CASE ~Cancelled(e)
  <3> DEFINE p == [proc[e] EXCEPT !.status = "live", !.gen = NextGeneration]
  <3>1. /\ launch[e].pc = "dirs" /\ e = epoch /\ current' = e /\ epoch' = epoch
        /\ launch' = [launch EXCEPT ![e] = MoveTo(e, "init")]
        /\ proc' = [proc EXCEPT ![e].status = "live", ![e].gen = NextGeneration]
    BY <1>8, <2>2 DEF LaunchSpawn, Cancelled
  <3>2. current = 0
   <4>1. current \in {0, launch[e].prev} /\ (launch[e].prev # 0 => Gone(launch[e].prev))
     BY <1>0, <3>1 DEF LaunchesFollow
   <4>2. current # 0 => current \in Epochs /\ Live(current) BY <1>0 DEF OneOwner
   <4> QED BY <4>1, <4>2 DEF Live, Gone
  <3>3. p \in ProcState /\ p.status = "live"
   <4>1. NextGeneration \in Nat BY <1>0 DEF NextGeneration, Types
   <4> HIDE DEF NextGeneration
   <4> QED BY <1>a, <4>1 DEF ProcState
  <3>4. proc' = [proc EXCEPT ![e] = p] BY <3>1
  <3>5. MoveTo(e, "init") \in Launch /\ MoveTo(e, "init").pc = "init" BY <1>b DEF Pcs
  <3> HIDE DEF p, MoveTo
  <3>6. /\ \A d \in Epochs : proc'[d] = IF d = e THEN p ELSE proc[d]
        /\ \A d \in Epochs : launch'[d] = IF d = e THEN MoveTo(e, "init") ELSE launch[d] BY <1>0, <3>1, <3>4 DEF Types
  <3>7. Types'
   <4>1. proc' \in [Epochs -> ProcState] BY <1>0, <3>3, <3>4 DEF Types
   <4>2. launch' \in [Epochs -> Launch] BY <1>0, <3>1, <3>5 DEF Types
   <4> QED BY <1>0, <1>8, <3>1, <4>1, <4>2 DEF Types, LaunchSpawn
  <3>8. OneOwner'
   <4>1. \A d \in Epochs : d # 0 BY EpochsType DEF Epochs
   <4> QED BY <1>0, <3>1, <3>2, <3>3, <3>6, <4>1 DEF OneOwner, Live
  <3>9. LaunchesFollow' BY <1>0, <3>1, <3>5, <3>6 DEF LaunchesFollow
  <3> QED BY <3>7, <3>8, <3>9 DEF IInv
 <2> QED BY <2>1, <2>2
<1>9. ASSUME NEW e \in Epochs, DirsFail(e) PROVE IInv'
 <2>1. /\ launch[e].pc = "dirs" /\ launch' = [launch EXCEPT ![e].pc = "done"]
       /\ UNCHANGED <<epoch, current, proc, generation>> BY <1>9 DEF DirsFail, Conclude
 <2> QED BY <1>c, <2>1
<1>10. ASSUME NEW e \in Epochs, LaunchReady(e) PROVE IInv'
 <2> DEFINE p == [proc[e] EXCEPT !.ready = TRUE]
 <2>1. /\ launch[e].pc = "init" /\ launch' = [launch EXCEPT ![e] = MoveTo(e, "done")]
       /\ proc' = [proc EXCEPT ![e] = p] /\ generation' = proc[e].gen /\ UNCHANGED <<epoch, current>>
   BY <1>10 DEF LaunchReady
 <2>2. p \in ProcState /\ p.status = proc[e].status /\ generation' \in Nat BY <1>a, <2>1 DEF ProcState
 <2>3. MoveTo(e, "done") \in Launch /\ MoveTo(e, "done").pc = "done" BY <1>b DEF Pcs
 <2> HIDE DEF p, MoveTo
 <2>4. /\ proc' \in [Epochs -> ProcState] /\ launch' \in [Epochs -> Launch]
       /\ \A d \in Epochs : proc'[d].status = proc[d].status
       /\ \A d \in Epochs : launch'[d] = IF d = e THEN MoveTo(e, "done") ELSE launch[d]
   BY <1>0, <2>1, <2>2, <2>3 DEF Types
 <2> QED BY <2>1, <2>2, <2>3, <2>4, Marked
\* Terminating a process marks it.
<1>d. ASSUME NEW e \in Epochs, Terminate(e)
      PROVE  proc' \in [Epochs -> ProcState] /\ \A d \in Epochs : proc'[d].status = proc[d].status
 <2> DEFINE p == [proc[e] EXCEPT !.terminating = TRUE, !.signalled = TRUE]
 <2>1. p \in ProcState /\ p.status = proc[e].status BY <1>a DEF ProcState
 <2>2. proc' = [proc EXCEPT ![e] = p]
  <3>1. proc' = [proc EXCEPT ![e].terminating = TRUE, ![e].signalled = TRUE] BY <1>d DEF Terminate
  <3> QED BY <1>0, <3>1 DEF Types
 <2> HIDE DEF p
 <2> QED BY <1>0, <2>1, <2>2 DEF Types
<1>11. ASSUME NEW e \in Epochs, InitFail(e) PROVE IInv'
 <2>1. /\ launch[e].pc = "init" /\ launch' = [launch EXCEPT ![e] = MoveTo(e, "dying")]
       /\ (UNCHANGED proc \/ Terminate(e)) /\ UNCHANGED <<epoch, current, generation>> BY <1>11 DEF InitFail
 <2>2. MoveTo(e, "dying") \in Launch /\ MoveTo(e, "dying").pc = "dying" BY <1>b DEF Pcs
 <2> HIDE DEF MoveTo
 <2>3. proc' \in [Epochs -> ProcState] /\ \A d \in Epochs : proc'[d].status = proc[d].status
   BY <1>0, <1>d, <2>1 DEF Types
 <2>4. /\ launch' \in [Epochs -> Launch]
       /\ \A d \in Epochs : launch'[d] = IF d = e THEN MoveTo(e, "dying") ELSE launch[d] BY <1>0, <2>1, <2>2 DEF Types
 <2>5. generation' \in Nat BY <1>0, <2>1 DEF Types
 <2> QED BY <2>1, <2>2, <2>3, <2>4, <2>5, Marked
<1>12. ASSUME NEW e \in Epochs, LaunchLost(e) PROVE IInv'
 <2>1. /\ launch[e].pc # "none" /\ launch' = [launch EXCEPT ![e].pc = "done"]
       /\ UNCHANGED <<epoch, current, proc, generation>> BY <1>12 DEF LaunchLost, Conclude
 <2> QED BY <1>c, <2>1
<1>13. ASSUME NEW e \in Epochs, StopSignal(e) PROVE IInv'
 <2> DEFINE t == stopper[e].target
            p == [proc[t] EXCEPT !.signalled = TRUE]
 <2>1. proc' = [proc EXCEPT ![t] = p] /\ UNCHANGED <<epoch, current, launch, generation>>
   BY <1>13 DEF StopSignal, superVars
 <2>2. t \in Epochs => p \in ProcState /\ p.status = proc[t].status BY <1>a DEF ProcState
 <2> HIDE DEF p, t
 <2>3. proc' \in [Epochs -> ProcState] /\ \A d \in Epochs : proc'[d].status = proc[d].status
   BY <1>0, <2>1, <2>2 DEF Types
 <2> QED BY <1>0, <2>1, <2>3, Marked DEF Types
<1>14. ASSUME NEW e \in Epochs, StopExited(e) \/ StopDone(e) PROVE IInv'
  BY <1>14, Untouched DEF StopExited, StopDone, superVars
<1>15. ASSUME NEW e \in Epochs, ServerDied(e) PROVE IInv'
 <2>1. Terminate(e) /\ UNCHANGED <<epoch, current, launch, generation>> BY <1>15 DEF ServerDied
 <2> QED BY <1>0, <1>d, <2>1, Marked DEF Types
\* The engine that ends was the one there was; what waited for it may go on.
<1>16. ASSUME NEW e \in Epochs, Live(e), OnGone(e) PROVE IInv'
 <2> DEFINE p == [proc[e] EXCEPT !.status = "gone"]
 <2>1. proc' = [proc EXCEPT ![e] = p] /\ UNCHANGED <<epoch, launch, generation>> BY <1>16 DEF OnGone
 <2>2. p \in ProcState /\ p.status = "gone" BY <1>a DEF ProcState
 <2>3. current = e /\ current' = 0 BY <1>0, <1>16 DEF OneOwner, OnGone
 <2> HIDE DEF p
 <2>4. \A d \in Epochs : proc'[d] = IF d = e THEN p ELSE proc[d] BY <1>0, <2>1 DEF Types
 <2>5. Types' BY <1>0, <2>1, <2>2, <2>3 DEF Types
 <2>6. OneOwner' BY <1>0, <2>2, <2>3, <2>4 DEF OneOwner, Live
 <2>7. \A d \in Epochs : launch[d].prev # 0 => launch[d].prev \in Epochs BY <1>a DEF Launch
 <2>8. LaunchesFollow' BY <1>0, <2>1, <2>2, <2>3, <2>4, <2>7 DEF LaunchesFollow, Gone
 <2> QED BY <2>5, <2>6, <2>8 DEF IInv
<1>17. ASSUME NEW e \in Epochs, Exit(e) \/ Crash(e) PROVE IInv' BY <1>16, <1>17 DEF Exit, Crash
<1>18. ASSUME NEW c \in Clients, WhenReady(c) PROVE IInv'
 <2>1. UNCHANGED <<current, proc, generation>> /\ (UNCHANGED <<epoch, launch>> \/ Start) BY <1>18 DEF WhenReady
 <2> QED BY <2>1, StartStep, Untouched
<1>19. ASSUME NEW c \in Clients, WaitTimeout(c) \/ Call(c) \/ Answer(c) PROVE IInv'
  BY <1>19, Untouched DEF WaitTimeout, Call, Answer, superVars
<1> QED BY <1>1, <1>2, <1>3, <1>4, <1>5, <1>6, <1>7, <1>8, <1>9, <1>10, <1>11, <1>12, <1>13, <1>14, <1>15,
     <1>17, <1>18, <1>19 DEF Next, LaunchStep, StopStep

\* Never two engines: a launch waits until the engine it replaces is gone, and one
\* that was overtaken meanwhile spawns none (launch, #spawn, #onGone).
THEOREM NeverTwoEngines == Spec => []OneEngine
<1>1. Init => IInv
 <2> SUFFICES ASSUME Init PROVE IInv OBVIOUS
 <2>1. /\ \A e \in Epochs : launch[e].pc = "none" /\ proc[e].status = "none"
       /\ current = 0 /\ epoch = 0 /\ generation = 0 BY DEF Init
 <2>2. launch \in [Epochs -> Launch] /\ proc \in [Epochs -> ProcState] BY DEF Init, Launch, Pcs, ProcState
 <2>3. Types BY <2>1, <2>2 DEF Types
 <2>4. OneOwner /\ LaunchesFollow BY <2>1 DEF OneOwner, LaunchesFollow, Live
 <2> QED BY <2>3, <2>4 DEF IInv
<1>2. IInv /\ [Next]_vars => IInv' BY InvStep
<1>3. IInv => OneEngine BY DEF IInv, OneOwner, OneEngine
<1> QED BY <1>1, <1>2, <1>3, PTL DEF Spec

--------------------
\* The signals, the stops and the launches of the epochs know of each
\* other.

StopPcs == {"none", "snap", "kill", "reap", "done"}

StopTypes ==
    /\ stopper \in [Epochs -> [pc : StopPcs, target : Epochs \cup {0}]]
    /\ stopping \in BOOLEAN /\ timer \in BOOLEAN

\* A process is signalled by the stop of a later epoch or because it was terminated.
SignalsKnown ==
    \A e \in Epochs : /\ proc[e].signalled => proc[e].expected \/ proc[e].terminating
                      /\ proc[e].expected => e < epoch

\* An epoch is a start's or a stop's; a stop expects the exit of its target.
StopsApart ==
    \A e \in Epochs :
        /\ stopper[e].pc # "none" => e <= epoch /\ launch[e].pc = "none"
        /\ stopper[e].pc # "none" /\ stopper[e].target # 0 => proc[stopper[e].target].expected
        /\ stopper[e].pc \in {"snap", "kill"} => stopper[e].target # 0
        /\ stopper[e].pc = "none" => stopper[e].target = 0

\* A launch that has not spawned has no process.
Unborn ==
    \A e \in Epochs : launch[e].pc \in {"none", "wait", "dirs"} =>
        proc[e].status = "none" /\ ~proc[e].ready /\ ~proc[e].terminating

\* Under way, the launch of the last epoch owns the state, and its engine is the
\* only one.
LaunchOwns ==
    \A e \in Epochs : e = epoch /\ launch[e].pc \in {"wait", "dirs", "init", "dying"} =>
        /\ ~stopping => state = "starting"
        /\ launch[e].pc \in {"init", "dying"} => current \in {0, e}
        /\ launch[e].pc \in {"wait", "dirs"} => \A d \in Epochs : d = current => launch[d].pc = "done"

\* An engine that is starting and that no stop() has claimed is the last epoch's.
FreshEngine ==
    \A e \in Epochs : e = current /\ launch[e].pc \in {"init", "dying"} /\ ~proc[e].expected =>
        e = epoch /\ ~stopping

\* While the engine is to be stopped nothing else is scheduled, an engine that was
\* told to go and lives keeps it so, and the stop of the last epoch leaves none.
StopHolds ==
    /\ stopping => state # "unavailable" /\ ~timer
    /\ \A e \in Epochs : e = current /\ proc[e].expected => stopping
    /\ \A e \in Epochs : e = epoch /\ stopper[e].pc # "none" =>
          /\ stopping /\ current \in {0, stopper[e].target}
          /\ stopper[e].pc \in {"reap", "done"} => current = 0

\* What the broker has begun: boot comes first, and a restart waits for its own stop.
BrokerHolds ==
    /\ epoch = 0 => ~timer /\ state = "stopped"
    /\ ~booted /\ shut = 0 => epoch = 0
    /\ tools.pc = "stopping" => tools.at \in 1..epoch

EpochsInv == StopTypes /\ SignalsKnown /\ StopsApart /\ Unborn /\ LaunchOwns /\ FreshEngine /\ StopHolds

\* What the invariant sees of a step of the restarts, the reaping or the requests.
LEMMA EpochsUntouched ==
  EpochsInv /\ UNCHANGED <<state, stopping, timer, epoch, current, launch, proc, stopper>> => EpochsInv'
BY DEF EpochsInv, StopTypes, SignalsKnown, StopsApart, Unborn, LaunchOwns, FreshEngine, StopHolds

\* ScheduleRestart, TimerFires: the state may change when no launch owns it.
LEMMA EpochsReschedule ==
  ASSUME EpochsInv, timer' \in BOOLEAN, UNCHANGED <<stopping, epoch, current, launch, proc, stopper>>,
         stopping => state' = state /\ (timer' => timer),
         \A e \in Epochs : e = epoch /\ launch[e].pc \in {"wait", "dirs", "init", "dying"} /\ ~stopping =>
                           state' = "starting"
  PROVE  EpochsInv'
<1>0. StopTypes /\ SignalsKnown /\ StopsApart /\ Unborn /\ LaunchOwns /\ FreshEngine /\ StopHolds BY DEF EpochsInv
<1>1. StopTypes' /\ SignalsKnown' /\ StopsApart' /\ Unborn' /\ FreshEngine'
  BY <1>0 DEF StopTypes, SignalsKnown, StopsApart, Unborn, FreshEngine
<1>2. LaunchOwns' BY <1>0 DEF LaunchOwns
<1>3. StopHolds' BY <1>0 DEF StopHolds
<1> QED BY <1>1, <1>2, <1>3 DEF EpochsInv

\* start(), with no engine that was told to go.
LEMMA EpochsStart ==
  ASSUME IInv, EpochsInv, Start, UNCHANGED <<current, proc, stopper>>,
         \A e \in Epochs : e = current => ~proc[e].expected
  PROVE  EpochsInv'
<1>0. Types /\ LaunchesFollow /\ OneOwner BY DEF IInv
<1>a. StopTypes /\ SignalsKnown /\ StopsApart /\ Unborn /\ LaunchOwns /\ FreshEngine /\ StopHolds BY DEF EpochsInv
<1>1. CASE AlreadyUp BY <1>1, EpochsUntouched DEF Start
<1>2. CASE ~AlreadyUp
 <2>1. /\ stopping' = FALSE /\ timer' = FALSE /\ state' = "starting" /\ epoch' = epoch + 1 /\ epoch \in Nat
       /\ launch' = [launch EXCEPT ![epoch + 1] = [pc |-> "wait", prev |-> current]] BY <1>0, <1>2 DEF Start, Types
 <2>2. \A e \in Epochs : /\ e # epoch + 1 => launch'[e] = launch[e]
                         /\ e = epoch + 1 => launch'[e].pc = "wait" BY <1>0, <2>1 DEF Types
 <2>3. \A e \in Epochs : e \in Int /\ e # 0 /\ (launch[e].pc # "none" => e <= epoch)
   BY <1>0, EpochsType DEF LaunchesFollow, Epochs
 <2>4. StopTypes' BY <1>a, <2>1 DEF StopTypes
 <2>5. SignalsKnown' BY <1>a, <2>1, <2>3 DEF SignalsKnown
 <2>6. StopsApart'
  <3>1. \A e \in Epochs : stopper[e].pc # "none" => e <= epoch /\ e # epoch + 1 BY <1>a, <2>1, <2>3 DEF StopsApart
  <3> QED BY <1>a, <2>1, <2>2, <2>3, <3>1 DEF StopsApart
 <2>7. Unborn'
  <3>1. \A e \in Epochs : e = epoch + 1 => launch[e].pc = "none" BY <2>1, <2>3
  <3> QED BY <1>a, <2>2, <3>1 DEF Unborn
 <2>8. \A e \in Epochs : e = current => launch[e].pc = "done" /\ launch'[e].pc = "done"
  <3>1. ASSUME NEW e \in Epochs, e = current PROVE launch[e].pc = "done"
   <4>1. launch[e].pc \notin {"init", "dying"}
    <5>1. ASSUME launch[e].pc \in {"init", "dying"} PROVE FALSE
     <6>1. e = epoch /\ ~stopping BY <1>a, <3>1, <5>1 DEF FreshEngine
     <6>2. state = "starting" BY <1>a, <5>1, <6>1 DEF LaunchOwns
     <6> QED BY <1>2, <6>2 DEF AlreadyUp
    <5> QED BY <5>1
   <4>2. Live(e) /\ launch[e] \in Launch BY <1>0, <2>3, <3>1 DEF OneOwner, Types
   <4>3. launch[e].pc \notin {"none", "wait", "dirs"} BY <1>a, <4>2 DEF Unborn, Live
   <4> QED BY <4>1, <4>2, <4>3 DEF Launch, Pcs
  <3> QED BY <2>1, <2>2, <2>3, <3>1
 <2>9. LaunchOwns' BY <2>1, <2>2, <2>8 DEF LaunchOwns
 <2>10. FreshEngine' BY <2>8 DEF FreshEngine
 <2>11. StopHolds'
  <3>1. \A e \in Epochs : stopper[e].pc # "none" => e # epoch + 1 BY <1>a, <2>1, <2>3 DEF StopsApart
  <3> QED BY <2>1, <3>1 DEF StopHolds
 <2> QED BY <2>4, <2>5, <2>6, <2>7, <2>9, <2>10, <2>11 DEF EpochsInv
<1> QED BY <1>1, <1>2

LEMMA EpochsStop == IInv /\ EpochsInv /\ Stop /\ UNCHANGED <<current, launch>> => EpochsInv'
<1> SUFFICES ASSUME IInv, EpochsInv, Stop, UNCHANGED <<current, launch>> PROVE EpochsInv' OBVIOUS
<1>0. Types /\ LaunchesFollow /\ OneOwner BY DEF IInv
<1>a. StopTypes /\ SignalsKnown /\ StopsApart /\ Unborn /\ LaunchOwns /\ FreshEngine /\ StopHolds BY DEF EpochsInv
<1>1. stopping' = TRUE /\ timer' = FALSE /\ epoch' = epoch + 1 /\ epoch \in Nat BY <1>0 DEF Stop, Types
<1>2. \A e \in Epochs : e \in Int /\ (launch[e].pc # "none" => e <= epoch) /\ e # 0
  BY <1>0, EpochsType DEF LaunchesFollow, Epochs
<1>3. /\ stopper' \in [Epochs -> [pc : StopPcs, target : Epochs \cup {0}]]
      /\ \A e \in Epochs : /\ e # epoch + 1 => stopper'[e] = stopper[e]
                           /\ e = epoch + 1 /\ current = 0 => stopper'[e].pc = "reap" /\ stopper'[e].target = stopper[e].target
                           /\ e = epoch + 1 /\ current # 0 => stopper'[e].pc = "snap" /\ stopper'[e].target = current
 <2>0. stopper \in [Epochs -> [pc : StopPcs, target : Epochs \cup {0}]] BY <1>a DEF StopTypes
 <2>1. CASE current = 0
  <3> DEFINE r == [stopper[epoch + 1] EXCEPT !.pc = "reap"]
  <3>1. stopper' = [stopper EXCEPT ![epoch + 1] = r] BY <2>1 DEF Stop
  <3>2. epoch + 1 \in Epochs => r \in [pc : StopPcs, target : Epochs \cup {0}] /\ r.pc = "reap" /\ r.target = stopper[epoch + 1].target
    BY <2>0 DEF StopPcs
  <3> HIDE DEF r
  <3> QED BY <2>0, <2>1, <3>1, <3>2
 <2>2. CASE current # 0
  <3> DEFINE r == [pc |-> "snap", target |-> current]
  <3>1. stopper' = [stopper EXCEPT ![epoch + 1] = r] BY <2>2 DEF Stop
  <3>2. r \in [pc : StopPcs, target : Epochs \cup {0}] /\ r.pc = "snap" /\ r.target = current
    BY <1>0 DEF StopPcs, Types
  <3> HIDE DEF r
  <3> QED BY <2>0, <2>2, <3>1, <3>2
 <2> QED BY <2>1, <2>2
<1>4. \A e \in Epochs : /\ proc'[e].expected <=> proc[e].expected \/ e = current
                        /\ proc'[e].signalled = proc[e].signalled /\ proc'[e].terminating = proc[e].terminating
                        /\ proc'[e].status = proc[e].status /\ proc'[e].ready = proc[e].ready
 <2>0. \A e \in Epochs : proc[e] \in ProcState BY <1>0 DEF Types
 <2>1. CASE current = 0 BY <1>2, <2>0, <2>1 DEF Stop, ProcState
 <2>2. CASE current # 0
  <3> DEFINE p == [proc[current] EXCEPT !.expected = TRUE]
  <3>1. proc' = [proc EXCEPT ![current] = p] /\ current \in Epochs BY <1>0, <2>2 DEF Stop, Types
  <3>2. /\ p.expected = TRUE /\ p.signalled = proc[current].signalled /\ p.terminating = proc[current].terminating
        /\ p.status = proc[current].status /\ p.ready = proc[current].ready BY <2>0, <3>1 DEF ProcState
  <3> HIDE DEF p
  <3>3. \A e \in Epochs : proc'[e] = IF e = current THEN p ELSE proc[e] BY <1>0, <3>1 DEF Types
  <3>4. \A e \in Epochs : proc[e].expected \in BOOLEAN BY <2>0 DEF ProcState
  <3> QED BY <3>2, <3>3, <3>4
 <2> QED BY <2>1, <2>2
<1>5. \A e \in Epochs : e = current => e <= epoch
 <2>1. \A e \in Epochs : e = current => launch[e].pc # "none" BY <1>0, <1>2, <1>a DEF OneOwner, Live, Unborn
 <2> QED BY <1>2, <2>1
<1>6. StopTypes' BY <1>1, <1>3 DEF StopTypes
<1>7. SignalsKnown' BY <1>1, <1>2, <1>4, <1>5, <1>a DEF SignalsKnown
<1>8. StopsApart'
 <2>1. ASSUME NEW e \in Epochs, stopper'[e].pc # "none"
       PROVE  /\ e <= epoch + 1 /\ launch[e].pc = "none"
              /\ stopper'[e].target # 0 => proc'[stopper'[e].target].expected
              /\ stopper'[e].pc \in {"snap", "kill"} => stopper'[e].target # 0
  <3>1. CASE e # epoch + 1
   <4>1. stopper'[e] = stopper[e] /\ stopper[e].target \in Epochs \cup {0} BY <1>3, <1>a, <3>1 DEF StopTypes
   <4> QED BY <1>1, <1>2, <1>4, <1>a, <2>1, <4>1 DEF StopsApart
  <3>2. CASE e = epoch + 1 /\ current # 0
   <4>1. launch[e].pc = "none" /\ e <= epoch + 1 BY <1>1, <1>2, <3>2
   <4>2. stopper'[e].pc = "snap" /\ stopper'[e].target = current /\ current \in Epochs /\ proc'[current].expected
     BY <1>0, <1>3, <1>4, <3>2 DEF Types
   <4> QED BY <3>2, <4>1, <4>2
  <3>3. CASE e = epoch + 1 /\ current = 0
   <4>1. stopper[e].pc = "none" BY <1>1, <1>2, <1>a, <3>3 DEF StopsApart
   <4> QED BY <1>1, <1>2, <1>3, <1>a, <3>3, <4>1 DEF StopsApart
  <3> QED BY <3>1, <3>2, <3>3
 <2>2. \A e \in Epochs : stopper'[e].pc = "none" => stopper'[e].target = 0 BY <1>3, <1>a DEF StopsApart
 <2> QED BY <1>1, <2>1, <2>2 DEF StopsApart
<1>9. Unborn' BY <1>4, <1>a DEF Unborn
<1>10. LaunchOwns' BY <1>1, <1>2 DEF LaunchOwns
<1>11. FreshEngine' BY <1>4 DEF FreshEngine
<1>12. StopHolds'
 <2>1. state' # "unavailable" BY DEF Stop
 <2>2. ASSUME NEW e \in Epochs, e = epoch + 1
       PROVE  current \in {0, stopper'[e].target} /\ (stopper'[e].pc \in {"reap", "done"} => current = 0)
   BY <1>3, <2>2
 <2> QED BY <1>1, <2>1, <2>2 DEF StopHolds
<1> QED BY <1>6, <1>7, <1>8, <1>9, <1>10, <1>11, <1>12 DEF EpochsInv

\* A launch that ends, or moves on after its engine was spawned.
LEMMA EpochsLaunchMoves ==
  ASSUME IInv, EpochsInv, NEW e \in Epochs, NEW pc \in {"dying", "done"},
         launch[e].pc \in {"dirs", "init", "dying"}, launch' = [launch EXCEPT ![e].pc = pc],
         pc = "dying" => launch[e].pc = "init", timer' \in BOOLEAN,
         state' = state \/ (pc = "done" /\ e = epoch), stopping => state' = state /\ timer' = timer,
         UNCHANGED <<stopping, epoch, current, proc, stopper>>
  PROVE  EpochsInv'
<1>0. Types /\ StopTypes /\ SignalsKnown /\ StopsApart /\ Unborn /\ LaunchOwns /\ FreshEngine /\ StopHolds
  BY DEF IInv, EpochsInv
<1>1. \A d \in Epochs : /\ d # e => launch'[d] = launch[d]
                        /\ d = e => launch'[d].pc = pc BY <1>0 DEF Types, Launch
<1>2. StopTypes' /\ SignalsKnown' BY <1>0 DEF StopTypes, SignalsKnown
<1>3. StopsApart' BY <1>0, <1>1 DEF StopsApart
<1>4. Unborn' BY <1>0, <1>1 DEF Unborn
<1>5. LaunchOwns' BY <1>0, <1>1 DEF LaunchOwns
<1>6. FreshEngine' BY <1>0, <1>1 DEF FreshEngine
<1>7. StopHolds' BY <1>0 DEF StopHolds
<1> QED BY <1>2, <1>3, <1>4, <1>5, <1>6, <1>7 DEF EpochsInv

\* A process is marked; the state may leave "ready".
LEMMA EpochsMarked ==
  ASSUME IInv, EpochsInv, UNCHANGED <<stopping, timer, epoch, current, launch>>, stopper' = stopper,
         state' = state \/ (state = "ready" /\ state' = "restarting"),
         \A e \in Epochs : /\ proc'[e].expected = proc[e].expected /\ proc'[e].status = proc[e].status
                           /\ proc'[e].ready = proc[e].ready
                           /\ proc'[e].signalled => proc[e].signalled \/ proc'[e].expected \/ proc'[e].terminating
                           /\ proc[e].terminating => proc'[e].terminating
                           /\ proc'[e].terminating => proc[e].terminating \/ launch[e].pc \notin {"none", "wait", "dirs"}
  PROVE  EpochsInv'
<1>0. StopTypes /\ SignalsKnown /\ StopsApart /\ Unborn /\ LaunchOwns /\ FreshEngine /\ StopHolds BY DEF EpochsInv
<1>1. StopTypes' /\ Unborn' /\ FreshEngine' BY <1>0 DEF StopTypes, Unborn, FreshEngine
<1>2. SignalsKnown' BY <1>0 DEF SignalsKnown
<1>3. StopsApart' BY <1>0 DEF StopsApart, StopTypes
<1>4. LaunchOwns' BY <1>0 DEF LaunchOwns
<1>5. StopHolds' BY <1>0 DEF StopHolds
<1> QED BY <1>1, <1>2, <1>3, <1>4, <1>5 DEF EpochsInv

LEMMA EpochsStep ==
  ASSUME IInv, EpochsInv, BrokerHolds, epoch <= MaxEpoch, [Next]_vars PROVE EpochsInv'
<1>0. /\ Types /\ OneOwner /\ LaunchesFollow
      /\ StopTypes /\ SignalsKnown /\ StopsApart /\ Unborn /\ LaunchOwns /\ FreshEngine /\ StopHolds
  BY DEF IInv, EpochsInv
<1>a. \A e \in Epochs : proc[e] \in ProcState /\ e \in Int /\ e # 0 BY <1>0, EpochsType DEF Types, Epochs
<1>c. epoch = 0 => current = 0
 <2>1. epoch = 0 => \A e \in Epochs : launch[e].pc = "none" BY <1>0, <1>a, EpochsType DEF LaunchesFollow, Epochs
 <2> QED BY <1>0, <2>1 DEF OneOwner, Unborn, Live
\* Nobody starts while an engine lives that was told to go.
<1>1. CASE Boot
 <2>1. \A e \in Epochs : e # current BY <1>a, <1>c, <1>1 DEF Boot, BrokerHolds
 <2> QED BY <1>1, <2>1, EpochsStart DEF Boot
<1>d. CASE ToolsStart /\ ~Overtaken
 <2>1. tools.at \in Epochs /\ tools.at = epoch /\ stopper[tools.at].pc = "done"
   BY <1>0, <1>d, EpochsType DEF ToolsStart, Overtaken, BrokerHolds, Types, Epochs
 <2>2. \A e \in Epochs : e # current BY <1>0, <1>a, <2>1 DEF StopHolds
 <2> QED BY <1>d, <2>2, EpochsStart DEF ToolsStart
<1>2. CASE Shutdown \/ ToolsRestart BY <1>2, EpochsStop DEF Shutdown, ToolsRestart
<1>3. CASE ToolsStarted \/ ReapDone \/ UNCHANGED vars \/ (ToolsStart /\ Overtaken)
  BY <1>3, EpochsUntouched DEF ToolsStarted, ReapDone, ToolsStart, vars, superVars
<1>4. CASE TimerFires
 <2>1. CASE Start /\ ~stopping
  <3>1. \A e \in Epochs : e = current => ~proc[e].expected BY <1>0, <2>1 DEF StopHolds
  <3> QED BY <1>4, <2>1, <3>1, EpochsStart DEF TimerFires
 <2>2. CASE timer' = FALSE /\ UNCHANGED <<stopping, state, epoch, launch>>
   BY <1>0, <1>4, <2>2, EpochsReschedule DEF TimerFires, LaunchOwns
 <2> QED BY <1>4, <2>1, <2>2 DEF TimerFires
<1>5. ASSUME NEW e \in Epochs, LaunchWaited(e) PROVE EpochsInv'
 <2>1. /\ launch[e].pc = "wait" /\ UNCHANGED <<state, stopping, timer, epoch, current, proc, stopper>>
       /\ \A d \in Epochs : /\ d # e => launch'[d] = launch[d]
                            /\ d = e => launch'[d].pc = "dirs"
   BY <1>0, <1>5 DEF LaunchWaited, superVars, Types, Launch
 <2>2. StopTypes' /\ SignalsKnown' BY <1>0, <2>1 DEF StopTypes, SignalsKnown
 <2>3. StopsApart' BY <1>0, <2>1 DEF StopsApart
 <2>4. Unborn' /\ FreshEngine' /\ StopHolds' BY <1>0, <2>1 DEF Unborn, FreshEngine, StopHolds
 <2>6. LaunchOwns'
  <3>1. \A d \in Epochs : d = current => launch[d].pc \notin {"wait", "dirs"} BY <1>0, <1>a DEF OneOwner, Unborn, Live
  <3> QED BY <1>0, <2>1, <3>1 DEF LaunchOwns
 <2> QED BY <2>2, <2>3, <2>4, <2>6 DEF EpochsInv
<1>6. ASSUME NEW e \in Epochs, LaunchSpawn(e) PROVE EpochsInv'
 <2>1. CASE Cancelled(e)
  <3>1. /\ launch[e].pc = "dirs" /\ launch' = [launch EXCEPT ![e].pc = "done"]
        /\ UNCHANGED <<state, stopping, timer, epoch, current, proc, stopper>> BY <1>6, <2>1 DEF LaunchSpawn
  <3>2. timer' \in BOOLEAN BY <1>0, <3>1 DEF StopTypes
  <3> QED BY <3>1, <3>2, EpochsLaunchMoves
 <2>2. CASE ~Cancelled(e)
  <3>1. /\ launch[e].pc = "dirs" /\ e = epoch /\ ~stopping /\ current' = e
        /\ UNCHANGED <<state, stopping, timer, epoch, stopper>>
        /\ launch' = [launch EXCEPT ![e].pc = "init"]
        /\ proc' = [proc EXCEPT ![e].status = "live", ![e].gen = NextGeneration]
    BY <1>6, <2>2 DEF LaunchSpawn, Cancelled
  <3>2. \A d \in Epochs : /\ d # e => launch'[d] = launch[d]
                          /\ d = e => launch'[d].pc = "init" BY <1>0, <3>1 DEF Types, Launch
  <3>3. \A d \in Epochs : /\ d # e => proc'[d] = proc[d]
                          /\ proc'[d].expected = proc[d].expected /\ proc'[d].signalled = proc[d].signalled
                          /\ proc'[d].terminating = proc[d].terminating /\ proc'[d].ready = proc[d].ready
   <4> DEFINE p == [proc[e] EXCEPT !.status = "live", !.gen = NextGeneration]
   <4>1. proc' = [proc EXCEPT ![e] = p] BY <3>1
   <4>2. /\ p.expected = proc[e].expected /\ p.signalled = proc[e].signalled
         /\ p.terminating = proc[e].terminating /\ p.ready = proc[e].ready BY <1>a DEF ProcState
   <4> HIDE DEF p
   <4>3. \A d \in Epochs : proc'[d] = IF d = e THEN p ELSE proc[d] BY <1>0, <4>1 DEF Types
   <4>4. proc'[e] = p BY <4>3
   <4>5. ASSUME NEW d \in Epochs
         PROVE  /\ d # e => proc'[d] = proc[d]
                /\ proc'[d].expected = proc[d].expected /\ proc'[d].signalled = proc[d].signalled
                /\ proc'[d].terminating = proc[d].terminating /\ proc'[d].ready = proc[d].ready
    <5>1. CASE d = e BY <4>2, <4>4, <5>1
    <5>2. CASE d # e BY <4>3, <5>2
    <5> QED BY <5>1, <5>2
   <4> QED BY <4>5
  <3>4. StopTypes' /\ SignalsKnown'
   <4>1. StopTypes' BY <1>0, <3>1 DEF StopTypes
   <4>2. epoch' = epoch /\ SignalsKnown BY <1>0, <3>1
   <4>3. SignalsKnown' BY <3>3, <4>2 DEF SignalsKnown
   <4> QED BY <4>1, <4>3
  <3>5. StopsApart'
   <4>1. ASSUME NEW d \in Epochs, stopper[d].pc # "none" PROVE d <= epoch /\ launch'[d].pc = "none"
     BY <1>0, <3>1, <3>2, <4>1 DEF StopsApart
   <4>2. ASSUME NEW d \in Epochs, stopper[d].pc # "none", stopper[d].target # 0
         PROVE  proc'[stopper[d].target].expected
    <5>1. stopper[d].target \in Epochs /\ proc[stopper[d].target].expected BY <1>0, <4>2 DEF StopsApart, StopTypes
    <5> QED BY <3>3, <5>1
   <4> QED BY <1>0, <3>1, <4>1, <4>2 DEF StopsApart
  <3>6. Unborn' BY <1>0, <3>2, <3>3 DEF Unborn
  <3>7. LaunchOwns' /\ FreshEngine' BY <1>0, <3>1, <3>2 DEF LaunchOwns, FreshEngine
  <3>8. StopHolds'
   <4>1. \A d \in Epochs : d = epoch => stopper[d].pc = "none" BY <1>0, <3>1 DEF StopHolds
   <4>2. ~proc'[e].expected
    <5>1. proc[e].expected => e < epoch BY <1>0 DEF SignalsKnown
    <5>2. ~proc[e].expected BY <1>a, <3>1, <5>1
    <5> QED BY <3>3, <5>2
   <4> QED BY <1>0, <3>1, <4>1, <4>2 DEF StopHolds
  <3> QED BY <3>4, <3>5, <3>6, <3>7, <3>8 DEF EpochsInv
 <2> QED BY <2>1, <2>2
\* The end of a failed launch: only the last epoch's reschedules.
<1>b. ASSUME NEW e \in Epochs, launch[e].pc \in {"dirs", "init", "dying"}, Conclude(e),
             UNCHANGED <<stopping, epoch, current, proc, stopper>>
      PROVE  EpochsInv'
 <2>1. launch' = [launch EXCEPT ![e].pc = "done"] BY <1>b DEF Conclude
 <2>2. timer' \in BOOLEAN BY <1>0, <1>b DEF Conclude, ScheduleRestart, StopTypes
 <2>3. state' = state \/ e = epoch BY <1>b DEF Conclude, Cancelled
 <2>4. stopping => state' = state /\ timer' = timer BY <1>b DEF Conclude, Cancelled
 <2> QED BY <1>b, <2>1, <2>2, <2>3, <2>4, EpochsLaunchMoves
<1>7. ASSUME NEW e \in Epochs, DirsFail(e) \/ LaunchLost(e) PROVE EpochsInv' BY <1>7, <1>b DEF DirsFail, LaunchLost
<1>8. ASSUME NEW e \in Epochs, LaunchReady(e) PROVE EpochsInv'
 <2>1. /\ launch[e].pc = "init" /\ current = e /\ state' = "ready"
       /\ UNCHANGED <<stopping, timer, epoch, current, stopper>>
       /\ launch' = [launch EXCEPT ![e].pc = "done"] /\ proc' = [proc EXCEPT ![e].ready = TRUE]
   BY <1>8 DEF LaunchReady
 <2>2. \A d \in Epochs : /\ d # e => launch'[d] = launch[d]
                         /\ d = e => launch'[d].pc = "done" BY <1>0, <2>1 DEF Types, Launch
 <2>3. \A d \in Epochs : /\ d # e => proc'[d] = proc[d]
                         /\ proc'[d].expected = proc[d].expected /\ proc'[d].signalled = proc[d].signalled
                         /\ proc'[d].terminating = proc[d].terminating
  <3> DEFINE p == [proc[e] EXCEPT !.ready = TRUE]
  <3>1. proc' = [proc EXCEPT ![e] = p] BY <2>1
  <3>2. p.expected = proc[e].expected /\ p.signalled = proc[e].signalled /\ p.terminating = proc[e].terminating
    BY <1>a DEF ProcState
  <3> HIDE DEF p
  <3> QED BY <1>0, <3>1, <3>2 DEF Types
 <2>4. StopTypes' /\ SignalsKnown' BY <1>0, <2>1, <2>3 DEF StopTypes, SignalsKnown
 <2>5. StopsApart' BY <1>0, <2>1, <2>2, <2>3 DEF StopsApart, StopTypes
 <2>6. Unborn' BY <1>0, <2>2, <2>3 DEF Unborn
 <2>7. LaunchOwns' BY <1>0, <1>a, <2>1, <2>2 DEF LaunchOwns
 <2>8. FreshEngine' BY <1>0, <2>1, <2>2, <2>3 DEF FreshEngine
 <2>9. StopHolds' BY <1>0, <2>1, <2>3 DEF StopHolds
 <2> QED BY <2>4, <2>5, <2>6, <2>7, <2>8, <2>9 DEF EpochsInv
\* Terminating a process that lives.
<1>e. ASSUME NEW e \in Epochs, Live(e), Terminate(e), timer' = timer, stopper' = stopper,
             UNCHANGED <<stopping, epoch, current>>
      PROVE  /\ state' = state \/ (state = "ready" /\ state' = "restarting")
             /\ \A d \in Epochs :
                  /\ proc'[d].expected = proc[d].expected /\ proc'[d].status = proc[d].status
                  /\ proc'[d].ready = proc[d].ready
                  /\ proc'[d].signalled => proc[d].signalled \/ proc'[d].expected \/ proc'[d].terminating
                  /\ proc[d].terminating => proc'[d].terminating
                  /\ proc'[d].terminating => proc[d].terminating \/ launch[d].pc \notin {"none", "wait", "dirs"}
 <2> DEFINE p == [proc[e] EXCEPT !.terminating = TRUE, !.signalled = TRUE]
 <2>1. p.expected = proc[e].expected /\ p.status = proc[e].status /\ p.ready = proc[e].ready /\ p.terminating
   BY <1>a DEF ProcState
 <2>2. proc' = [proc EXCEPT ![e] = p]
  <3>1. proc' = [proc EXCEPT ![e].terminating = TRUE, ![e].signalled = TRUE] BY <1>e DEF Terminate
  <3> QED BY <1>0, <3>1 DEF Types
 <2> HIDE DEF p
 <2>3. \A d \in Epochs : proc'[d] = IF d = e THEN p ELSE proc[d] BY <1>0, <2>2 DEF Types
 <2>4. launch[e].pc \notin {"none", "wait", "dirs"} BY <1>0, <1>e DEF Unborn, Live
 <2> QED BY <1>e, <2>1, <2>3, <2>4 DEF Terminate
<1>9. ASSUME NEW e \in Epochs, ServerDied(e) PROVE EpochsInv'
 <2>1. /\ Live(e) /\ Terminate(e) /\ stopper' = stopper /\ UNCHANGED <<stopping, timer, epoch, current, launch>>
   BY <1>9 DEF ServerDied
 <2> QED BY <1>e, <2>1, EpochsMarked
\* First the process is marked, then the launch moves on.
<1>10. ASSUME NEW e \in Epochs, InitFail(e) PROVE EpochsInv'
 <2>1. /\ Live(e) /\ launch[e].pc = "init" /\ stopper' = stopper /\ UNCHANGED <<stopping, timer, epoch, current>>
       /\ launch' = [launch EXCEPT ![e].pc = "dying"] /\ (UNCHANGED <<proc, state>> \/ Terminate(e))
   BY <1>10 DEF InitFail
 <2>2. CASE UNCHANGED <<proc, state>> BY <1>0, <2>1, <2>2, EpochsLaunchMoves DEF StopTypes
 <2>3. CASE Terminate(e)
  <3>1. /\ state' = state \/ (state = "ready" /\ state' = "restarting")
        /\ \A d \in Epochs :
              /\ proc'[d].expected = proc[d].expected /\ proc'[d].status = proc[d].status
              /\ proc'[d].ready = proc[d].ready
              /\ proc'[d].signalled => proc[d].signalled \/ proc'[d].expected \/ proc'[d].terminating
              /\ proc[d].terminating => proc'[d].terminating
              /\ proc'[d].terminating => proc[d].terminating \/ launch[d].pc \notin {"none", "wait", "dirs"}
    BY <1>e, <2>1, <2>3
  <3>2. \A d \in Epochs : /\ d # e => launch'[d] = launch[d]
                          /\ d = e => launch'[d].pc = "dying" BY <1>0, <2>1 DEF Types, Launch
  <3>3. StopTypes' /\ SignalsKnown' BY <1>0, <2>1, <3>1 DEF StopTypes, SignalsKnown
  <3>4. StopsApart' BY <1>0, <2>1, <3>1, <3>2 DEF StopsApart, StopTypes
  <3>5. Unborn' /\ FreshEngine' BY <1>0, <2>1, <3>1, <3>2 DEF Unborn, FreshEngine
  <3>6. LaunchOwns' BY <1>0, <2>1, <3>1, <3>2 DEF LaunchOwns
  <3>7. StopHolds' BY <1>0, <2>1, <3>1 DEF StopHolds
  <3> QED BY <3>3, <3>4, <3>5, <3>6, <3>7 DEF EpochsInv
 <2> QED BY <2>1, <2>2, <2>3
<1>11. ASSUME NEW e \in Epochs, StopSignal(e) PROVE EpochsInv'
 <2> DEFINE t == stopper[e].target
            p == [proc[t] EXCEPT !.signalled = TRUE]
 <2>1. /\ stopper[e].pc = "snap" /\ proc' = [proc EXCEPT ![t] = p]
       /\ stopper' = [stopper EXCEPT ![e].pc = "kill"]
       /\ UNCHANGED <<state, stopping, timer, epoch, current, launch>> BY <1>11 DEF StopSignal, superVars
 <2>2. t \in Epochs /\ proc[t].expected BY <1>0, <2>1 DEF StopsApart, StopTypes
 <2>3. /\ p.expected = proc[t].expected /\ p.status = proc[t].status /\ p.ready = proc[t].ready
       /\ p.terminating = proc[t].terminating BY <1>a, <2>2 DEF ProcState
 <2> HIDE DEF p
 <2>4. \A d \in Epochs : /\ d # t => proc'[d] = proc[d]
                         /\ proc'[d].expected = proc[d].expected /\ proc'[d].status = proc[d].status
                         /\ proc'[d].ready = proc[d].ready /\ proc'[d].terminating = proc[d].terminating
   BY <1>0, <2>1, <2>3 DEF Types
 <2>5. /\ stopper' \in [Epochs -> [pc : StopPcs, target : Epochs \cup {0}]]
       /\ \A d \in Epochs : stopper'[d].target = stopper[d].target /\ (d # e => stopper'[d] = stopper[d])
       /\ stopper'[e].pc = "kill"
  <3> DEFINE r == [stopper[e] EXCEPT !.pc = "kill"]
  <3>1. stopper' = [stopper EXCEPT ![e] = r] BY <2>1
  <3>2. r \in [pc : StopPcs, target : Epochs \cup {0}] /\ r.pc = "kill" /\ r.target = stopper[e].target
    BY <1>0 DEF StopTypes, StopPcs
  <3> HIDE DEF r
  <3> QED BY <1>0, <3>1, <3>2 DEF StopTypes
 <2>6. StopTypes' BY <1>0, <2>1, <2>5 DEF StopTypes
 <2>7. SignalsKnown' BY <1>0, <2>1, <2>2, <2>4 DEF SignalsKnown
 <2>8. StopsApart' BY <1>0, <2>1, <2>2, <2>4, <2>5 DEF StopsApart, StopTypes
 <2>9. Unborn' /\ LaunchOwns' /\ FreshEngine' BY <1>0, <2>1, <2>4 DEF Unborn, LaunchOwns, FreshEngine
 <2>10. StopHolds' BY <1>0, <2>1, <2>4, <2>5 DEF StopHolds
 <2> QED BY <2>6, <2>7, <2>8, <2>9, <2>10 DEF EpochsInv
<1>12. ASSUME NEW e \in Epochs, StopExited(e) \/ StopDone(e) PROVE EpochsInv'
 <2>1. PICK pc \in {"reap", "done"} :
          /\ stopper' = [stopper EXCEPT ![e].pc = pc] /\ stopper[e].pc # "none"
          /\ (stopper[e].pc = "kill" /\ Gone(stopper[e].target)) \/ stopper[e].pc = "reap"
   BY <1>12 DEF StopExited, StopDone
 <2>2. /\ UNCHANGED <<stopping, timer, epoch, current, launch, proc>>
       /\ state' = state \/ (state' = "stopped" /\ epoch = e) BY <1>12 DEF StopExited, StopDone, superVars
 <2>3. /\ stopper' \in [Epochs -> [pc : StopPcs, target : Epochs \cup {0}]]
       /\ \A d \in Epochs : stopper'[d].target = stopper[d].target /\ (d # e => stopper'[d] = stopper[d])
       /\ stopper'[e].pc = pc
  <3> DEFINE r == [stopper[e] EXCEPT !.pc = pc]
  <3>1. stopper' = [stopper EXCEPT ![e] = r] BY <2>1
  <3>2. r \in [pc : StopPcs, target : Epochs \cup {0}] /\ r.pc = pc /\ r.target = stopper[e].target
    BY <1>0 DEF StopTypes, StopPcs
  <3> HIDE DEF r
  <3> QED BY <1>0, <3>1, <3>2 DEF StopTypes
 <2>4. StopTypes' /\ SignalsKnown' BY <1>0, <2>2, <2>3 DEF StopTypes, SignalsKnown
 <2>5. StopsApart' BY <1>0, <2>1, <2>2, <2>3 DEF StopsApart
 <2>6. Unborn' /\ FreshEngine' BY <1>0, <2>2 DEF Unborn, FreshEngine
 <2>7. LaunchOwns'
  <3>1. launch[e].pc = "none" BY <1>0, <2>1 DEF StopsApart
  <3> QED BY <1>0, <2>2, <3>1 DEF LaunchOwns
 <2>8. StopHolds'
  <3>1. e = epoch => current = 0
   <4>1. CASE stopper[e].pc = "kill" /\ Gone(stopper[e].target)
     BY <1>0, <2>1, <4>1 DEF StopHolds, OneOwner, Live, Gone
   <4>2. CASE stopper[e].pc = "reap" BY <1>0, <4>2 DEF StopHolds
   <4> QED BY <2>1, <4>1, <4>2
  <3> QED BY <1>0, <2>1, <2>2, <2>3, <3>1 DEF StopHolds
 <2> QED BY <2>4, <2>5, <2>6, <2>7, <2>8 DEF EpochsInv
\* The engine that ends was the one there was; an engine nobody claimed is restarted.
<1>13. ASSUME NEW e \in Epochs, Live(e), OnGone(e) PROVE EpochsInv'
 <2> DEFINE p == [proc[e] EXCEPT !.status = "gone"]
 <2>1. /\ proc' = [proc EXCEPT ![e] = p] /\ current = e /\ current' = 0
       /\ UNCHANGED <<stopping, epoch, launch, stopper>> BY <1>0, <1>13 DEF OnGone, OneOwner
 <2>2. /\ p.expected = proc[e].expected /\ p.ready = proc[e].ready /\ p.signalled = proc[e].signalled
       /\ p.terminating = proc[e].terminating BY <1>a DEF ProcState
 <2> HIDE DEF p
 <2>3. \A d \in Epochs : /\ d # e => proc'[d] = proc[d]
                         /\ proc'[d].expected = proc[d].expected /\ proc'[d].signalled = proc[d].signalled
                         /\ proc'[d].ready = proc[d].ready /\ proc'[d].terminating = proc[d].terminating
   BY <1>0, <2>1, <2>2 DEF Types
 <2>4. timer' \in BOOLEAN /\ (UNCHANGED <<state, timer>> \/ (~stopping /\ state # "starting"))
   BY <1>0, <1>13 DEF OnGone, OwesRestart, ScheduleRestart, StopTypes
 <2>5. StopTypes' /\ SignalsKnown' BY <1>0, <2>1, <2>3, <2>4 DEF StopTypes, SignalsKnown
 <2>6. StopsApart' BY <1>0, <2>1, <2>3 DEF StopsApart, StopTypes
 <2>7. Unborn'
  <3>1. launch[e].pc \notin {"none", "wait", "dirs"} BY <1>0, <1>13 DEF Unborn, Live
  <3> QED BY <1>0, <2>1, <2>3, <3>1 DEF Unborn
 <2>8. LaunchOwns' BY <1>0, <1>a, <2>1, <2>4 DEF LaunchOwns
 <2>9. FreshEngine' /\ StopHolds' BY <1>0, <1>a, <2>1, <2>4 DEF FreshEngine, StopHolds
 <2> QED BY <2>5, <2>6, <2>7, <2>8, <2>9 DEF EpochsInv
<1>14. ASSUME NEW e \in Epochs, Exit(e) \/ Crash(e) PROVE EpochsInv' BY <1>13, <1>14 DEF Exit, Crash
<1>15. ASSUME NEW c \in Clients, WhenReady(c) PROVE EpochsInv'
 <2>1. CASE Start /\ state = "unavailable"
  <3>1. \A e \in Epochs : e = current => ~proc[e].expected BY <1>0, <2>1 DEF StopHolds
  <3> QED BY <1>15, <2>1, <3>1, EpochsStart DEF WhenReady
 <2>2. CASE UNCHANGED <<stopping, timer, state, epoch, launch>> BY <1>15, <2>2, EpochsUntouched DEF WhenReady
 <2> QED BY <1>15, <2>1, <2>2 DEF WhenReady
<1>16. ASSUME NEW c \in Clients, WaitTimeout(c) \/ Call(c) \/ Answer(c) PROVE EpochsInv'
  BY <1>16, EpochsUntouched DEF WaitTimeout, Call, Answer, superVars
<1> QED
  BY <1>d, <1>1, <1>2, <1>3, <1>4, <1>5, <1>6, <1>7, <1>8, <1>9, <1>10, <1>11, <1>12, <1>14, <1>15, <1>16 DEF Next,
     LaunchStep, StopStep

--------------------
\* The epochs never run out: each is paid for by a start, a stop, a fault
\* or a request, and none is paid twice.

ClientPcs == {"idle", "waiting", "granted", "calling", "answered", "refused"}
ClientRec == [pc : ClientPcs, on : Epochs \cup {0}]

CountTypes ==
    /\ client \in [Clients -> ClientRec]
    /\ booted \in BOOLEAN /\ shut \in Nat
    /\ toolsCount \in 0..MaxToolsRestarts /\ faults \in 0..MaxFaults

Busy == {c \in Clients : client[c].pc # "idle"}

\* What the steps make of the requests: none becomes idle again.
ClientsGo == client' \in [Clients -> ClientRec] /\ \A c \in Clients : client[c].pc # "idle" => client'[c].pc # "idle"

LEMMA AnsweredKeeps ==
  ASSUME NEW f \in [Clients -> ClientRec], NEW pc \in ClientPcs \ {"idle"}
  PROVE  /\ Answered(f, pc) \in [Clients -> ClientRec]
         /\ \A c \in Clients : f[c].pc # "idle" => Answered(f, pc)[c].pc # "idle"
<1>1. ASSUME NEW c \in Clients
      PROVE  [f[c] EXCEPT !.pc = pc] \in ClientRec /\ [f[c] EXCEPT !.pc = pc].pc = pc BY DEF ClientRec
<1> QED BY <1>1 DEF Answered

LEMMA RejectKeeps ==
  ASSUME client \in [Clients -> ClientRec], NEW e \in Epochs
  PROVE  /\ RejectPending(e) \in [Clients -> ClientRec]
         /\ \A c \in Clients : client[c].pc # "idle" => RejectPending(e)[c].pc # "idle"
<1>1. ASSUME NEW c \in Clients
      PROVE  [client[c] EXCEPT !.pc = "refused"] \in ClientRec /\ [client[c] EXCEPT !.pc = "refused"].pc = "refused"
  BY DEF ClientRec, ClientPcs
<1> QED BY <1>1 DEF RejectPending

LEMMA ScheduleKeeps ==
  ASSUME CountTypes, NEW f \in [Clients -> ClientRec], \A c \in Clients : client[c].pc # "idle" => f[c].pc # "idle",
         ScheduleRestart(f)
  PROVE  ClientsGo
<1>1. /\ Answered(f, "refused") \in [Clients -> ClientRec]
      /\ \A c \in Clients : f[c].pc # "idle" => Answered(f, "refused")[c].pc # "idle" BY AnsweredKeeps DEF ClientPcs
<1>2. client' = f \/ client' = Answered(f, "refused") BY DEF ScheduleRestart
<1> QED BY <1>1, <1>2 DEF ClientsGo

LEMMA ClientStep == IInv /\ CountTypes /\ [Next]_vars => ClientsGo
<1> SUFFICES ASSUME IInv, CountTypes, [Next]_vars PROVE ClientsGo OBVIOUS
<1>0. client \in [Clients -> ClientRec] /\ current \in Epochs \cup {0} BY DEF CountTypes, IInv, Types
<1>1. CASE UNCHANGED client BY <1>0, <1>1 DEF ClientsGo
<1>2. ASSUME NEW c \in Clients, NEW pc \in ClientPcs \ {"idle"}, To(c, pc) PROVE ClientsGo
 <2>1. [client[c] EXCEPT !.pc = pc] \in ClientRec /\ [client[c] EXCEPT !.pc = pc].pc = pc BY <1>0 DEF ClientRec
 <2>2. client' = [client EXCEPT ![c] = [client[c] EXCEPT !.pc = pc]] BY <1>2 DEF To
 <2> QED BY <1>0, <2>1, <2>2 DEF ClientsGo
<1>3. ASSUME NEW e \in Epochs, Conclude(e) PROVE ClientsGo BY <1>0, <1>1, <1>3, ScheduleKeeps DEF Conclude
<1>4. ASSUME NEW e \in Epochs, LaunchReady(e) PROVE ClientsGo
 <2>1. client' = Answered(client, "granted") BY <1>4 DEF LaunchReady
 <2> QED BY <1>0, <2>1, AnsweredKeeps DEF ClientsGo, ClientPcs
<1>5. ASSUME NEW e \in Epochs, OnGone(e) PROVE ClientsGo
  BY <1>0, <1>5, RejectKeeps, ScheduleKeeps DEF OnGone, ClientsGo
<1>6. ASSUME NEW c \in Clients, WhenReady(c) \/ WaitTimeout(c) \/ Answer(c) PROVE ClientsGo
 <2>1. \E pc \in ClientPcs \ {"idle"} : To(c, pc) BY <1>6 DEF WhenReady, WaitTimeout, Answer, ClientPcs
 <2> QED BY <1>2, <2>1
<1>7. ASSUME NEW c \in Clients, Call(c) PROVE ClientsGo
 <2> DEFINE r == IF Serving THEN [pc |-> "calling", on |-> current] ELSE [pc |-> "refused", on |-> 0]
 <2>1. client' = [client EXCEPT ![c] = r] BY <1>7 DEF Call
 <2>2. r \in ClientRec /\ r.pc # "idle" BY <1>0 DEF ClientRec, ClientPcs
 <2> HIDE DEF r
 <2> QED BY <1>0, <2>1, <2>2 DEF ClientsGo
<1> QED BY <1>1, <1>3, <1>4, <1>5, <1>6, <1>7 DEF Next, vars, Boot, Shutdown, ToolsRestart, ToolsStart, ToolsStarted,
     TimerFires, ReapDone, LaunchStep, LaunchWaited, LaunchSpawn, DirsFail, InitFail, LaunchLost, StopStep,
     StopSignal, StopExited, StopDone, ServerDied, Exit, Crash

\* Only the broker's own calls move what the broker keeps.
LEMMA BrokerAlone ==
  [Next]_vars => Boot \/ Shutdown \/ ToolsRestart \/ ToolsStart \/ ToolsStarted \/ UNCHANGED <<booted, shut, tools, toolsCount>>
BY DEF Next, vars, brokerVars, TimerFires, ReapDone, LaunchStep, LaunchWaited, LaunchSpawn, LaunchReady, DirsFail,
       InitFail, LaunchLost, StopStep, StopSignal, StopExited, StopDone, ServerDied, Exit, Crash, OnGone, WhenReady,
       WaitTimeout, Call, Answer

LEMMA FaultsCount == [Next]_vars => UNCHANGED faults \/ Fault
BY DEF Next, vars, Boot, Shutdown, ToolsRestart, ToolsStart, ToolsStarted, TimerFires, ReapDone, LaunchStep,
       LaunchWaited, LaunchSpawn, LaunchReady, DirsFail, InitFail, LaunchLost, StopStep, StopSignal, StopExited,
       StopDone, ServerDied, Exit, Crash, WhenReady, WaitTimeout, Call, Answer

LEMMA CountTypesStep == IInv /\ CountTypes /\ [Next]_vars => CountTypes'
<1> SUFFICES ASSUME IInv, CountTypes, [Next]_vars PROVE CountTypes' OBVIOUS
<1>1. client' \in [Clients -> ClientRec] BY ClientStep DEF ClientsGo
<1>2. epoch \in Nat /\ MaxToolsRestarts \in Nat /\ MaxFaults \in Nat
  BY SupervisorAssumption, EpochsType DEF IInv, Types
<1>3. booted' \in BOOLEAN /\ shut' \in Nat /\ toolsCount' \in 0..MaxToolsRestarts
 <2>1. CASE UNCHANGED <<booted, shut, tools, toolsCount>> BY <2>1 DEF CountTypes
 <2>2. CASE Boot \/ ToolsStart \/ ToolsStarted BY <2>2 DEF CountTypes, Boot, ToolsStart, ToolsStarted
 <2>3. CASE Shutdown \/ ToolsRestart BY <1>2, <2>3 DEF CountTypes, Shutdown, ToolsRestart
 <2> QED BY <2>1, <2>2, <2>3, BrokerAlone
<1>4. faults' \in 0..MaxFaults BY <1>2, FaultsCount DEF CountTypes, Fault
<1> QED BY <1>1, <1>3, <1>4 DEF CountTypes

LEMMA BusyGrows ==
  ASSUME ClientsGo
  PROVE  /\ Cardinality(Busy) \in Nat /\ Cardinality(Busy)' \in Nat
         /\ Cardinality(Busy) <= Cardinality(Busy)' /\ Cardinality(Busy)' <= Cardinality(Clients)
         /\ \A c \in Clients : client[c].pc = "idle" /\ client'[c].pc # "idle" =>
               Cardinality(Busy) + 1 <= Cardinality(Busy)'
<1>1. IsFiniteSet(Busy) /\ IsFiniteSet(Busy') /\ IsFiniteSet(Clients) BY SupervisorAssumption, FS_Subset DEF Busy
<1>2. Busy \subseteq Busy' /\ Busy' \subseteq Clients BY DEF ClientsGo, Busy
<1>3. Cardinality(Busy) <= Cardinality(Busy') /\ Cardinality(Busy') <= Cardinality(Clients) BY <1>1, <1>2, FS_Subset
<1>4. ASSUME NEW c \in Clients, client[c].pc = "idle", client'[c].pc # "idle"
      PROVE  Cardinality(Busy) + 1 <= Cardinality(Busy')
 <2>1. c \notin Busy /\ Busy \cup {c} \subseteq Busy' BY <1>2, <1>4 DEF Busy
 <2>2. Cardinality(Busy \cup {c}) = Cardinality(Busy) + 1 BY <1>1, <2>1, FS_AddElement
 <2> QED BY <1>1, <2>1, <2>2, FS_Subset
<1> QED BY <1>1, <1>3, <1>4, FS_CardinalityType

--------------------
\* The broker's part.

LEMMA EpochsGrow == epoch \in Nat /\ [Next]_vars => epoch' \in {epoch, epoch + 1}
BY DEF Next, vars, superVars, Start, Stop, Boot, Shutdown, ToolsRestart, ToolsStart, ToolsStarted, TimerFires, ReapDone,
       LaunchStep, LaunchWaited, LaunchSpawn, LaunchReady, DirsFail, InitFail, LaunchLost, StopStep, StopSignal,
       StopExited, StopDone, ServerDied, Exit, Crash, OnGone, WhenReady, WaitTimeout, Call, Answer

\* Before the first start or stop there is nothing that could take a step.
LEMMA NothingEarly ==
  ASSUME IInv, EpochsInv, epoch = 0
  PROVE  \A e \in Epochs : launch[e].pc = "none" /\ stopper[e].pc = "none" /\ ~Live(e)
<1>0. LaunchesFollow /\ StopsApart /\ Unborn BY DEF IInv, EpochsInv
<1>1. \A e \in Epochs : e \in Int /\ e > 0 BY EpochsType DEF Epochs
<1>2. \A e \in Epochs : launch[e].pc = "none" /\ stopper[e].pc = "none" BY <1>0, <1>1 DEF LaunchesFollow, StopsApart
<1> QED BY <1>0, <1>2 DEF Unborn, Live

LEMMA EarlyStep ==
  ASSUME IInv, EpochsInv, BrokerHolds, epoch = 0, [Next]_vars
  PROVE  Boot \/ Shutdown \/ UNCHANGED <<epoch, timer, state, booted, shut>>
<1>0. /\ \A e \in Epochs : launch[e].pc = "none" /\ stopper[e].pc = "none" /\ ~Live(e)
      /\ ~timer /\ state = "stopped" /\ (tools.pc = "stopping" => tools.at \in 1..epoch)
  BY NothingEarly DEF BrokerHolds
<1>1. ASSUME NEW e \in Epochs PROVE ~(LaunchStep(e) \/ StopStep(e) \/ ServerDied(e) \/ Exit(e) \/ Crash(e))
  BY <1>0 DEF LaunchStep, LaunchWaited, LaunchSpawn, LaunchReady, DirsFail, InitFail, LaunchLost, StopStep, StopSignal,
       StopExited, StopDone, ServerDied, Exit, Crash
<1>2. ~ToolsRestart
 <2>1. current = 0 BY <1>0 DEF IInv, OneOwner
 <2> QED BY <2>1 DEF ToolsRestart
<1>3. ~ToolsStart BY <1>0 DEF ToolsStart
<1>4. ~TimerFires BY <1>0 DEF TimerFires
<1>5. ASSUME NEW c \in Clients, WhenReady(c) PROVE UNCHANGED <<epoch, timer, state, booted, shut>>
  BY <1>0, <1>5 DEF WhenReady, brokerVars
<1> QED
  BY <1>1, <1>2, <1>3, <1>4, <1>5 DEF Next, vars, superVars, brokerVars, ToolsStarted, ReapDone, WaitTimeout, Call, Answer

LEMMA BrokerStep ==
  ASSUME IInv, EpochsInv, BrokerHolds, CountTypes, [Next]_vars PROVE BrokerHolds'
<1>0. /\ epoch \in Nat /\ epoch' \in {epoch, epoch + 1} /\ booted \in BOOLEAN /\ shut \in Nat
      /\ epoch = 0 => ~timer /\ state = "stopped"
      /\ ~booted /\ shut = 0 => epoch = 0
      /\ tools.pc = "stopping" => tools.at \in 1..epoch BY EpochsGrow DEF IInv, Types, CountTypes, BrokerHolds
<1>1. CASE epoch = 0
 <2>1. CASE Boot
  <3>1. state = "stopped" /\ epoch' = 1 /\ booted' /\ tools' = tools BY <1>0, <1>1, <2>1 DEF Boot, Start, AlreadyUp
  <3> QED BY <1>0, <1>1, <3>1 DEF BrokerHolds
 <2>2. CASE Shutdown BY <1>0, <1>1, <2>2 DEF BrokerHolds, Shutdown, Stop
 <2>3. CASE UNCHANGED <<epoch, timer, state, booted, shut>>
  <3>1. tools'.pc = "stopping" => tools' = tools
    BY <1>1, <2>3, BrokerAlone DEF Boot, Shutdown, ToolsRestart, ToolsStart, ToolsStarted, Stop
  <3> QED BY <1>0, <2>3, <3>1 DEF BrokerHolds
 <2> QED BY <1>1, <2>1, <2>2, <2>3, EarlyStep
<1>2. CASE epoch # 0
 <2>1. epoch' # 0 BY <1>0, <1>2
 <2>2. booted' \/ shut' # 0 BY <1>0, <1>2, BrokerAlone DEF Boot, Shutdown, ToolsRestart, ToolsStart, ToolsStarted
 <2>3. tools'.pc = "stopping" => tools'.at \in 1..epoch'
  <3>1. CASE ToolsRestart BY <1>0, <3>1 DEF ToolsRestart, Stop
  <3>2. CASE ~ToolsRestart
   <4>1. tools'.pc = "stopping" => tools' = tools BY <3>2, BrokerAlone DEF Boot, Shutdown, ToolsStart, ToolsStarted
   <4> QED BY <1>0, <4>1
  <3> QED BY <3>1, <3>2
 <2> QED BY <2>1, <2>2, <2>3 DEF BrokerHolds
<1> QED BY <1>1, <1>2

--------------------
\* The budget: what was begun, and the faults and requests there were, pay
\* for every epoch, for the restart that is scheduled, for the restart that
\* waits for its stop, and for the restart somebody still owes.

B(x) == IF x THEN 1 ELSE 0

\* A ready engine that was told to go, not by a stop(): its exit schedules a restart.
ExitOwes == \E e \in Epochs : e = current /\ proc[e].ready /\ proc[e].terminating /\ ~proc[e].expected

\* The launch of the last epoch has failed: its end schedules a restart.
LaunchOwes ==
    ~stopping /\ \E e \in Epochs : e = epoch /\ launch[e].pc \in {"init", "dying"} /\ (Gone(e) \/ proc[e].terminating)

Owed == ExitOwes \/ LaunchOwes

Budget ==
    epoch + B(timer) + B(tools.pc = "stopping") + B(Owed)
      <= B(booted) + B(shut # 0) + 2 * toolsCount + faults + Cardinality(Busy)

\* What the budget counts, before and after a step.
Counts ==
    /\ epoch \in Nat /\ toolsCount \in Nat /\ faults \in Nat /\ Cardinality(Busy) \in Nat
    /\ faults' \in Nat /\ Cardinality(Busy)' \in Nat /\ Cardinality(Busy) <= Cardinality(Busy)'
    /\ faults <= faults'

\* A step that owes no more than before, and starts nothing.
LEMMA BudgetIdle ==
  ASSUME Budget, Counts, UNCHANGED <<epoch, booted, shut, toolsCount>>, timer' => timer,
         tools'.pc = "stopping" => tools.pc = "stopping", Owed' => Owed
  PROVE  Budget' BY DEF Budget, Counts, B

\* A fault pays for the one restart it brings, whoever schedules it.
LEMMA BudgetFault ==
  ASSUME Budget, Counts, Fault, UNCHANGED <<epoch, booted, shut, toolsCount, tools>>,
         \/ timer' = timer
         \/ Owed' => Owed
  PROVE  Budget' BY DEF Budget, Counts, B, Fault

\* The owed restart is scheduled.
LEMMA BudgetScheduled ==
  ASSUME Budget, Counts, UNCHANGED <<epoch, booted, shut, toolsCount, tools>>, Owed, ~Owed'
  PROVE  Budget' BY DEF Budget, Counts, B

\* start() owes nothing new; at most it takes an epoch, and clears the timer.
LEMMA StartOwes ==
  ASSUME IInv, Start, UNCHANGED <<current, proc>>
  PROVE  (UNCHANGED <<epoch, timer>> \/ (epoch' = epoch + 1 /\ ~timer')) /\ (Owed' => Owed)
<1>1. CASE AlreadyUp BY <1>1 DEF Start, Owed, ExitOwes, LaunchOwes, Gone
<1>2. CASE ~AlreadyUp
 <2>1. epoch' = epoch + 1 /\ ~timer' /\ launch' = [launch EXCEPT ![epoch + 1] = [pc |-> "wait", prev |-> current]]
   BY <1>2 DEF Start
 <2>2. \A e \in Epochs : e = epoch' => launch'[e].pc = "wait" BY <2>1 DEF IInv, Types
 <2>3. ~LaunchOwes' /\ (ExitOwes' => ExitOwes) BY <2>2 DEF LaunchOwes, ExitOwes
 <2> QED BY <2>1, <2>3 DEF Owed
<1> QED BY <1>1, <1>2

\* Behind a stop() nobody owes a restart: it expects the engine's exit.
LEMMA StopOwes ==
  ASSUME IInv, Stop, current' = current
  PROVE  epoch' = epoch + 1 /\ ~timer' /\ ~Owed'
<1>0. proc \in [Epochs -> ProcState] /\ current \in Epochs \cup {0} BY DEF IInv, Types
<1>1. \A e \in Epochs : e = current => proc'[e].expected
 <2>1. ASSUME NEW e \in Epochs, e = current PROVE proc' = [proc EXCEPT ![e].expected = TRUE]
   BY <2>1, EpochsType DEF Stop, Epochs
 <2>2. \A e \in Epochs : [proc[e] EXCEPT !.expected = TRUE].expected = TRUE BY <1>0 DEF ProcState
 <2> QED BY <1>0, <2>1, <2>2
<1> QED BY <1>1 DEF Stop, Owed, ExitOwes, LaunchOwes

\* A launch that moves on, or ends, without having failed now.
LEMMA LaunchMoves ==
  ASSUME IInv, NEW e \in Epochs, NEW pc \in {"dirs", "done"}, launch' = [launch EXCEPT ![e].pc = pc],
         UNCHANGED <<stopping, epoch, current, proc>>
  PROVE  /\ Owed' => Owed
         /\ pc = "done" /\ e = epoch => ~LaunchOwes'
<1>1. \A d \in Epochs : /\ d # e => launch'[d] = launch[d]
                        /\ launch'[e].pc = pc BY DEF IInv, Types, Launch
<1>2. LaunchOwes' => LaunchOwes BY <1>1 DEF LaunchOwes, Gone
<1>3. (ExitOwes' <=> ExitOwes) /\ (pc = "done" /\ e = epoch => ~LaunchOwes') BY <1>1 DEF ExitOwes, LaunchOwes
<1> QED BY <1>2, <1>3 DEF Owed

\* The end of a failed launch pays for the restart it schedules with what it owed.
LEMMA ConcludeOwes ==
  ASSUME IInv, EpochsInv, NEW e \in Epochs, launch[e].pc \in {"dirs", "init", "dying"}, Conclude(e),
         UNCHANGED <<stopping, epoch, current, proc>>
  PROVE  /\ Owed' => Owed
         /\ timer' = timer \/ launch[e].pc = "dirs" \/ ~Gone(e) \/ (Owed /\ ~Owed')
<1>1. launch' = [launch EXCEPT ![e].pc = "done"] BY DEF Conclude
<1>2. (Owed' => Owed) /\ (e = epoch => ~LaunchOwes') BY <1>1, LaunchMoves
<1>3. ASSUME launch[e].pc # "dirs", Gone(e), timer' # timer PROVE Owed /\ ~Owed'
 <2>1. ~stopping /\ e = epoch BY <1>3 DEF Conclude, Cancelled
 <2>2. LaunchOwes BY <1>3, <2>1 DEF LaunchOwes
 <2>3. current = 0 BY <1>3, <2>1 DEF IInv, EpochsInv, LaunchOwns, OneOwner, Live, Gone
 <2>4. \A d \in Epochs : d # 0 BY EpochsType DEF Epochs
 <2> QED BY <1>2, <2>1, <2>2, <2>3, <2>4 DEF Owed, ExitOwes
<1> QED BY <1>2, <1>3

\* The exit of an engine: a restart is scheduled only where one was owed, or by a fault.
LEMMA GoneOwes ==
  ASSUME IInv, EpochsInv, NEW e \in Epochs, Live(e), OnGone(e)
  PROVE  /\ timer' = timer \/ ~Owed'
         /\ proc[e].signalled => (timer' = timer /\ (Owed' => Owed)) \/ (Owed /\ ~Owed')
<1>0. Types /\ OneOwner /\ SignalsKnown /\ LaunchOwns BY DEF IInv, EpochsInv
<1>a. \A d \in Epochs : proc[d] \in ProcState /\ d \in Int /\ d # 0 BY <1>0, EpochsType DEF Types, Epochs
<1> DEFINE p == [proc[e] EXCEPT !.status = "gone"]
<1>1. /\ proc' = [proc EXCEPT ![e] = p] /\ current = e /\ current' = 0
      /\ UNCHANGED <<stopping, epoch, launch>> BY <1>0 DEF OnGone, OneOwner
<1>2. p.terminating = proc[e].terminating BY <1>a DEF ProcState
<1> HIDE DEF p
<1>3. \A d \in Epochs : /\ d # e => proc'[d] = proc[d]
                        /\ proc'[d].terminating = proc[d].terminating BY <1>0, <1>1, <1>2 DEF Types
<1>4. ~ExitOwes' BY <1>a, <1>1 DEF ExitOwes
<1>5. CASE OwesRestart(e)
 <2>1. ~LaunchOwes' BY <1>0, <1>1, <1>5 DEF OwesRestart, LaunchOwes, LaunchOwns
 <2>2. proc[e].signalled => ExitOwes BY <1>0, <1>1, <1>5 DEF OwesRestart, SignalsKnown, ExitOwes
 <2> QED BY <1>4, <2>1, <2>2 DEF Owed
<1>6. CASE ~OwesRestart(e)
 <2>1. timer' = timer BY <1>6 DEF OnGone
 <2>2. ASSUME proc[e].signalled, LaunchOwes' PROVE LaunchOwes
  <3>1. PICK d \in Epochs : d = epoch /\ launch[d].pc \in {"init", "dying"} /\ (Gone(d)' \/ proc'[d].terminating) /\ ~stopping
    BY <1>1, <2>2 DEF LaunchOwes
  <3>2. CASE d # e BY <1>3, <3>1, <3>2 DEF LaunchOwes, Gone
  <3>3. CASE d = e
   <4>1. proc[e].expected => e < epoch BY <1>0 DEF SignalsKnown
   <4>2. ~proc[e].expected BY <1>a, <3>1, <3>3, <4>1
   <4>3. proc[e].terminating BY <1>0, <2>2, <4>2 DEF SignalsKnown
   <4> QED BY <3>1, <3>3, <4>3 DEF LaunchOwes
  <3> QED BY <3>2, <3>3
 <2> QED BY <1>4, <2>1, <2>2 DEF Owed
<1> QED BY <1>5, <1>6

LEMMA BudgetStep ==
  ASSUME IInv, EpochsInv, BrokerHolds, CountTypes, Budget, [Next]_vars PROVE Budget'
<1>0. Types /\ OneOwner /\ SignalsKnown /\ LaunchOwns /\ FreshEngine /\ Unborn /\ ClientsGo
  BY ClientStep DEF IInv, EpochsInv
<1>a. Counts
 <2>1. CountTypes' BY CountTypesStep
 <2>2. faults <= faults' BY FaultsCount DEF CountTypes, Fault
 <2> QED BY <1>0, <2>1, <2>2, BusyGrows, SupervisorAssumption DEF Counts, CountTypes, Types
<1>b. \A e \in Epochs : proc[e] \in ProcState /\ e \in Int /\ e # 0 BY <1>0, EpochsType DEF Types, Epochs
<1>1. CASE Boot
 <2>1. (UNCHANGED <<epoch, timer>> \/ (epoch' = epoch + 1 /\ ~timer')) /\ (Owed' => Owed) BY <1>1, StartOwes DEF Boot
 <2>2. UNCHANGED <<shut, tools, toolsCount>> /\ ~booted /\ booted' BY <1>1 DEF Boot
 <2> QED BY <1>a, <2>1, <2>2 DEF Budget, Counts, B
<1>2. CASE Shutdown
 <2>1. epoch' = epoch + 1 /\ ~timer' /\ ~Owed' BY <1>2, StopOwes DEF Shutdown
 <2>2. UNCHANGED <<booted, tools, toolsCount>> /\ shut = 0 /\ shut' # 0 BY <1>2, <1>a DEF Shutdown, Counts
 <2> QED BY <1>a, <2>1, <2>2 DEF Budget, Counts, B
<1>3. CASE ToolsRestart
 <2>1. epoch' = epoch + 1 /\ ~timer' /\ ~Owed' BY <1>3, StopOwes DEF ToolsRestart
 <2>2. UNCHANGED <<booted, shut>> /\ tools.pc = "idle" /\ tools'.pc = "stopping" /\ toolsCount' = toolsCount + 1
   BY <1>3 DEF ToolsRestart
 <2> QED BY <1>a, <2>1, <2>2 DEF Budget, Counts, B
<1>4. CASE ToolsStart
 <2>1. (UNCHANGED <<epoch, timer>> \/ (epoch' = epoch + 1 /\ ~timer')) /\ (Owed' => Owed)
  <3>1. CASE Overtaken BY <1>4, <3>1 DEF ToolsStart, Owed, ExitOwes, LaunchOwes, Gone
  <3>2. CASE ~Overtaken BY <1>4, <3>2, StartOwes DEF ToolsStart
  <3> QED BY <3>1, <3>2
 <2>2. UNCHANGED <<booted, shut, toolsCount>> /\ tools.pc = "stopping" /\ tools'.pc # "stopping"
   BY <1>4 DEF ToolsStart
 <2> QED BY <1>a, <2>1, <2>2 DEF Budget, Counts, B
<1>c. UNCHANGED <<stopping, epoch, current, launch, proc>> => Owed' = Owed BY DEF Owed, ExitOwes, LaunchOwes, Gone
<1>5. CASE TimerFires
 <2>1. UNCHANGED <<booted, shut, tools, toolsCount>> /\ timer BY <1>5 DEF TimerFires, brokerVars
 <2>2. ~timer' /\ epoch' \in {epoch, epoch + 1} /\ (Owed' => Owed)
  <3>1. CASE Start /\ state = "restarting" BY <1>5, <3>1, StartOwes DEF TimerFires, Start, AlreadyUp
  <3>2. CASE ~timer' /\ UNCHANGED <<stopping, state, epoch, launch>> BY <1>5, <1>c, <3>2 DEF TimerFires
  <3> QED BY <1>5, <3>1, <3>2 DEF TimerFires
 <2> QED BY <1>a, <2>1, <2>2 DEF Budget, Counts, B
<1>6. CASE ToolsStarted \/ ReapDone \/ UNCHANGED vars
  BY <1>6, <1>a, <1>c, BudgetIdle DEF ToolsStarted, ReapDone, vars, superVars, brokerVars
<1>7. ASSUME NEW e \in Epochs, LaunchWaited(e) PROVE Budget'
 <2>1. Owed' => Owed BY <1>7, LaunchMoves DEF LaunchWaited, superVars
 <2> QED BY <1>7, <1>a, <2>1, BudgetIdle DEF LaunchWaited, superVars, brokerVars
<1>8. ASSUME NEW e \in Epochs, LaunchSpawn(e) PROVE Budget'
 <2>1. UNCHANGED <<epoch, timer, stopping, booted, shut, toolsCount, tools>> BY <1>8 DEF LaunchSpawn, brokerVars
 <2>2. CASE Cancelled(e) BY <1>8, <1>a, <2>1, <2>2, LaunchMoves, BudgetIdle DEF LaunchSpawn
 <2>3. CASE ~Cancelled(e)
  <3>1. /\ launch[e].pc = "dirs" /\ e = epoch /\ current' = e
        /\ proc' = [proc EXCEPT ![e].status = "live", ![e].gen = NextGeneration]
    BY <1>8, <2>3 DEF LaunchSpawn, Cancelled
  <3>2. proc'[e].status = "live" /\ ~proc'[e].terminating
   <4> DEFINE p == [proc[e] EXCEPT !.status = "live", !.gen = NextGeneration]
   <4>1. proc' = [proc EXCEPT ![e] = p] BY <3>1
   <4>2. p.status = "live" /\ p.terminating = proc[e].terminating BY <1>b DEF ProcState
   <4>3. ~proc[e].terminating BY <1>0, <3>1 DEF Unborn
   <4> HIDE DEF p
   <4> QED BY <1>0, <4>1, <4>2, <4>3 DEF Types
  <3>3. ~Owed' BY <2>1, <3>1, <3>2 DEF Owed, ExitOwes, LaunchOwes, Gone
  <3> QED BY <1>a, <2>1, <3>3, BudgetIdle
 <2> QED BY <2>2, <2>3
<1>9. ASSUME NEW e \in Epochs, DirsFail(e) \/ LaunchLost(e) PROVE Budget'
 <2>1. /\ Conclude(e) /\ launch[e].pc \in {"dirs", "init", "dying"}
       /\ UNCHANGED <<stopping, epoch, current, proc, booted, shut, toolsCount, tools>>
   BY <1>9 DEF DirsFail, LaunchLost, brokerVars
 <2>2. /\ Owed' => Owed
       /\ timer' = timer \/ launch[e].pc = "dirs" \/ ~Gone(e) \/ (Owed /\ ~Owed') BY <2>1, ConcludeOwes
 <2>3. CASE DirsFail(e) BY <1>a, <2>1, <2>2, <2>3, BudgetFault DEF DirsFail
 <2>4. CASE LaunchLost(e) BY <1>a, <2>1, <2>2, <2>4, BudgetIdle, BudgetScheduled DEF LaunchLost
 <2> QED BY <1>9, <2>3, <2>4
<1>10. ASSUME NEW e \in Epochs, LaunchReady(e) PROVE Budget'
 <2>1. /\ launch[e].pc = "init" /\ current = e /\ launch' = [launch EXCEPT ![e].pc = "done"]
       /\ proc' = [proc EXCEPT ![e].ready = TRUE]
       /\ UNCHANGED <<epoch, timer, stopping, current, booted, shut, toolsCount, tools>>
   BY <1>10 DEF LaunchReady, brokerVars
 <2>2. \A d \in Epochs : /\ d # e => proc'[d] = proc[d] /\ launch'[d] = launch[d]
                         /\ d = e => launch'[d].pc = "done"
                         /\ proc'[d].terminating = proc[d].terminating /\ proc'[d].expected = proc[d].expected
  <3> DEFINE p == [proc[e] EXCEPT !.ready = TRUE]
  <3>1. proc' = [proc EXCEPT ![e] = p] BY <2>1
  <3>2. p.terminating = proc[e].terminating /\ p.expected = proc[e].expected BY <1>b DEF ProcState
  <3> HIDE DEF p
  <3> QED BY <1>0, <2>1, <3>1, <3>2 DEF Types, Launch
 <2>3. ExitOwes' => LaunchOwes BY <1>0, <2>1, <2>2 DEF ExitOwes, LaunchOwes, FreshEngine
 <2>4. LaunchOwes' => LaunchOwes BY <2>1, <2>2 DEF LaunchOwes, Gone
 <2> QED BY <1>a, <2>1, <2>3, <2>4, BudgetIdle DEF Owed
<1>11. ASSUME NEW e \in Epochs, InitFail(e) \/ ServerDied(e) PROVE Budget'
  BY <1>11, <1>a, BudgetFault DEF InitFail, ServerDied, brokerVars
<1>12. ASSUME NEW e \in Epochs, StopStep(e) PROVE Budget'
 <2>1. /\ UNCHANGED <<epoch, timer, stopping, current, launch, booted, shut, toolsCount, tools>>
       /\ UNCHANGED proc \/ proc' = [proc EXCEPT ![stopper[e].target].signalled = TRUE]
   BY <1>12 DEF StopStep, StopSignal, StopExited, StopDone, superVars, brokerVars
 <2>2. \A d \in Epochs : /\ proc'[d].status = proc[d].status /\ proc'[d].ready = proc[d].ready
                         /\ proc'[d].terminating = proc[d].terminating /\ proc'[d].expected = proc[d].expected
  <3>1. CASE UNCHANGED proc BY <3>1
  <3>2. CASE proc' = [proc EXCEPT ![stopper[e].target].signalled = TRUE] BY <1>0, <1>b, <3>2 DEF Types, ProcState
  <3> QED BY <2>1, <3>1, <3>2
 <2>3. Owed' => Owed BY <2>1, <2>2 DEF Owed, ExitOwes, LaunchOwes, Gone
 <2> QED BY <1>a, <2>1, <2>3, BudgetIdle
<1>13. ASSUME NEW e \in Epochs, Exit(e) \/ Crash(e) PROVE Budget'
 <2>1. Live(e) /\ OnGone(e) /\ UNCHANGED <<epoch, booted, shut, toolsCount, tools>>
   BY <1>13 DEF Exit, Crash, OnGone, brokerVars
 <2>2. /\ timer' = timer \/ ~Owed'
       /\ proc[e].signalled => (timer' = timer /\ (Owed' => Owed)) \/ (Owed /\ ~Owed') BY <2>1, GoneOwes
 <2>3. CASE Crash(e) BY <1>a, <2>1, <2>2, <2>3, BudgetFault DEF Crash
 <2>4. CASE Exit(e) BY <1>a, <2>1, <2>2, <2>4, BudgetIdle, BudgetScheduled DEF Exit
 <2> QED BY <1>13, <2>3, <2>4
\* An unavailable engine is started again: the request that found it so pays.
<1>14. ASSUME NEW c \in Clients, WhenReady(c) PROVE Budget'
 <2>1. UNCHANGED <<current, proc, booted, shut, toolsCount, tools>> BY <1>14 DEF WhenReady, brokerVars
 <2>2. CASE UNCHANGED <<stopping, timer, state, epoch, restarts, launch>> BY <1>a, <1>c, <2>1, <2>2, BudgetIdle
 <2>3. CASE Start /\ To(c, "waiting")
  <3>1. (UNCHANGED <<epoch, timer>> \/ (epoch' = epoch + 1 /\ ~timer')) /\ (Owed' => Owed) BY <2>1, <2>3, StartOwes
  <3>2. Cardinality(Busy) + 1 <= Cardinality(Busy)'
   <4>1. client[c].pc = "idle" /\ client[c] \in ClientRec /\ client \in [Clients -> ClientRec]
     BY <1>14 DEF WhenReady, CountTypes
   <4>2. client'[c].pc = "waiting" BY <2>3, <4>1 DEF To, ClientRec
   <4> QED BY <1>0, <4>1, <4>2, BusyGrows
  <3> QED BY <1>a, <2>1, <3>1, <3>2 DEF Budget, Counts, B
 <2> QED BY <1>14, <2>2, <2>3 DEF WhenReady
<1>15. ASSUME NEW c \in Clients, WaitTimeout(c) \/ Call(c) \/ Answer(c) PROVE Budget'
  BY <1>15, <1>a, <1>c, BudgetIdle DEF WaitTimeout, Call, Answer, superVars, brokerVars
<1> QED BY <1>1, <1>2, <1>3, <1>4, <1>5, <1>6, <1>7, <1>8, <1>9, <1>10, <1>11, <1>12, <1>13, <1>14, <1>15 DEF Next,
     LaunchStep

LEMMA EnoughEpochs ==
  ASSUME NEW n \in Nat, NEW t \in 0..MaxToolsRestarts, NEW f \in 0..MaxFaults, NEW C \in SUBSET Clients,
         n <= 2 + 2 * t + f + Cardinality(C)
  PROVE  n <= MaxEpoch
<1>1. IsFiniteSet(Clients) /\ IsFiniteSet(C) BY SupervisorAssumption, FS_Subset
<1>2. Cardinality(C) \in Nat /\ Cardinality(Clients) \in Nat /\ Cardinality(C) <= Cardinality(Clients)
  BY <1>1, FS_Subset, FS_CardinalityType
<1>3. MaxToolsRestarts \in Nat /\ MaxFaults \in Nat BY SupervisorAssumption
<1> QED BY <1>2, <1>3 DEF MaxEpoch

LEMMA BudgetBounds == CountTypes /\ Types /\ Budget => epoch <= MaxEpoch
<1> SUFFICES ASSUME CountTypes, Types, Budget PROVE epoch <= MaxEpoch OBVIOUS
<1>1. IsFiniteSet(Busy) /\ Busy \subseteq Clients BY SupervisorAssumption, FS_Subset DEF Busy
<1>2. /\ epoch \in Nat /\ Cardinality(Busy) \in Nat
      /\ toolsCount \in 0..MaxToolsRestarts /\ faults \in 0..MaxFaults
      /\ MaxToolsRestarts \in Nat /\ MaxFaults \in Nat
  BY <1>1, SupervisorAssumption, FS_CardinalityType DEF CountTypes, Types
<1>3. epoch <= 2 + 2 * toolsCount + faults + Cardinality(Busy) BY <1>2 DEF Budget, B
<1> QED BY <1>1, <1>2, <1>3, EnoughEpochs

\* The step of the invariant: the epoch that was taken is one that was left.
LEMMA BudgetBoundsNext == CountTypes' /\ Types' /\ Budget' => epoch' <= MaxEpoch
<1> SUFFICES ASSUME CountTypes', Types', Budget' PROVE epoch' <= MaxEpoch OBVIOUS
<1>1. IsFiniteSet(Busy') /\ Busy' \subseteq Clients BY SupervisorAssumption, FS_Subset DEF Busy
<1>2. /\ epoch' \in Nat /\ Cardinality(Busy') \in Nat
      /\ toolsCount' \in 0..MaxToolsRestarts /\ faults' \in 0..MaxFaults
      /\ MaxToolsRestarts \in Nat /\ MaxFaults \in Nat
  BY <1>1, SupervisorAssumption, FS_CardinalityType DEF CountTypes, Types
<1>3. epoch' <= 2 + 2 * toolsCount' + faults' + Cardinality(Busy') BY <1>2 DEF Budget, B
<1> QED BY <1>1, <1>2, <1>3, EnoughEpochs

\* The whole of the strengthening.
PaidInv == IInv /\ EpochsInv /\ BrokerHolds /\ CountTypes /\ Budget

LEMMA PaidInit == Init => PaidInv
<1> SUFFICES ASSUME Init PROVE PaidInv OBVIOUS
<1>1. epoch = 0 /\ current = 0 /\ ~timer /\ ~stopping /\ state = "stopped" /\ generation = 0
      /\ ~booted /\ shut = 0 /\ tools.pc = "idle" /\ toolsCount = 0 /\ faults = 0
      /\ booted \in BOOLEAN /\ timer \in BOOLEAN /\ stopping \in BOOLEAN BY DEF Init
<1>2. /\ launch = [e \in Epochs |-> [pc |-> "none", prev |-> 0]]
      /\ stopper = [e \in Epochs |-> [pc |-> "none", target |-> 0]]
      /\ client = [c \in Clients |-> [pc |-> "idle", on |-> 0]] BY DEF Init
<1>3. proc \in [Epochs -> ProcState]
      /\ \A e \in Epochs : /\ proc[e].status = "none" /\ ~proc[e].ready /\ ~proc[e].terminating
                           /\ ~proc[e].expected /\ ~proc[e].signalled BY DEF Init, ProcState
<1>4. \A e \in Epochs : e # 0 BY EpochsType DEF Epochs
<1>5. launch \in [Epochs -> Launch] /\ \A e \in Epochs : launch[e].pc = "none" BY <1>2 DEF Launch, Pcs
<1>6. /\ stopper \in [Epochs -> [pc : StopPcs, target : Epochs \cup {0}]]
      /\ \A e \in Epochs : stopper[e].pc = "none" /\ stopper[e].target = 0 BY <1>2 DEF StopPcs
<1>7. client \in [Clients -> ClientRec] /\ \A c \in Clients : client[c].pc = "idle" BY <1>2 DEF ClientRec, ClientPcs
<1>8. IInv BY <1>1, <1>3, <1>5 DEF IInv, Types, OneOwner, LaunchesFollow, Live
<1>9. EpochsInv
  BY <1>1, <1>3, <1>4, <1>5, <1>6 DEF EpochsInv, StopTypes, SignalsKnown, StopsApart, Unborn, LaunchOwns, FreshEngine,
     StopHolds
<1>10. BrokerHolds /\ CountTypes BY <1>1, <1>7, SupervisorAssumption DEF BrokerHolds, CountTypes
<1>11. Budget
 <2>1. Busy = {} /\ ~Owed BY <1>1, <1>4, <1>5, <1>7 DEF Busy, Owed, ExitOwes, LaunchOwes
 <2>2. Cardinality(Busy) = 0 BY <2>1, FS_EmptySet
 <2> QED BY <1>1, <2>1, <2>2 DEF Budget, B
<1> QED BY <1>8, <1>9, <1>10, <1>11 DEF PaidInv

LEMMA PaidStep == PaidInv /\ [Next]_vars => PaidInv'
BY InvStep, EpochsStep, BrokerStep, CountTypesStep, BudgetStep, BudgetBounds DEF PaidInv, IInv

\* The epochs never run out: however long the runtime runs, it starts and stops
\* the engine at most once at boot and shutdown, twice for each restart() and once
\* for each fault and for each request (#scheduleRestart, whenReady).  So MaxEpoch
\* bounds nothing but the inputs, and a restart nobody asked for cannot happen.
THEOREM RestartsArePaidFor == Spec => [](epoch <= MaxEpoch)
<1>1. PaidInv => epoch <= MaxEpoch BY BudgetBounds DEF PaidInv, IInv
<1> QED BY <1>1, PaidInit, PaidStep, PTL DEF Spec

--------------------
\* The shutdown.

\* Once the broker shuts down nobody takes another epoch: the stop() is the last
\* call there is, and a restart for the tools that waits is behind it.
ShutLast ==
    shut # 0 => /\ stopping /\ shut = epoch /\ stopper[shut].pc # "none"
                /\ tools.pc = "stopping" => tools.at < shut

LEMMA StoppersStay ==
  ASSUME EpochsInv, [Next]_vars, NEW e \in Epochs, stopper[e].pc # "none", Stop => e # epoch + 1
  PROVE  stopper'[e].pc # "none"
<1>0. stopper \in [Epochs -> [pc : StopPcs, target : Epochs \cup {0}]] BY DEF EpochsInv, StopTypes
<1>1. CASE UNCHANGED stopper BY <1>1
<1>2. ASSUME NEW d \in Epochs, NEW pc \in {"kill", "reap", "done"}, stopper' = [stopper EXCEPT ![d].pc = pc]
      PROVE  stopper'[e].pc # "none" BY <1>0, <1>2
<1>3. CASE Stop BY <1>0, <1>3 DEF Stop
<1> QED
  BY <1>1, <1>2, <1>3 DEF Next, vars, Boot, Shutdown, ToolsRestart, ToolsStart, ToolsStarted, TimerFires, ReapDone,
     LaunchStep, LaunchWaited, LaunchSpawn, DirsFail, LaunchReady, InitFail, LaunchLost, StopStep, StopSignal,
     StopExited, StopDone, ServerDied, Exit, Crash, OnGone, WhenReady, WaitTimeout, Call, Answer

LEMMA ShutStep == PaidInv /\ ShutLast /\ [Next]_vars => ShutLast'
<1> SUFFICES ASSUME PaidInv, ShutLast, [Next]_vars, shut' # 0
             PROVE  /\ stopping' /\ shut' = epoch' /\ stopper'[shut'].pc # "none"
                    /\ tools'.pc = "stopping" => tools'.at < shut' BY DEF ShutLast
<1>0. /\ epoch \in Nat /\ epoch <= MaxEpoch /\ epoch' <= MaxEpoch /\ MaxEpoch \in Nat /\ shut \in Nat
      /\ Types /\ StopTypes /\ StopsApart /\ StopHolds /\ EpochsInv /\ PaidInv'
      /\ tools.pc = "stopping" => tools.at \in 1..epoch
 <2>1. PaidInv' /\ IInv /\ EpochsInv /\ BrokerHolds /\ CountTypes /\ Budget /\ Types BY PaidStep DEF PaidInv, IInv
 <2>2. epoch <= MaxEpoch BY <2>1, BudgetBounds
 <2>3. epoch' <= MaxEpoch BY <2>1, BudgetBoundsNext DEF PaidInv, IInv
 <2>4. epoch \in Nat /\ shut \in Nat BY <2>1 DEF Types, CountTypes
 <2> QED BY <2>1, <2>2, <2>3, <2>4, EpochsType DEF EpochsInv, BrokerHolds
<1>1. CASE shut = 0
 <2>1. Shutdown BY <1>1, BrokerAlone DEF Boot, ToolsRestart, ToolsStart, ToolsStarted
 <2>2. shut' = epoch + 1 /\ epoch' = epoch + 1 /\ stopping' /\ tools' = tools BY <2>1 DEF Shutdown, Stop
 <2>3. epoch + 1 \in Epochs BY <1>0, <2>2 DEF Epochs
 <2>4. stopper'[epoch + 1].pc # "none"
  <3>1. CASE current = 0 BY <1>0, <2>1, <2>3, <3>1 DEF Shutdown, Stop, StopTypes
  <3>2. CASE current # 0 BY <1>0, <2>1, <2>3, <3>2 DEF Shutdown, Stop, StopTypes
  <3> QED BY <3>1, <3>2
 <2> QED BY <1>0, <2>2, <2>4
<1>2. CASE shut # 0
 <2>1. stopping /\ shut = epoch /\ stopper[shut].pc # "none" /\ (tools.pc = "stopping" => tools.at < shut)
   BY <1>2 DEF ShutLast
 <2>2. ~timer /\ state # "unavailable" /\ ~Boot /\ ~Shutdown /\ ~ToolsRestart
   BY <1>0, <1>2, <2>1 DEF StopHolds, Boot, Shutdown, ToolsRestart
 <2>3. ToolsStart => Overtaken BY <1>0, <2>1 DEF ToolsStart, Overtaken
 <2>4. UNCHANGED <<stopping, epoch>>
   BY <2>2, <2>3 DEF Next, vars, superVars, ToolsStart, ToolsStarted, TimerFires, ReapDone, LaunchStep, LaunchWaited,
      LaunchSpawn, LaunchReady, DirsFail, InitFail, LaunchLost, StopStep, StopSignal, StopExited, StopDone,
      ServerDied, Exit, Crash, OnGone, WhenReady, WaitTimeout, Call, Answer
 <2>5. shut' = shut /\ (tools'.pc = "stopping" => tools' = tools) BY <2>2, BrokerAlone DEF ToolsStart, ToolsStarted
 <2>6. shut \in Epochs BY <1>0, <1>2, <2>1 DEF Epochs
 <2>7. ~Stop BY <1>0, <2>4 DEF Stop
 <2>8. stopper'[shut].pc # "none" BY <1>0, <2>1, <2>6, <2>7, StoppersStay
 <2> QED BY <2>1, <2>4, <2>5, <2>8
<1> QED BY <1>1, <1>2

\* When the shutdown's stop() has resolved no engine lives, no timer is set and
\* every launch that has not spawned will find itself cancelled: a launch that was
\* between its awaits when the stop() came, a restart for the tools that waited
\* behind it or a request that found the engine unavailable leave nothing.
THEOREM ShutdownLeavesNothing == Spec => []NothingLeftBehind
<1>1. Init => ShutLast BY DEF Init, ShutLast
<1>2. PaidInv /\ ShutLast => NothingLeftBehind
 <2> SUFFICES ASSUME PaidInv, ShutLast, shut # 0, stopper[shut].pc = "done"
              PROVE  /\ \A e \in Epochs : ~Live(e)
                     /\ ~timer
                     /\ \A e \in Epochs : Cancelled(e) BY DEF NothingLeftBehind
 <2>1. stopping /\ shut = epoch BY DEF ShutLast
 <2>2. shut \in Epochs BY <2>1, BudgetBounds, EpochsType DEF PaidInv, IInv, Types, CountTypes, Epochs
 <2>3. current = 0 /\ ~timer BY <2>1, <2>2 DEF PaidInv, EpochsInv, StopHolds
 <2>4. \A e \in Epochs : e # 0 BY EpochsType DEF Epochs
 <2>5. \A e \in Epochs : ~Live(e) BY <2>3, <2>4 DEF PaidInv, IInv, OneOwner
 <2> QED BY <2>1, <2>3, <2>5 DEF Cancelled
<1> QED BY <1>1, <1>2, PaidInit, PaidStep, ShutStep, PTL DEF Spec
===============================================================================
