-------------------------- MODULE Lifecycles_proofs --------------------------
(***************************************************************************)
(* Proofs about the lives of the two processes: the engine                 *)
(* (EngineLifecycle) and the Electron program that starts, restarts and    *)
(* kills the backend it runs in (Supervisor).  The two parts are           *)
(* independent of each other.                                              *)
(*                                                                         *)
(* EngineLifecycle, for every number of sessions: its type invariant, the  *)
(* shutdown gate as ShutdownContract states it, and that a shutdown leaves *)
(* nothing of the session behind.                                          *)
(*                                                                         *)
(* Supervisor, for any number of starts, backend processes, restarts and   *)
(* exits: NoOrphan says of a live backend that backendProcess names it.    *)
(* An exit, a failed start and a new start all overwrite backendProcess    *)
(* without looking at it, so what must be known is that they never meet:   *)
(* there is one thing at a time that leads to a backend, be it the restart *)
(* timer, a start that has not spawned, or a process with its exit         *)
(* listener (One).                                                         *)
(***************************************************************************)
EXTENDS EngineLifecycle, Supervisor, TLAPS

-----------------------------------------------------------------------------
(* EngineLifecycle *)

(* The steps of shutdown that come after the wait for mutations. *)
Drained == {"power", "timer", "ifeo", "procs", "critical", "release", "over"}

(* The steps that come after the one that restores r. *)
After(r) == CASE r = "power"    -> Drained \ {"power"}
              [] r = "timer"    -> Drained \ {"power", "timer"}
              [] r = "ifeo"     -> {"procs", "critical", "release", "over"}
              [] r = "procs"    -> {"critical", "release", "over"}
              [] r = "critical" -> {"release", "over"}

-----------------------------------------------------------------------------
(* The gate.  A monitor thread inside a mutation is the one that is counted; it exists    *)
(* only once run is over, so that starting it finds no mutation under way; the gate is     *)
(* closed exactly while a shutdown is under way or over; and past the wait no mutation    *)
(* is under way.  A machine without an engine process has no handler and no shutdown.     *)
Counted   == active = IF mon = "tune" THEN 1 ELSE 0
Begun     == mon # "off" => main \in {"up", "finally", "shutdown", "exited"}
Closed    == done <=> sd.step # "none"
Idling    == sd.step \in Drained => mon # "tune"
Vacant    == main = "down" => ~installed /\ ~done
GateInv   == TypeOK /\ Counted /\ Begun /\ Closed /\ Idling /\ Vacant

LEMMA NotYetType ==
  NotYet \in [by : {"nobody", "main", "handler"},
              step : {"none", "drain", "power", "timer", "ifeo", "procs", "critical", "release", "over"}]
  BY DEF NotYet

LEMMA InitGate == Init => GateInv
<1> SUFFICES ASSUME Init PROVE GateInv
  OBVIOUS
<1>1. TypeOK
  <2>1. active \in 0..1 /\ boots \in 0..MaxBoot
    BY LifecycleAssumption DEF Init
  <2>2. changed \subseteq Resources /\ logged \subseteq OnRecord
        /\ mine \subseteq own /\ own \subseteq Resources
    BY DEF Init
  <2> QED
    BY <2>1, <2>2, NotYetType, Zenon DEF Init, TypeOK
<1>2. Counted /\ Begun /\ Idling /\ Vacant
  BY DEF Init, Counted, Begun, Idling, Vacant, NotYet, Drained
<1>3. Closed
  BY DEF Init, Closed, NotYet
<1> QED
  BY <1>1, <1>2, <1>3 DEF GateInv

LEMMA RunKeepsGate == GateInv /\ (Start \/ Run \/ MainStops) => GateInv'
<1> SUFFICES ASSUME GateInv, Start \/ Run \/ MainStops PROVE GateInv'
  OBVIOUS
<1> USE LifecycleAssumption DEF GateInv, TypeOK, Counted, Begun, Closed, Idling, Vacant, Drained, Resources, OnRecord
<1>1. CASE Start
  BY <1>1 DEF Start
<1>2. CASE RunEnter
  BY <1>2 DEF RunEnter
<1>3. CASE RunRecover
  BY <1>3 DEF RunRecover
<1>4. CASE RunRefuses
  BY <1>4 DEF RunRefuses
<1>5. CASE RunTimer
  BY <1>5 DEF RunTimer, RunChanges
<1>6. CASE RunIfeo
  BY <1>6 DEF RunIfeo, RunChanges
<1>7. CASE RunBackup
  BY <1>7 DEF RunBackup
<1>8. CASE RunCritical
  BY <1>8 DEF RunCritical, RunChanges
<1>9. CASE RunMonitor
  BY <1>9 DEF RunMonitor
<1>10. CASE MainStops
  BY <1>10 DEF MainStops
<1> QED
  BY <1>1, <1>2, <1>3, <1>4, <1>5, <1>6, <1>7, <1>8, <1>9, <1>10 DEF Run

LEMMA StoppingKeepsGate == GateInv /\ (Stopping \/ HandlerShutdown \/ Restore) => GateInv'
<1> SUFFICES ASSUME GateInv, Stopping \/ HandlerShutdown \/ Restore PROVE GateInv'
  OBVIOUS
<1> USE DEF GateInv, TypeOK, Counted, Begun, Closed, Idling, Vacant, Drained, Resources, OnRecord
<1>1. CASE MainShutdown
  <2>1. CASE done
    BY <1>1, <2>1 DEF MainShutdown
  <2>2. CASE ~done
    BY <1>1, <2>2 DEF MainShutdown, Begins
  <2> QED
    BY <2>1, <2>2
<1>2. CASE MainReturns
  BY <1>2 DEF MainReturns
<1>3. CASE HandlerShutdown
  BY <1>3 DEF HandlerShutdown, Begins
<1>4. CASE SdDrain
  BY <1>4 DEF SdDrain, SdGo
<1>5. CASE SdPower
  BY <1>5 DEF SdPower, SdGo
<1>6. CASE SdTimer
  BY <1>6 DEF SdTimer, SdRestores, SdGo
<1>7. CASE SdIfeo
  BY <1>7 DEF SdIfeo, SdRestores, SdGo
<1>8. CASE SdProcs
  BY <1>8 DEF SdProcs, SdGo
<1>9. CASE SdCritical
  BY <1>9 DEF SdCritical, SdRestores, SdGo
<1>10. CASE SdRelease
  BY <1>10 DEF SdRelease, SdGo
<1> QED
  BY <1>1, <1>2, <1>3, <1>4, <1>5, <1>6, <1>7, <1>8, <1>9, <1>10 DEF Stopping, Restore

LEMMA MonitorKeepsGate == GateInv /\ Monitor => GateInv'
<1> SUFFICES ASSUME GateInv, Monitor PROVE GateInv'
  OBVIOUS
<1> USE DEF GateInv, TypeOK, Counted, Begun, Closed, Idling, Vacant, Drained, Resources, OnRecord, MonGo
<1>1. CASE MonCycle
  BY <1>1 DEF MonCycle
<1>8. CASE MonStop
  BY <1>8 DEF MonStop
<1>9. CASE MonCycleEnd
  BY <1>9 DEF MonCycleEnd
<1>2. CASE TuneBegin
  BY <1>2 DEF TuneBegin
<1>3. CASE Tune
  BY <1>3 DEF Tune
<1>4. CASE TuneRecord
  BY <1>4 DEF TuneRecord
<1>5. CASE SwitchRecord
  BY <1>5 DEF SwitchRecord
<1>6. CASE Switch
  BY <1>6 DEF Switch
<1>7. CASE LeaveGameMode
  BY <1>7 DEF LeaveGameMode
<1> QED
  BY <1>1, <1>2, <1>3, <1>4, <1>5, <1>6, <1>7, <1>8, <1>9 DEF Monitor

LEMMA EndKeepsGate == GateInv /\ (Crash \/ Exited \/ SecondStart) => GateInv'
<1> SUFFICES ASSUME GateInv, Crash \/ Exited \/ SecondStart PROVE GateInv'
  OBVIOUS
<1>1. CASE ProcessGone
  <2>1. TypeOK'
    <3>1. active' \in 0..1 /\ boots' \in 0..MaxBoot
      BY <1>1 DEF ProcessGone, GateInv, TypeOK
    <3>2. changed' \subseteq Resources /\ logged' \subseteq OnRecord
          /\ mine' \subseteq own' /\ own' \subseteq Resources
      BY <1>1 DEF ProcessGone, GateInv, TypeOK
    <3> QED
      BY <1>1, <3>1, <3>2, NotYetType, Zenon DEF ProcessGone, TypeOK
  <2>2. Counted' /\ Begun' /\ Idling' /\ Vacant'
    BY <1>1 DEF ProcessGone, Counted, Begun, Idling, Vacant, NotYet, Drained
  <2>3. Closed'
    BY <1>1 DEF ProcessGone, Closed, NotYet
  <2> QED
    BY <2>1, <2>2, <2>3 DEF GateInv
<1>2. CASE SecondStart
  BY <1>2 DEF SecondStart, GateInv, TypeOK, Counted, Begun, Closed, Idling, Vacant, OnRecord
<1> QED
  BY <1>1, <1>2 DEF Crash, Exited

LEMMA StutterKeepsGate == GateInv /\ UNCHANGED vars => GateInv'
  BY DEF vars, GateInv, TypeOK, Counted, Begun, Closed, Idling, Vacant

(* Gate invariant and type invariant of the engine process, for any number of sessions. *)
THEOREM GateInvariant == Spec => []GateInv
<1>1. GateInv /\ [Next]_vars => GateInv'
  BY RunKeepsGate, StoppingKeepsGate, MonitorKeepsGate, EndKeepsGate, StutterKeepsGate DEF Next
<1> QED
  BY <1>1, InitGate, PTL DEF Spec

THEOREM TypeCorrect == Spec => []TypeOK
<1>1. GateInv => TypeOK
  BY DEF GateInv
<1> QED
  BY <1>1, GateInvariant, PTL

-----------------------------------------------------------------------------
(* The contract.  A step that changes neither the shutdown step nor whether a mutation is *)
(* under way, and neither starts nor ends the process, is a stutter of the contract; the   *)
(* others are its actions, one for one.  What closes the gate stays in sd until the        *)
(* process is gone, so that no step of a living process opens it again.                    *)
Living == main # "down"
Aside == UNCHANGED <<sd, active>> /\ (Living' <=> Living)

LEMMA AsideStutters == Aside => UNCHANGED Contract!vars
  BY DEF Aside, Living, Contract!vars, Phase, Busy

LEMMA RunImplements ==
  GateInv /\ (Start \/ Run \/ MainStops) => Contract!Next \/ UNCHANGED Contract!vars
<1>1. Start => Contract!Begin
  BY DEF Start, Contract!Begin, Phase, Busy
<1>2. Run \/ MainStops => Aside
  BY DEF Aside, Living, Run, RunEnter, RunRecover, RunRefuses, RunTimer, RunIfeo, RunBackup,
         RunCritical, RunMonitor, RunChanges, MainStops
<1> QED
  BY <1>1, <1>2, AsideStutters DEF Contract!Next

LEMMA CloseSteps ==
  GateInv /\ ~done /\ Living /\ Living' /\ sd'.step = "drain" /\ UNCHANGED active => Contract!Close
  BY DEF GateInv, Closed, Living, Contract!Close, Phase, Busy

LEMMA StoppingImplements ==
  GateInv /\ (Stopping \/ HandlerShutdown \/ Restore) => Contract!Next \/ UNCHANGED Contract!vars
<1> SUFFICES ASSUME GateInv, Stopping \/ HandlerShutdown \/ Restore
             PROVE  Contract!Next \/ UNCHANGED Contract!vars
  OBVIOUS
<1>a. Restore => Living /\ Living'
  BY DEF GateInv, Closed, Vacant, Living, Restore, SdDrain, SdPower, SdTimer, SdIfeo, SdProcs, SdCritical,
         SdRelease, SdRestores
<1>1. CASE MainShutdown
  <2>1. CASE done
    BY <1>1, <2>1, AsideStutters DEF MainShutdown, Aside, Living
  <2>2. CASE ~done
    BY <1>1, <2>2, CloseSteps DEF MainShutdown, Begins, Living, Contract!Next
  <2> QED
    BY <2>1, <2>2
<1>2. CASE MainReturns
  BY <1>2, AsideStutters DEF MainReturns, Aside, Living
<1>3. CASE HandlerShutdown
  BY <1>3, CloseSteps DEF HandlerShutdown, Begins, GateInv, Vacant, Living, Contract!Next
<1>4. CASE SdDrain
  BY <1>4, <1>a DEF SdDrain, SdGo, GateInv, TypeOK, Restore, Living, Contract!Next, Contract!Drain, Phase, Busy
<1>5. CASE SdPower \/ SdTimer \/ SdIfeo \/ SdProcs \/ SdCritical
  <2>1. /\ sd.step \notin {"none", "drain", "over"} /\ sd'.step \notin {"none", "drain", "over"}
        /\ UNCHANGED active
    BY <1>5 DEF SdPower, SdTimer, SdIfeo, SdProcs, SdCritical, SdRestores, SdGo, GateInv, TypeOK
  <2>2. Phase = "drained" /\ Phase' = "drained"
    BY <2>1 DEF Phase
  <2> QED
    BY <1>5, <1>a, <2>1, <2>2 DEF Restore, Living, Contract!vars, Busy
<1>6. CASE SdRelease
  BY <1>6, <1>a DEF SdRelease, SdGo, GateInv, TypeOK, Restore, Living, Contract!Next, Contract!Restored, Phase, Busy
<1> QED
  BY <1>1, <1>2, <1>3, <1>4, <1>5, <1>6 DEF Stopping, Restore

LEMMA MonitorImplements == GateInv /\ Monitor => Contract!Next \/ UNCHANGED Contract!vars
<1> SUFFICES ASSUME GateInv, Monitor PROVE Contract!Next \/ UNCHANGED Contract!vars
  OBVIOUS
<1>a. Living /\ Living'
  BY DEF Monitor, MonCycle, MonStop, MonCycleEnd, TuneBegin, Tune, TuneRecord, SwitchRecord, Switch,
         LeaveGameMode, GateInv, Begun, Living
<1>1. CASE TuneBegin
  BY <1>1, <1>a DEF TuneBegin, MonGo, GateInv, Counted, Closed, Living, Contract!Next, Contract!Tune, Phase, Busy
<1>2. CASE Tune
  BY <1>2, <1>a DEF Tune, MonGo, GateInv, Counted, Living, Contract!Next, Contract!Settle, Phase, Busy
<1>3. CASE ~TuneBegin /\ ~Tune
  BY <1>3, <1>a, AsideStutters DEF Monitor, MonCycle, MonStop, MonCycleEnd, TuneRecord, SwitchRecord,
                             Switch, LeaveGameMode, Aside
<1> QED
  BY <1>1, <1>2, <1>3

LEMMA EndImplements ==
  GateInv /\ (Crash \/ Exited \/ SecondStart) => Contract!Next \/ UNCHANGED Contract!vars
<1>1. ProcessGone /\ Living => Contract!End
  BY DEF ProcessGone, Living, NotYet, Contract!End, Phase, Busy
<1>2. SecondStart => Aside
  BY DEF SecondStart, Aside, Living
<1>3. Crash \/ Exited => ProcessGone /\ Living
  BY DEF Crash, Exited, Living
<1> QED
  BY <1>1, <1>2, <1>3, AsideStutters DEF Contract!Next

(* runtime.py:161-177, 569-605: the engine process implements the shutdown contract: restore *)
(* steps only after the drain, and no step of the process reopens a gate it has closed.      *)
THEOREM GateRefinement == Spec => GateContract
<1>1. Init => Contract!Init
  BY DEF Init, NotYet, Contract!Init, Phase, Busy
<1>2. GateInv /\ [Next]_vars => [Contract!Next]_Contract!vars
  <2>1. UNCHANGED vars => Aside
    BY DEF vars, Aside, Living
  <2> QED
    BY <2>1, AsideStutters, RunImplements, StoppingImplements, MonitorImplements, EndImplements DEF Next
<1> QED
  BY <1>1, <1>2, GateInvariant, PTL DEF Spec, GateContract, Contract!Spec

-----------------------------------------------------------------------------
(* Nothing is left behind.  The session remembers whatever it changed and has not changed *)
(* back; a shutdown that began after the start finds run over and, unless the monitor     *)
(* outlived the join, the monitor gone; and what a step has restored is not changed again.*)
Remembered == own \cap changed \subseteq mine
StartOver  == done /\ ~early => main \in {"up", "finally", "shutdown", "exited"}
MonGone    == sd.step \in Drained /\ ~early /\ ~raced => mon = "off"
StepsDone  == ~early =>
  \A r \in Resources : sd.step \in After(r) => r \notin mine \/ (r = "power" /\ raced)
RestoreInv == GateInv /\ Remembered /\ StartOver /\ MonGone /\ StepsDone

LEMMA AfterIsDrained == \A r \in Resources : After(r) \subseteq Drained
  BY DEF After, Drained, Resources

LEMMA NoStepYet == \A r \in Resources : "none" \notin After(r) /\ "drain" \notin After(r)
  BY DEF After, Drained, Resources

LEMMA InitRestore == Init => RestoreInv
<1> SUFFICES ASSUME Init PROVE RestoreInv
  OBVIOUS
<1>1. GateInv
  BY InitGate
<1>2. Remembered /\ MonGone
  BY DEF Init, Remembered, MonGone
<1>3. StartOver
  BY DEF Init, StartOver
<1>4. StepsDone
  BY DEF Init, StepsDone
<1> QED
  BY <1>1, <1>2, <1>3, <1>4 DEF RestoreInv

(* Before shutdown has begun, or where it began too early, only Remembered is at stake. *)
LEMMA RunKeepsRestore == RestoreInv /\ (Start \/ Run \/ MainStops) => RestoreInv'
<1> SUFFICES ASSUME RestoreInv, Start \/ Run \/ MainStops PROVE RestoreInv'
  OBVIOUS
<1>1. GateInv'
  BY RunKeepsGate DEF RestoreInv
<1>2. Remembered'
  <2> USE DEF RestoreInv, Remembered
  <2>1. CASE RunRecover
    BY <2>1 DEF RunRecover
  <2>2. CASE RunTimer \/ RunIfeo \/ RunCritical
    BY <2>2 DEF RunTimer, RunIfeo, RunCritical, RunChanges
  <2>3. CASE UNCHANGED <<own, changed, mine>>
    BY <2>3
  <2> QED
    BY <2>1, <2>2, <2>3 DEF Start, Run, RunEnter, RunRefuses, RunBackup, RunMonitor, MainStops
<1>3. UNCHANGED <<done, sd, early, raced>>
  BY DEF Start, Run, RunEnter, RunRecover, RunRefuses, RunTimer, RunIfeo, RunBackup,
         RunCritical, RunMonitor, RunChanges, MainStops
<1>4. MainStops \/ main \notin {"up", "finally", "shutdown", "exited"}
  BY DEF Start, Run, RunEnter, RunRecover, RunRefuses, RunTimer, RunIfeo, RunBackup,
         RunCritical, RunMonitor, RunChanges
<1>5. CASE MainStops
  BY <1>1, <1>2, <1>3, <1>5 DEF MainStops, RestoreInv, StartOver, MonGone, StepsDone
<1>6. CASE main \notin {"up", "finally", "shutdown", "exited"}
  <2>1. ~done \/ early
    BY <1>6 DEF RestoreInv, StartOver
  <2>2. sd.step = "none" \/ early
    BY <2>1 DEF RestoreInv, GateInv, Closed
  <2>3. StartOver'
    BY <1>3, <2>1 DEF StartOver
  <2>4. MonGone'
    BY <1>3, <2>2 DEF MonGone, Drained
  <2>5. StepsDone'
    BY <1>3, <2>2, NoStepYet DEF StepsDone
  <2> QED
    BY <1>1, <1>2, <2>3, <2>4, <2>5 DEF RestoreInv
<1> QED
  BY <1>4, <1>5, <1>6

(* One step of shutdown more: only the resource it restores is added to those done. *)
LEMMA Progress == \A r \in Resources :
    /\ "power" \notin After(r)
    /\ "timer"    \in After(r) => r = "power"
    /\ "ifeo"     \in After(r) => "timer" \in After(r) \/ r = "timer"
    /\ "procs"    \in After(r) => "ifeo" \in After(r) \/ r = "ifeo"
    /\ "critical" \in After(r) => "procs" \in After(r) \/ r = "procs"
    /\ "release"  \in After(r) => "critical" \in After(r) \/ r = "critical"
    /\ "over"     \in After(r) => "release" \in After(r)
  BY DEF After, Drained, Resources

LEMMA BeginKeepsRestore == RestoreInv /\ (Stopping \/ HandlerShutdown) => RestoreInv'
<1> SUFFICES ASSUME RestoreInv, Stopping \/ HandlerShutdown PROVE RestoreInv'
  OBVIOUS
<1>1. GateInv'
  BY StoppingKeepsGate DEF RestoreInv
<1>2. UNCHANGED <<own, changed, mine, raced, mon>>
  BY DEF Stopping, MainShutdown, MainReturns, HandlerShutdown
<1>3. Remembered'
  BY <1>2 DEF RestoreInv, Remembered
<1>4. CASE sd'.step = "drain"
  <2>1. StartOver'
    BY <1>4 DEF Stopping, MainShutdown, MainReturns, HandlerShutdown, Begins, RestoreInv, StartOver
  <2>2. MonGone'
    BY <1>4 DEF MonGone, Drained
  <2>3. StepsDone'
    BY <1>4, NoStepYet DEF StepsDone
  <2> QED
    BY <1>1, <1>3, <2>1, <2>2, <2>3 DEF RestoreInv
<1>5. CASE UNCHANGED <<done, sd, early>> /\ main' = "exited"
  BY <1>1, <1>2, <1>3, <1>5 DEF RestoreInv, StartOver, MonGone, StepsDone
<1>6. sd'.step = "drain" \/ (UNCHANGED <<done, sd, early>> /\ main' = "exited")
  BY DEF Stopping, MainShutdown, MainReturns, HandlerShutdown, Begins
<1> QED
  BY <1>4, <1>5, <1>6

LEMMA RestoreKeepsRestore == RestoreInv /\ Restore => RestoreInv'
<1> SUFFICES ASSUME RestoreInv, Restore PROVE RestoreInv'
  OBVIOUS
<1>1. GateInv'
  BY StoppingKeepsGate DEF RestoreInv
<1>2. UNCHANGED <<main, done, mon, own, early>>
  BY DEF Restore, SdDrain, SdPower, SdTimer, SdIfeo, SdProcs, SdCritical, SdRestores, SdRelease
<1>3. StartOver'
  BY <1>2 DEF RestoreInv, StartOver
<1>4. Remembered'
  <2>1. CASE SdDrain \/ SdRelease
    BY <1>2, <2>1 DEF SdDrain, SdRelease, RestoreInv, Remembered
  <2>2. CASE SdPower
    BY <1>2, <2>2 DEF SdPower, RestoreInv, Remembered
  <2>3. CASE SdProcs
    BY <1>2, <2>3 DEF SdProcs, RestoreInv, Remembered
  <2>4. CASE SdTimer \/ SdIfeo \/ SdCritical
    BY <1>2, <2>4 DEF SdTimer, SdIfeo, SdCritical, SdRestores, RestoreInv, Remembered
  <2> QED
    BY <2>1, <2>2, <2>3, <2>4 DEF Restore
<1>5. MonGone'
  <2>1. CASE SdDrain
    BY <2>1 DEF SdDrain, MonGone
  <2>2. CASE ~SdDrain
    <3>1. sd.step \in Drained /\ UNCHANGED raced
      BY <2>2 DEF Restore, SdPower, SdTimer, SdIfeo, SdProcs, SdCritical, SdRestores, SdRelease, Drained
    <3> QED
      BY <1>2, <3>1 DEF RestoreInv, MonGone
  <2> QED
    BY <2>1, <2>2
<1>6. StepsDone'
  <2> USE <1>2, Progress DEF RestoreInv, GateInv, TypeOK, StepsDone, SdGo
  <2>1. CASE SdDrain
    BY <2>1 DEF SdDrain
  <2>2. CASE SdPower
    BY <2>2 DEF SdPower
  <2>3. CASE SdTimer
    BY <2>3 DEF SdTimer, SdRestores
  <2>4. CASE SdIfeo
    BY <2>4 DEF SdIfeo, SdRestores
  <2>5. CASE SdProcs
    BY <2>5 DEF SdProcs
  <2>6. CASE SdCritical
    BY <2>6 DEF SdCritical, SdRestores
  <2>7. CASE SdRelease
    BY <2>7 DEF SdRelease
  <2> QED
    BY <2>1, <2>2, <2>3, <2>4, <2>5, <2>6, <2>7 DEF Restore
<1> QED
  BY <1>1, <1>3, <1>4, <1>5, <1>6 DEF RestoreInv

LEMMA MonitorKeepsRestore == RestoreInv /\ Monitor => RestoreInv'
<1> SUFFICES ASSUME RestoreInv, Monitor PROVE RestoreInv'
  OBVIOUS
<1>1. GateInv'
  BY MonitorKeepsGate DEF RestoreInv
<1>2. UNCHANGED <<main, done, sd, early, raced>> /\ mon # "off"
  BY DEF Monitor, MonCycle, MonStop, MonCycleEnd, TuneBegin, Tune, TuneRecord, SwitchRecord,
         Switch, LeaveGameMode
<1>3. StartOver'
  BY <1>2 DEF RestoreInv, StartOver
<1>4. sd.step \in Drained /\ ~early => raced
  BY <1>2 DEF RestoreInv, MonGone
<1>5. MonGone'
  BY <1>2, <1>4 DEF MonGone
<1>6. Remembered'
  <2>1. CASE Tune
    BY <2>1 DEF Tune, RestoreInv, Remembered
  <2>2. CASE Switch
    BY <2>2 DEF Switch, RestoreInv, Remembered
  <2>3. CASE LeaveGameMode
    BY <2>3 DEF LeaveGameMode, RestoreInv, Remembered
  <2>4. CASE UNCHANGED <<own, changed, mine>>
    BY <2>4 DEF RestoreInv, Remembered
  <2> QED
    BY <2>1, <2>2, <2>3, <2>4 DEF Monitor, MonCycle, MonStop, MonCycleEnd, TuneBegin, TuneRecord,
                                  SwitchRecord
<1>7. StepsDone'
  <2>1. CASE Tune
    <3>1. sd.step \notin Drained
      BY <2>1 DEF Tune, RestoreInv, GateInv, Idling
    <3> QED
      BY <1>2, <3>1, AfterIsDrained DEF StepsDone
  <2>2. CASE Switch
    BY <1>2, <1>4, <2>2, AfterIsDrained DEF Switch, RestoreInv, StepsDone
  <2>3. CASE ~Tune /\ ~Switch
    <3>1. mine' \subseteq mine
      BY <2>3 DEF Monitor, MonCycle, MonStop, MonCycleEnd, TuneBegin, TuneRecord, SwitchRecord,
                  LeaveGameMode
    <3> QED
      BY <1>2, <3>1 DEF RestoreInv, StepsDone
  <2> QED
    BY <2>1, <2>2, <2>3
<1> QED
  BY <1>1, <1>3, <1>5, <1>6, <1>7 DEF RestoreInv

LEMMA EndKeepsRestore == RestoreInv /\ (Crash \/ Exited \/ SecondStart) => RestoreInv'
<1> SUFFICES ASSUME RestoreInv, Crash \/ Exited \/ SecondStart PROVE RestoreInv'
  OBVIOUS
<1>1. GateInv'
  BY EndKeepsGate DEF RestoreInv
<1>2. CASE ProcessGone
  <2>1. Remembered' /\ MonGone'
    BY <1>2 DEF ProcessGone, Remembered, MonGone
  <2>2. StartOver'
    BY <1>2 DEF ProcessGone, StartOver
  <2>3. StepsDone'
    BY <1>2 DEF ProcessGone, StepsDone
  <2> QED
    BY <1>1, <2>1, <2>2, <2>3 DEF RestoreInv
<1>3. CASE SecondStart
  BY <1>1, <1>3 DEF SecondStart, RestoreInv, Remembered, StartOver, MonGone, StepsDone
<1> QED
  BY <1>2, <1>3 DEF Crash, Exited

LEMMA StutterKeepsRestore == RestoreInv /\ UNCHANGED vars => RestoreInv'
  BY StutterKeepsGate DEF vars, RestoreInv, Remembered, StartOver, MonGone, StepsDone

(* When the last step is over all steps are, so of the session's own changes at most the *)
(* power plan is left.                                                                   *)
LEMMA RestoreInvSuffices == RestoreInv => RestoredWhenOver
<1> SUFFICES ASSUME RestoreInv, sd.step = "over", ~early,
                    NEW r \in own \cap changed, ~(raced /\ r = "power")
             PROVE  FALSE
  BY DEF RestoredWhenOver
<1>1. r \in mine /\ r \in Resources
  BY DEF RestoreInv, GateInv, TypeOK, Remembered
<1>2. sd.step \in After(r)
  BY <1>1 DEF After, Drained, Resources
<1> QED
  BY <1>1, <1>2 DEF RestoreInv, StepsDone

(* runtime.py:561-674: whichever thread runs the shutdown, a session that had finished     *)
(* starting leaves none of its changes behind, but for a monitor thread that outlived the  *)
(* join and switched the power plan once more.                                             *)
THEOREM ShutdownRestores == Spec => []RestoredWhenOver
<1>1. RestoreInv /\ [Next]_vars => RestoreInv'
  BY RunKeepsRestore, BeginKeepsRestore, RestoreKeepsRestore, MonitorKeepsRestore, EndKeepsRestore,
     StutterKeepsRestore DEF Next
<1> QED
  BY <1>1, InitRestore, RestoreInvSuffices, PTL DEF Spec

-----------------------------------------------------------------------------
(* Supervisor *)

Stations == {"idle", "port", "preflight", "wait", "engine", "load", "shown", "unshown"}
StartRecords == [pc : Stations, kind : {"none", "bootstrap", "restart", "show"},
                 child : Children \cup {NoChild}, at : Children \cup {NoChild}]

ChildStates == {"none", "booting", "ready", "killed", "dead"}

SupervisorTyped ==
  /\ start \in [Starts -> StartRecords] /\ child \in [Children -> ChildStates]
  /\ url \in Children \cup {NoChild} /\ retries \in Nat

(* Starts that are yet to spawn. *)
Pre == {s \in Starts : start[s].pc \in {"port", "preflight"}}

(* A live backend has its exit listener, and only the one that is named has. *)
Named == /\ \A c \in Children : Alive(c) => c \in handled
         /\ handled \subseteq {ref}

One == /\ handled # {} => ~timer /\ Pre = {}
       /\ timer => Pre = {}
       /\ \A s, t \in Pre : s = t

SupervisorInv == SupervisorTyped /\ (retries = 0 /\ app # "exited" => Named /\ One)

-----------------------------------------------------------------------------
(* Types *)

LEMMA IdleType == Idle \in StartRecords /\ Idle.pc = "idle"
BY DEF StartRecords, Stations, Idle

LEMMA StartTypes ==
  ASSUME NEW kind \in {"none", "bootstrap", "restart", "show"}, NEW pc \in Stations
  PROVE  [Idle EXCEPT !.pc = pc, !.kind = kind] \in StartRecords
         /\ [Idle EXCEPT !.pc = pc, !.kind = kind].pc = pc
BY DEF StartRecords, Stations, Idle

(* A start goes to a place past the spawn, or gives up. *)
LEMMA StartLeaves ==
  ASSUME SupervisorTyped, NEW s \in Starts, NEW r \in StartRecords, r.pc \notin {"port", "preflight"},
         start' = [start EXCEPT ![s] = r]
  PROVE  /\ start' \in [Starts -> StartRecords]
         /\ Pre' \subseteq Pre /\ s \notin Pre'
BY DEF SupervisorTyped, Pre

-----------------------------------------------------------------------------
(* What a step may do *)

(* No child is touched, the timer is not set, and no start comes to be. *)
LEMMA Quiet ==
  ASSUME SupervisorInv, SupervisorTyped', UNCHANGED <<child, handled, ref, retries>>, timer' => timer,
         Pre' \subseteq Pre, app' # "exited" => app # "exited"
  PROVE  SupervisorInv'
BY DEF SupervisorInv, Named, One, Alive

(* The kill takes the named child, which is the only one with a listener. *)
LEMMA Kill ==
  ASSUME SupervisorInv, SupervisorTyped', KillBackend, UNCHANGED <<app, retries>>, Pre' \subseteq Pre
  PROVE  SupervisorInv'
<1> SUFFICES ASSUME retries = 0, app # "exited" PROVE Named' /\ One'  BY DEF SupervisorInv
<1>1. handled' = {} /\ timer' = FALSE  BY DEF KillBackend, SupervisorInv, Named
<1>2. \A c \in Children : ~Alive(c)'  BY DEF KillBackend, SupervisorInv, Named, Alive
<1>3. \A s, t \in Pre' : s = t  BY DEF SupervisorInv, One
<1> QED  BY <1>1, <1>2, <1>3 DEF Named, One

(* A window that has been loaded is shown; one that has not is loaded first. *)
LEMMA EnsureLeaves ==
  ASSUME SupervisorTyped, NEW s \in Starts, NEW kind \in {"bootstrap", "show"}, NEW error,
         EnsureLoaded(s, kind, error)
  PROVE  start' \in [Starts -> StartRecords] /\ Pre' \subseteq Pre
<1>1. PICK pc \in {"shown", "load"} :
        start' = [start EXCEPT ![s] = [Idle EXCEPT !.pc = pc, !.kind = kind]]
  BY DEF EnsureLoaded
<1>2. /\ [Idle EXCEPT !.pc = pc, !.kind = kind] \in StartRecords
      /\ [Idle EXCEPT !.pc = pc, !.kind = kind].pc = pc
  <2>1. pc \in Stations /\ kind \in {"none", "bootstrap", "restart", "show"}  BY DEF Stations
  <2> QED  BY <2>1, StartTypes
<1> QED  BY <1>1, <1>2, StartLeaves

LEMMA StartFailsKeepsInv ==
  ASSUME SupervisorInv, NEW s \in Starts, app # "exited", StartFails(s) \/ BootstrapFails(s)
  PROVE  SupervisorInv'
<1>1. CASE BootstrapFails(s)
  <2>1. start' \in [Starts -> StartRecords] /\ Pre' \subseteq Pre
    BY <1>1, EnsureLeaves DEF BootstrapFails, SupervisorInv
  <2>2. SupervisorTyped'
    <3>1. child' \in [Children -> ChildStates]
      BY <1>1 DEF BootstrapFails, KillBackend, SupervisorInv, SupervisorTyped, ChildStates
    <3> QED  BY <1>1, <2>1, <3>1 DEF BootstrapFails, SupervisorInv, SupervisorTyped
  <2> QED  BY <1>1, <2>1, <2>2, Kill DEF BootstrapFails
<1>2. CASE RestartFails(s)
  <2>1. start' \in [Starts -> StartRecords] /\ Pre' \subseteq Pre
    BY <1>2, StartLeaves, IdleType DEF RestartFails, SupervisorInv
  <2>2. SupervisorTyped'  BY <1>2, <2>1 DEF RestartFails, SupervisorInv, SupervisorTyped
  <2> QED  BY <1>2, <2>1, <2>2, Quiet DEF RestartFails
<1> QED  BY <1>1, <1>2 DEF StartFails

-----------------------------------------------------------------------------
(* The steps of a start *)

LEMMA PortFoundKeepsInv == ASSUME SupervisorInv, NEW s \in Starts, PortFound(s) PROVE SupervisorInv'
<1>1. NewChild \in Children  BY DEF PortFound, NewChild
<1>2. /\ start' = [start EXCEPT ![s] = [start[s] EXCEPT !.pc = "preflight", !.child = NewChild]]
      /\ url' = NewChild /\ UNCHANGED <<app, child, handled, ref, timer, retries>> /\ s \in Pre
  BY DEF PortFound, Pre, At
<1>3. SupervisorTyped'
  <2>1. [start[s] EXCEPT !.pc = "preflight", !.child = NewChild] \in StartRecords
    BY <1>1 DEF SupervisorInv, SupervisorTyped, StartRecords, Stations
  <2> QED  BY <1>1, <1>2, <2>1 DEF SupervisorInv, SupervisorTyped
<1>4. Pre' \subseteq Pre  BY <1>2 DEF Pre, SupervisorInv, SupervisorTyped
<1> QED  BY <1>2, <1>3, <1>4, Quiet

LEMMA SpawnedKeepsInv == ASSUME SupervisorInv, NEW s \in Starts, Spawned(s) PROVE SupervisorInv'
<1>1. PICK c : c = start[s].child  OBVIOUS
<1>2. /\ child' = [child EXCEPT ![c] = "booting"] /\ ref' = c /\ handled' = handled \cup {c}
      /\ start' = [start EXCEPT ![s] = [start[s] EXCEPT !.pc = "wait", !.at = url]]
      /\ UNCHANGED <<app, url, timer, retries>> /\ s \in Pre
  BY <1>1 DEF Spawned, Pre, At
<1>3. /\ [start[s] EXCEPT !.pc = "wait", !.at = url] \in StartRecords
      /\ [start[s] EXCEPT !.pc = "wait", !.at = url].pc = "wait"
  BY DEF SupervisorInv, SupervisorTyped, StartRecords, Stations
<1>4. start' \in [Starts -> StartRecords] /\ Pre' \subseteq Pre /\ s \notin Pre'
  BY <1>2, <1>3, StartLeaves DEF SupervisorInv
<1>5. SupervisorTyped'  BY <1>2, <1>4 DEF SupervisorInv, SupervisorTyped, ChildStates
<1>6. ASSUME retries = 0, app # "exited" PROVE Named' /\ One'
  <2>1. handled = {} /\ ~timer /\ Pre' = {}  BY <1>2, <1>4, <1>6 DEF SupervisorInv, One
  <2>2. \A d \in Children : Alive(d)' => d = c
    BY <1>2, <1>6, <2>1 DEF SupervisorInv, SupervisorTyped, Named, Alive
  <2> QED  BY <1>2, <2>1, <2>2 DEF Named, One
<1> QED  BY <1>2, <1>5, <1>6 DEF SupervisorInv

LEMMA ReadyKeepsInv == ASSUME SupervisorInv, NEW s \in Starts, Ready(s) PROVE SupervisorInv'
<1>1. UNCHANGED <<app, child, handled, ref, url, timer, retries>>  BY DEF Ready
<1>2. PICK r : /\ start' = [start EXCEPT ![s] = r]
               /\ r \in {Idle, [start[s] EXCEPT !.pc = "engine", !.at = url]}
  BY DEF Ready
<1>3. r \in StartRecords /\ r.pc \in {"idle", "engine"}
  <2>1. CASE r = Idle  BY <2>1, IdleType
  <2>2. CASE r = [start[s] EXCEPT !.pc = "engine", !.at = url]
    BY <2>2 DEF SupervisorInv, SupervisorTyped, StartRecords, Stations
  <2> QED  BY <1>2, <2>1, <2>2
<1>4. start' \in [Starts -> StartRecords] /\ Pre' \subseteq Pre
  BY <1>2, <1>3, StartLeaves DEF SupervisorInv
<1>5. SupervisorTyped'  BY <1>1, <1>4 DEF SupervisorInv, SupervisorTyped
<1> QED  BY <1>1, <1>4, <1>5, Quiet

LEMMA EngineAskedKeepsInv == ASSUME SupervisorInv, NEW s \in Starts, EngineAsked(s) PROVE SupervisorInv'
<1>1. start' \in [Starts -> StartRecords] /\ Pre' \subseteq Pre
  BY EnsureLeaves DEF EngineAsked, SupervisorInv
<1>2. SupervisorTyped'  BY <1>1 DEF EngineAsked, SupervisorInv, SupervisorTyped
<1> QED  BY <1>1, <1>2, Quiet DEF EngineAsked

LEMMA ShownKeepsInv == ASSUME SupervisorInv, NEW s \in Starts, Shown(s) \/ NotShown(s) PROVE SupervisorInv'
<1>1. CASE BootstrapFails(s) /\ NotShown(s)  BY <1>1, StartFailsKeepsInv DEF NotShown
<1>2. CASE /\ start' = [start EXCEPT ![s] = Idle]
           /\ UNCHANGED <<app, child, handled, ref, url, timer, retries>>
  <2>1. start' \in [Starts -> StartRecords] /\ Pre' \subseteq Pre
    BY <1>2, StartLeaves, IdleType DEF SupervisorInv
  <2>2. SupervisorTyped'  BY <1>2, <2>1 DEF SupervisorInv, SupervisorTyped
  <2> QED  BY <1>2, <2>1, <2>2, Quiet
<1> QED  BY <1>1, <1>2 DEF Shown, NotShown, window

LEMMA StartStepKeepsInv == ASSUME SupervisorInv, NEW s \in Starts, StartStep(s) PROVE SupervisorInv'
BY PortFoundKeepsInv, SpawnedKeepsInv, ReadyKeepsInv, EngineAskedKeepsInv, ShownKeepsInv,
   StartFailsKeepsInv DEF StartStep, LaunchFails, WaitEnds

-----------------------------------------------------------------------------
(* The other steps *)

LEMMA LoadEndsKeepsInv == ASSUME SupervisorInv, LoadEnds PROVE SupervisorInv'
<1>1. PICK pc \in {"shown", "unshown"} :
        start' = [s \in Starts |-> IF At(s, "load") THEN [start[s] EXCEPT !.pc = pc] ELSE start[s]]
  BY DEF LoadEnds
<1>2. \A s \in Starts : /\ [start[s] EXCEPT !.pc = pc] \in StartRecords
                        /\ [start[s] EXCEPT !.pc = pc].pc = pc
  BY DEF SupervisorInv, SupervisorTyped, StartRecords, Stations
<1>3. start' \in [Starts -> StartRecords]  BY <1>1, <1>2 DEF SupervisorInv, SupervisorTyped
<1>4. Pre' \subseteq Pre  BY <1>1, <1>2 DEF Pre
<1>5. SupervisorTyped'  BY <1>3 DEF LoadEnds, SupervisorInv, SupervisorTyped
<1> QED  BY <1>4, <1>5, Quiet DEF LoadEnds

(* A backend that comes up or dies keeps its listener. *)
LEMMA ChildKeepsInv == ASSUME SupervisorInv, NEW c \in Children, Boots(c) \/ Dies(c) PROVE SupervisorInv'
<1>1. UNCHANGED <<app, start, handled, ref, url, timer, retries>>  BY DEF Boots, Dies, window
<1>2. \A d \in Children : Alive(d)' => Alive(d)  BY DEF Boots, Dies, Alive, SupervisorInv, SupervisorTyped
<1>3. child' \in [Children -> ChildStates]  BY DEF Boots, Dies, SupervisorInv, SupervisorTyped, ChildStates
<1> QED  BY <1>1, <1>2, <1>3 DEF SupervisorInv, SupervisorTyped, Named, One, Pre

(* The exit of the child with the listener: it is the named one, and no other runs. *)
LEMMA ExitEventKeepsInv == ASSUME SupervisorInv, NEW c \in Children, ExitEvent(c) PROVE SupervisorInv'
<1>1. /\ child' = [child EXCEPT ![c] = "none"] /\ handled' = handled \ {c} /\ c \in handled
      /\ ref' = NoChild /\ UNCHANGED <<app, start, url, retries>>
  BY DEF ExitEvent
<1>2. ASSUME retries = 0, app # "exited" PROVE Named' /\ One'
  <2>1. handled' = {} /\ Pre' = {}  BY <1>1, <1>2 DEF SupervisorInv, Named, One, Pre
  <2>2. \A d \in Children : ~Alive(d)'  BY <1>1, <1>2, <2>1 DEF SupervisorInv, SupervisorTyped, Named, Alive
  <2> QED  BY <2>1, <2>2 DEF Named, One
<1> QED  BY <1>1, <1>2 DEF SupervisorInv, SupervisorTyped, ChildStates

LEMMA RestartDueKeepsInv == ASSUME SupervisorInv, RestartDue PROVE SupervisorInv'
<1>1. timer /\ timer' = FALSE /\ UNCHANGED <<app, child, handled, ref, url, retries>>
  BY DEF RestartDue
<1>2. CASE start' = start  BY <1>1, <1>2 DEF SupervisorInv, SupervisorTyped, Named, One, Pre, Alive
<1>3. CASE start' = [start EXCEPT ![NewStart] = Starting("restart")]
  <2>1. Starting("restart") \in StartRecords  BY DEF Starting, Idle, StartRecords, Stations
  <2>2. SupervisorTyped'  BY <1>1, <1>3, <2>1 DEF SupervisorInv, SupervisorTyped
  <2>3. \A s \in Starts \ {NewStart} : start'[s] = start[s]  BY <1>3 DEF SupervisorInv, SupervisorTyped
  <2>4. Pre' \subseteq Pre \cup {NewStart}  BY <2>3 DEF Pre
  <2>5. ASSUME retries = 0, app # "exited" PROVE Named' /\ One'
    <3>1. handled' = {} /\ Pre = {}  BY <1>1, <2>5 DEF SupervisorInv, One
    <3> QED  BY <1>1, <2>4, <2>5, <3>1 DEF SupervisorInv, Named, One, Alive
  <2> QED  BY <1>1, <2>2, <2>5 DEF SupervisorInv
<1> QED  BY <1>2, <1>3 DEF RestartDue

LEMMA RefreshKeepsInv == ASSUME SupervisorInv, Refresh \/ QuitApplication \/ ChildGone PROVE SupervisorInv'
BY DEF Refresh, QuitApplication, ChildGone, SupervisorInv, SupervisorTyped, Named, One, Pre, Alive

(* From here on the property says nothing. *)
LEMMA RetryKeepsInv == ASSUME SupervisorInv, RetryBootstrap PROVE SupervisorInv'
<1>1. /\ retries' = retries + 1 /\ url' = url
      /\ start' = [start EXCEPT ![NewStart] = Starting("bootstrap")]
  BY DEF RetryBootstrap
<1>2. Starting("bootstrap") \in StartRecords  BY DEF Starting, Idle, StartRecords, Stations
<1>3. child' \in [Children -> ChildStates]
  BY DEF RetryBootstrap, KillBackend, SupervisorInv, SupervisorTyped, ChildStates
<1>4. retries' \in Nat /\ retries' # 0  BY <1>1 DEF SupervisorInv, SupervisorTyped
<1>5. SupervisorTyped'  BY <1>1, <1>2, <1>3, <1>4 DEF SupervisorInv, SupervisorTyped
<1> QED  BY <1>4, <1>5 DEF SupervisorInv

LEMMA StopAnsweredKeepsInv == ASSUME SupervisorInv, StopAnswered PROVE SupervisorInv'
<1>1. UNCHANGED <<app, start, url, ref, retries>>  BY DEF StopAnswered, window
<1>2. SupervisorTyped'  BY <1>1 DEF StopAnswered, SupervisorInv, SupervisorTyped, ChildStates
<1>3. CASE UNCHANGED <<child, handled, timer>>
  BY <1>1, <1>2, <1>3, Quiet DEF Pre
<1>4. CASE /\ timer' = FALSE /\ handled' = handled \ {ref}
           /\ child' = [child EXCEPT ![ref] = IF Alive(ref) THEN "killed" ELSE "none"]
  <2>1. ASSUME retries = 0, app # "exited" PROVE Named' /\ One'
    <3>1. handled' = {} /\ Pre' = Pre  BY <1>1, <1>4, <2>1 DEF SupervisorInv, Named, Pre
    <3>2. \A d \in Children : ~Alive(d)'  BY <1>4, <2>1 DEF SupervisorInv, SupervisorTyped, Named, Alive
    <3> QED  BY <1>4, <2>1, <3>1, <3>2 DEF SupervisorInv, Named, One
  <2> QED  BY <1>1, <1>2, <2>1 DEF SupervisorInv
<1> QED  BY <1>3, <1>4 DEF StopAnswered

LEMMA ExitKeepsInv == ASSUME SupervisorInv, Exit PROVE SupervisorInv'
<1>1. app' = "exited" /\ UNCHANGED <<url, retries>> /\ start' = [s \in Starts |-> Idle]
  BY DEF Exit
<1>2. child' \in [Children -> ChildStates]  BY DEF Exit, SupervisorInv, SupervisorTyped, ChildStates
<1> QED  BY <1>1, <1>2, IdleType DEF SupervisorInv, SupervisorTyped

LEMMA SupervisorInitInv == SupervisorInit => SupervisorInv
<1> SUFFICES ASSUME SupervisorInit PROVE SupervisorInv  OBVIOUS
<1>1. PICK s \in Starts : start = [t \in Starts |-> IF t = s THEN Starting("bootstrap") ELSE Idle]
  BY DEF SupervisorInit
<1>2. Starting("bootstrap") \in StartRecords  BY DEF Starting, Idle, StartRecords, Stations
<1>3. SupervisorTyped  BY <1>1, <1>2, IdleType DEF SupervisorInit, SupervisorTyped, ChildStates
<1>4. Pre \subseteq {s}  BY <1>1, IdleType DEF Pre
<1>5. Named /\ One  BY <1>4 DEF SupervisorInit, Named, One, Alive
<1> QED  BY <1>3, <1>5 DEF SupervisorInv

LEMMA SupervisorNextKeepsInv == ASSUME SupervisorInv, [SupervisorNext]_supervisorVars PROVE SupervisorInv'
<1>1. CASE UNCHANGED supervisorVars
  BY <1>1 DEF supervisorVars, SupervisorInv, SupervisorTyped, Named, One, Pre, Alive
<1> QED
  BY <1>1, StartStepKeepsInv, LoadEndsKeepsInv, ChildKeepsInv, ExitEventKeepsInv, RestartDueKeepsInv,
     RefreshKeepsInv, RetryKeepsInv, StopAnsweredKeepsInv, ExitKeepsInv DEF SupervisorNext

-----------------------------------------------------------------------------
(* The invariant holds in every state. *)
THEOREM SupervisorInvariance == SupervisorSpec => []SupervisorInv
BY SupervisorInitInv, SupervisorNextKeepsInv, PTL DEF SupervisorSpec

(* electron-main.js, attachBackendHandlers, startBackend, killBackendProcess: until the user *)
(* retries, a live backend is the one backendProcess names, and so there is one at most.     *)
THEOREM NeverOrphaned == FairSpec => []NoOrphan
<1>1. SupervisorInv => NoOrphan  BY DEF SupervisorInv, Named, NoOrphan
<1> QED  BY SupervisorInvariance, <1>1, PTL DEF FairSpec
=============================================================================
