-------------------------- MODULE PowerScheme_proofs --------------------------
(***************************************************************************)
(* Proofs about PowerScheme, for any plans, any number of sessions, of     *)
(* plans the user picks and of failed calls, on a machine where one gaming *)
(* plan is registered.  (With two, an unverified switch to the first and a *)
(* verified one to the second break SwitchIsRecorded.)                     *)
(*                                                                         *)
(* SwitchIsRecorded is not inductive: a record is taken back in five       *)
(* places, and that the engine's plan is not active there follows from the *)
(* flags in memory (Known), which in turn follow the stage of the session, *)
(* of the monitor and of the restore (Stages, Flags, Restores).            *)
(***************************************************************************)
EXTENDS PowerScheme, TLAPS

OneGamingPlan ==
  \A i, j \in DOMAIN Preferred : Preferred[i] \in Registered /\ Preferred[j] \in Registered => i = j

(* The plan of the engine is active, and the session has not given it up. *)
Engaged == ours /\ ~lost

Unset      == ~flags.on /\ ~flags.unverified
Switching  == mon.pc \in {"log", "switch", "verify", "rollback"}
Switchable == original # NoPlan /\ original \notin Gaming

MonStates == [pc : {"off", "top", "in", "log", "switch", "verify", "rollback", "restoring"},
              try : Nat \ {0}, attempted : BOOLEAN]

RstStates == [Threads -> {"idle", "begin", "check", "external", "undo", "keep", "clear"}]

Typed ==
  /\ ours \in BOOLEAN /\ lost \in BOOLEAN /\ incomplete \in BOOLEAN
  /\ flags \in [on : BOOLEAN, inUse : Plans \cup {NoPlan}, unverified : BOOLEAN]
  /\ mon \in MonStates
  /\ rst \in RstStates

Early == {"down", "recovering", "clearing", "starting", "captured", "refused"}
Late  == {"running", "closing", "restoring", "stopped"}

(* One thread at a time works on the plan, and when it has restored nothing is left to. *)
Stages ==
  /\ engine \in Early \cup Late
  /\ engine \in Early => mon.pc = "off" /\ Unset
  /\ engine \in {"restoring", "stopped"} => mon.pc = "off"
  /\ rst["mon"] # "idle" => mon.pc = "restoring"
  /\ rst["main"] # "idle" => engine = "restoring"
  /\ (mon.pc = "restoring" /\ rst["mon"] = "idle") => Unset
  /\ (engine = "restoring" /\ rst["main"] = "idle") \/ engine = "stopped" => Unset
  /\ engine = "refused" => incomplete
  /\ incomplete => /\ engine \in {"refused", "closing", "restoring", "stopped"}
                   /\ mon.pc = "off" /\ Unset /\ rst["main"] \in {"idle", "begin"}

(* What the flags say.  One registered plan means one switch per attempt. *)
Flags ==
  /\ ~Unset \/ Switching => Switchable
  /\ Switching => ~flags.on
  /\ ~(flags.on /\ flags.unverified)
  /\ ~Unset => mon.attempted \/ Switching \/ mon.pc = "off"
  /\ mon.pc \in {"switch", "verify", "rollback"} =>
       ~flags.unverified /\ mon.try \in DOMAIN Preferred /\ Preferred[mon.try] \in Registered
  /\ flags.unverified /\ mon.pc = "log" =>
       \A i \in DOMAIN Preferred : i >= mon.try => Preferred[i] \notin Registered

Plan ==
  /\ ours => active \in Gaming
  /\ Switchable => original = home
  /\ flags.on /\ ours => active = flags.inUse

Restores ==
  \A t \in Threads :
    /\ rst[t] \in {"check", "external"} => flags.on
    /\ rst[t] = "external" => ~ours
    /\ rst[t] \in {"clear", "keep"} => ~Engaged

(* The session knows of its switch. *)
Known ==
  /\ engine \in {"clearing", "starting", "captured"} => ~Engaged
  /\ engine \in Late /\ ~incomplete /\ Engaged => ~Unset \/ mon.pc = "verify"

Logged ==
  /\ SwitchIsRecorded
  /\ mon.pc = "switch" => disk = [switched |-> TRUE, original |-> original]

Inv == Typed /\ Stages /\ Flags /\ Plan /\ Restores /\ Known /\ Logged

USE DEF Engaged, Unset, Switching, Switchable, Early, Late, Threads, windows, session

-----------------------------------------------------------------------------
(* The steps *)

(* Types of the records that the steps build. *)
LEMMA MonTypes ==
  ASSUME NEW m \in MonStates
  PROVE  /\ [m EXCEPT !.try = m.try + 1] \in MonStates
         /\ [m EXCEPT !.pc = "log", !.try = m.try + 1] \in MonStates
         /\ [m EXCEPT !.pc = "log", !.try = 1] \in MonStates
         /\ [m EXCEPT !.pc = "top", !.attempted = TRUE] \in MonStates
         /\ MonOff \in MonStates /\ [MonOff EXCEPT !.pc = "top"] \in MonStates
<1>1. m.try + 1 \in Nat \ {0} /\ 1 \in Nat \ {0}  BY DEF MonStates
<1> QED  BY <1>1 DEF MonStates, MonOff

LEMMA RstTypes == [t \in Threads |-> "idle"] \in RstStates
BY DEF RstStates

(* Recovery of an earlier session, and the capture of the original plan. *)
LEMMA StartingKeepsInv == ASSUME OneGamingPlan, Inv, Starting PROVE Inv'
<1> USE DEF Inv, Typed, MonStates, RstStates, Stages, Flags, Plan, Restores, Known, Logged,
            SwitchIsRecorded
<1>1. CASE Boot  BY <1>1 DEF Boot
<1>2. CASE RecoverRestore  BY <1>2 DEF RecoverRestore
<1>3. CASE RecoverFails  BY <1>3 DEF RecoverFails
<1>4. CASE RecoverNothing  BY <1>4 DEF RecoverNothing
<1>5. CASE RecoverClear  BY <1>5 DEF RecoverClear, NoRecord
<1>6. CASE JailRecoveryRefuses  BY <1>6 DEF JailRecoveryRefuses
<1>7. CASE Capture  BY <1>7 DEF Capture, Gaming
<1>8. CASE CaptureRecord
  <2> USE <1>8 DEF CaptureRecord, Record, MonOff
  <2>1. mon' = [pc |-> "top", try |-> 1, attempted |-> FALSE]  OBVIOUS
  <2>2. Typed'
    <3>1. mon' \in MonStates  BY MonTypes
    <3> QED  BY <3>1
  <2>3. Stages' /\ Flags'  BY <2>1
  <2>4. Plan' /\ Restores' /\ Known'  BY <2>1
  <2>5. Logged'  BY <2>1
  <2> QED  BY <2>2, <2>3, <2>4, <2>5
<1> QED  BY <1>1, <1>2, <1>3, <1>4, <1>5, <1>6, <1>7, <1>8 DEF Starting

(* The monitor: the record is written before the switch, and taken back only if there was none. *)
LEMMA MonitorKeepsInv == ASSUME OneGamingPlan, Inv, Monitor PROVE Inv'
<1>0. /\ Len(Preferred) \in Nat /\ DOMAIN Preferred = 1 .. Len(Preferred)
      /\ \A i \in DOMAIN Preferred : Preferred[i] \in Plans
  BY PowerAssumption
<1> USE DEF Inv, Typed, MonStates, RstStates, Stages, Flags, Plan, Restores, Known, Logged,
            SwitchIsRecorded
<1>1. CASE MonCycle  BY <1>1 DEF MonCycle
<1>2. CASE MonStop  BY <1>2 DEF MonStop, MonOff
<1>3. CASE MonIdle  BY <1>3 DEF MonIdle
<1>4. CASE SetBegin
  <2> USE <1>4 DEF SetBegin, Record, Gaming
  <2>1. Unset /\ ~Engaged /\ UNCHANGED <<engine, original, flags, incomplete, rst>>  OBVIOUS
  <2>2. \/ mon' = [mon EXCEPT !.pc = "top", !.attempted = TRUE]
        \/ mon' = [mon EXCEPT !.pc = "log", !.try = 1] /\ Switchable
    OBVIOUS
  <2>3. Typed'
    <3>1. CASE mon' = [mon EXCEPT !.pc = "top", !.attempted = TRUE]  BY <2>1, <3>1
    <3>2. CASE mon' = [mon EXCEPT !.pc = "log", !.try = 1]
      <4>1. mon' \in MonStates  BY <3>2, MonTypes
      <4> QED  BY <2>1, <4>1
    <3> QED  BY <2>2, <3>1, <3>2
  <2>4. Stages'  BY <2>1, <2>2
  <2>5. Flags'
    <3>1. CASE mon' = [mon EXCEPT !.pc = "top", !.attempted = TRUE]  BY <2>1, <3>1
    <3>2. CASE mon' = [mon EXCEPT !.pc = "log", !.try = 1] /\ Switchable  BY <2>1, <3>2
    <3> QED  BY <2>2, <3>1, <3>2
  <2>6. Plan' /\ Restores' /\ Known' /\ Logged'  BY <2>1, <2>2
  <2> QED  BY <2>3, <2>4, <2>5, <2>6
<1>5. CASE SetGivesUp  BY <1>5 DEF SetGivesUp, SetEnds
<1>6. CASE SetSkips
  <2> USE <1>6 DEF SetSkips, NextTry
  <2>1. mon' = [mon EXCEPT !.try = mon.try + 1]  OBVIOUS
  <2>2. Typed' /\ Stages'  BY <2>1, MonTypes
  <2>3. Flags'  BY <2>1, <1>0
  <2>4. Plan' /\ Restores' /\ Known' /\ Logged'  BY <2>1
  <2> QED  BY <2>2, <2>3, <2>4
<1>7. CASE SetRecord
  <2> USE <1>7 DEF SetRecord, Record, SetEnds
  <2>1. mon.try \in DOMAIN Preferred /\ Preferred[mon.try] \in Registered  BY <1>0
  <2>2. ~flags.unverified  BY <2>1
  <2>3. \/ mon' = [mon EXCEPT !.pc = "switch"] /\ disk' = [switched |-> TRUE, original |-> home]
        \/ mon' = [mon EXCEPT !.pc = "top", !.attempted = TRUE] /\ disk' = disk
    BY <2>2
  <2>4. Typed' /\ Stages'  BY <2>3
  <2>5. Flags'  BY <2>1, <2>2, <2>3
  <2>6. Plan' /\ Restores' /\ Known' /\ Logged'  BY <2>2, <2>3
  <2> QED  BY <2>4, <2>5, <2>6
<1>8. CASE SetSwitch  BY <1>8 DEF SetSwitch, Gaming
<1>9. CASE SetSwitchFails  BY <1>9 DEF SetSwitchFails, NextTry
<1>10. CASE SetRollback
  <2> USE <1>10 DEF SetRollback, Record, NextTry
  <2>1. mon' = [mon EXCEPT !.pc = "log", !.try = mon.try + 1] /\ mon.try + 1 \in Nat \ {0}
    OBVIOUS
  <2>2. Unset /\ ~Engaged  OBVIOUS
  <2>3. Typed' /\ Stages'  BY <2>1
  <2>4. Flags'  BY <2>1, <2>2
  <2>5. Plan' /\ Restores' /\ Known' /\ Logged'  BY <2>1, <2>2
  <2> QED  BY <2>3, <2>4, <2>5
<1>11. CASE SetVerify
  <2> USE <1>11 DEF SetVerify, SetEnds, NextTry
  <2>1. /\ mon.try \in 1 .. Len(Preferred) /\ Preferred[mon.try] \in Registered
        /\ Preferred[mon.try] \in Plans /\ Switchable /\ Unset
    BY <1>0
  <2>2. CASE /\ mon' = [mon EXCEPT !.pc = "top", !.attempted = TRUE]
             /\ active = Preferred[mon.try]
             /\ flags' = [flags EXCEPT !.on = TRUE, !.inUse = Preferred[mon.try]]
    <3>1. Typed' /\ Stages'  BY <2>1, <2>2
    <3>2. Flags'  BY <2>1, <2>2
    <3>3. Plan' /\ Restores' /\ Known' /\ Logged'  BY <2>1, <2>2
    <3> QED  BY <3>1, <3>2, <3>3
  <2>3. CASE /\ mon' = [mon EXCEPT !.pc = "log", !.try = mon.try + 1]
             /\ flags' = [flags EXCEPT !.unverified = TRUE]
    <3>1. \A i \in DOMAIN Preferred : i >= mon.try + 1 => Preferred[i] \notin Registered
      BY <2>1, <1>0 DEF OneGamingPlan
    <3>2. Typed' /\ Stages'
      <4>1. mon' \in MonStates  BY <2>3, MonTypes
      <4>2. flags'.on = flags.on /\ flags'.unverified
            /\ flags' \in [on : BOOLEAN, inUse : Plans \cup {NoPlan}, unverified : BOOLEAN]
        BY <2>3
      <4> QED  BY <2>1, <2>3, <4>1, <4>2
    <3>3. Flags'  BY <2>1, <2>3, <3>1
    <3>4. Plan' /\ Restores' /\ Known' /\ Logged'  BY <2>1, <2>3
    <3> QED  BY <3>2, <3>3, <3>4
  <2> QED  BY <2>2, <2>3
<1>12. CASE LeaveGameMode  BY <1>12 DEF LeaveGameMode
<1>13. CASE LeftGameMode  BY <1>13 DEF LeftGameMode
<1> QED  BY <1>1, <1>2, <1>3, <1>4, <1>5, <1>6, <1>7, <1>8, <1>9, <1>10, <1>11, <1>12, <1>13 DEF Monitor

(* The restore, in either thread. *)
LEMMA RestoreKeepsInv == ASSUME OneGamingPlan, Inv, NEW t \in Threads, Restore(t) PROVE Inv'
<1> USE DEF Inv, Typed, MonStates, RstStates, Stages, Flags, Plan, Restores, Known, Logged,
            SwitchIsRecorded
<1>1. CASE RestoreBegin(t)  BY <1>1 DEF RestoreBegin, RstGo
<1>2. CASE RestoreCheck(t)  BY <1>2 DEF RestoreCheck, RstGo
<1>3. CASE RestoreExternal(t)  BY <1>3 DEF RestoreExternal, RstGo, NoRecord
<1>4. CASE RestoreUndo(t)  BY <1>4 DEF RestoreUndo, RstGo
<1>5. CASE RestoreUndoFails(t)  BY <1>5 DEF RestoreUndoFails, RstGo
<1>6. CASE RestoreEnd(t)  BY <1>6 DEF RestoreEnd, RstGo, NoRecord, NoFlags, Record
<1> QED  BY <1>1, <1>2, <1>3, <1>4, <1>5, <1>6 DEF Restore

(* Shutdown: the monitor has ended before the main thread restores. *)
LEMMA ShutdownKeepsInv == ASSUME OneGamingPlan, Inv, Shutdown PROVE Inv'
<1> USE DEF Inv, Typed, MonStates, RstStates, Stages, Flags, Plan, Restores, Known, Logged,
            SwitchIsRecorded
<1>1. CASE ShutdownClose
  <2> USE <1>1 DEF ShutdownClose
  <2>1. Typed' /\ Stages' /\ Flags'  OBVIOUS
  <2>2. Known'
    <3>1. CASE engine = "running"  BY <3>1
    <3>2. CASE engine = "refused" /\ incomplete  BY <3>2
    <3> QED  BY <3>1, <3>2
  <2>3. Plan' /\ Restores' /\ Logged'  OBVIOUS
  <2> QED  BY <2>1, <2>2, <2>3
<1>2. CASE ShutdownRestore  BY <1>2 DEF ShutdownRestore, RstGo
<1>3. CASE ShutdownDone  BY <1>3 DEF ShutdownDone
<1> QED  BY <1>1, <1>2, <1>3 DEF Shutdown

(* The user's choice ends what the engine answers for. *)
LEMMA ChooseKeepsInv == ASSUME Inv, NEW s \in Plans, Choose(s) PROVE Inv'
BY DEF Choose,
       Inv, Typed, MonStates, RstStates, Stages, Flags, Plan, Restores, Known, Logged,
       SwitchIsRecorded

(* A crash loses the flags; the record stays. *)
LEMMA ProcessEndKeepsInv == ASSUME Inv, ProcessEnd PROVE Inv'
<1> USE DEF ProcessEnd, NoFlags, MonOff,
            Inv, Typed, MonStates, RstStates, Stages, Flags, Plan, Restores, Known, Logged,
            SwitchIsRecorded
<1>1. mon'.pc = "off" /\ engine' = "down" /\ ~flags'.on /\ ~flags'.unverified  OBVIOUS
<1>2. Typed'
  <2>1. flags' \in [on : BOOLEAN, inUse : Plans \cup {NoPlan}, unverified : BOOLEAN]  OBVIOUS
  <2>2. mon' \in MonStates /\ rst' \in RstStates  BY MonTypes, RstTypes
  <2> QED  BY <2>1, <2>2
<1>3. Stages' /\ Flags'  BY <1>1
<1>4. Plan' /\ Restores' /\ Known' /\ Logged'  BY <1>1
<1> QED  BY <1>2, <1>3, <1>4

LEMMA InitInv == Init => Inv
<1> SUFFICES ASSUME Init PROVE Inv  OBVIOUS
<1> USE DEF Init, NoFlags, NoRecord
<1>1. /\ mon = [pc |-> "off", try |-> 1, attempted |-> FALSE]
      /\ mon \in MonStates /\ rst \in RstStates
  BY RstTypes DEF MonOff, MonStates
<1>2. Typed  BY <1>1 DEF Typed
<1>3. Stages /\ Flags  BY <1>1 DEF Stages, Flags
<1>4. Plan /\ Restores /\ Known  BY <1>1 DEF Plan, Restores, Known
<1>5. Logged  BY <1>1 DEF Logged, SwitchIsRecorded
<1> QED  BY <1>2, <1>3, <1>4, <1>5 DEF Inv

LEMMA Stutter == ASSUME Inv, UNCHANGED vars PROVE Inv'
BY DEF vars, Inv, Typed, MonStates, RstStates, Stages, Flags, Plan, Restores, Known, Logged,
       SwitchIsRecorded

LEMMA NextKeepsInv == ASSUME OneGamingPlan, Inv, [Next]_vars PROVE Inv'
BY ChooseKeepsInv, StartingKeepsInv, MonitorKeepsInv, RestoreKeepsInv, ShutdownKeepsInv,
   ProcessEndKeepsInv, Stutter DEF Next, User

-----------------------------------------------------------------------------
(* The invariant holds in every state. *)
THEOREM Invariance == OneGamingPlan => (Spec => []Inv)
<1> SUFFICES ASSUME OneGamingPlan PROVE Spec => []Inv  OBVIOUS
<1> QED  BY InitInv, NextKeepsInv, PTL DEF Spec

(* ifeo_power.py:501-558: while the engine's plan is active the file names the user's own. *)
THEOREM AlwaysRecorded == OneGamingPlan => (Spec => []SwitchIsRecorded)
<1> SUFFICES ASSUME OneGamingPlan PROVE Spec => []SwitchIsRecorded  OBVIOUS
<1>1. Inv => SwitchIsRecorded  BY DEF Inv, Logged
<1> QED  BY Invariance, <1>1, PTL

(* After shutdown the engine's plan is gone, or on record if the start was refused. *)
THEOREM RestoredAfterSession == OneGamingPlan => (Spec => []PlanRestoredAfterSession)
<1> SUFFICES ASSUME OneGamingPlan PROVE Spec => []PlanRestoredAfterSession  OBVIOUS
<1>1. Inv => PlanRestoredAfterSession
  BY DEF Inv, Stages, Known, Logged, SwitchIsRecorded, PlanRestoredAfterSession
<1> QED  BY Invariance, <1>1, PTL

(* A start that goes through has undone the switch of an earlier session. *)
THEOREM FindsOwnPlan == OneGamingPlan => (Spec => StartFindsOwnPlan)
<1> SUFFICES ASSUME OneGamingPlan PROVE Spec => StartFindsOwnPlan  OBVIOUS
<1>1. Inv /\ [Next]_vars => [engine' = "running" /\ engine # "running" => ~ours' \/ lost']_vars
  BY DEF Inv, Known, Next, vars, User, Choose, Starting, Boot, RecoverRestore, RecoverFails,
         RecoverNothing, RecoverClear, JailRecoveryRefuses, Capture, CaptureRecord, Monitor, MonCycle, MonStop,
         MonIdle, SetBegin, SetGivesUp, SetSkips, SetRecord, SetSwitch, SetSwitchFails,
         SetRollback, SetVerify, LeaveGameMode, LeftGameMode, Restore, RestoreBegin, RestoreCheck,
         RestoreExternal, RestoreUndo, RestoreUndoFails, RestoreEnd, Shutdown, ShutdownClose,
         ShutdownRestore, ShutdownDone, ProcessEnd
<1> QED  BY Invariance, <1>1, PTL DEF Spec, StartFindsOwnPlan

(* The plan and its record implement the write-ahead discipline. *)
THEOREM KeepsWriteAhead == OneGamingPlan => (Spec => RecordedAhead)
<1> SUFFICES ASSUME OneGamingPlan PROVE Spec => WAL!Spec  BY DEF RecordedAhead
<1> USE DEF WAL!Next, WAL!vars, WAL!Record, WAL!Change, WAL!Undo, WAL!Forget
<1>1. Init => WAL!Init  BY DEF Init, NoRecord, WAL!Init
<1>2. Inv /\ [Next]_vars => [WAL!Next]_(WAL!vars)
  <2> SUFFICES ASSUME Inv, [Next]_vars PROVE [WAL!Next]_(WAL!vars)  OBVIOUS
  <2> USE DEF Inv, Typed, Stages, Flags, Plan, Restores, Known, Logged, SwitchIsRecorded
  <2>1. CASE User  BY <2>1 DEF User, Choose
  <2>2. CASE Starting
    BY <2>2 DEF Starting, Boot, RecoverRestore, RecoverFails, RecoverNothing, RecoverClear, NoRecord,
                JailRecoveryRefuses, Capture, CaptureRecord, Record
  <2>3. CASE Monitor
    BY <2>3 DEF Monitor, MonCycle, MonStop, MonIdle, SetBegin, SetGivesUp, SetSkips, SetRecord,
                SetSwitch, SetSwitchFails, SetRollback, SetVerify, LeaveGameMode, LeftGameMode, Record
  <2>4. CASE \E t \in Threads : Restore(t)
    BY <2>4 DEF Restore, RestoreBegin, RestoreCheck, RestoreExternal, RestoreUndo, RestoreUndoFails,
                RestoreEnd, NoRecord, Record, RstGo
  <2>5. CASE Shutdown \/ ProcessEnd
    BY <2>5 DEF Shutdown, ShutdownClose, ShutdownRestore, ShutdownDone, ProcessEnd
  <2>6. CASE UNCHANGED vars  BY <2>6 DEF vars
  <2> QED  BY <2>1, <2>2, <2>3, <2>4, <2>5, <2>6 DEF Next
<1> QED  BY Invariance, <1>1, <1>2, PTL DEF Spec, WAL!Spec
=============================================================================
