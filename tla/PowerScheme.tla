----------------------------- MODULE PowerScheme -----------------------------
(***************************************************************************)
(* The Windows power plan: captured at the start, switched to a gaming     *)
(* plan by the monitor thread when a game runs, restored when the games    *)
(* are over, at shutdown, or by the next start after a crash.  The         *)
(* recovery file says which plan to return to.                             *)
(*   isolator/ifeo_power.py  _set_preferred_power_scheme, _restore_power_scheme *)
(*   isolator/recovery.py    the "power" part of the recovery file         *)
(*   isolator/runtime.py     the calls made by run, the monitor, shutdown  *)
(* The only part of the recovery file is the power part, so clearing it    *)
(* deletes the file; a write replaces the file atomically.                 *)
(***************************************************************************)
EXTENDS Naturals, Sequences

CONSTANTS
  Plans,          \* the plans a user may choose
  Preferred,      \* gaming plans in the order they are tried: ultimate, high
  Registered,     \* those of them that exist on this machine
  FaultKinds,     \* calls that may fail: subset of "get", "switch", "restore", "recover", "save"
  MaxFault,       \* bound: how many of them fail
  MaxBoot,        \* bound: engine sessions
  MaxChoice       \* bound: plan changes made by the user

NoPlan == "none"

ASSUME PowerAssumption ==
  /\ Preferred \in Seq(Plans) /\ Registered \subseteq Plans
  /\ NoPlan \notin Plans
  /\ FaultKinds \subseteq {"get", "switch", "restore", "recover", "save"}
  /\ MaxFault \in Nat /\ MaxBoot \in Nat /\ MaxChoice \in Nat

VARIABLES
  active,      \* the plan Windows runs
  ours,        \* history: the engine, not the user, set it to a gaming plan
  home,        \* history: the plan found active by the last start that found the user's own
  lost,        \* history: restoring it failed, and the session has forgotten that it is ours
  disk,        \* the power part of the recovery file
  engine,      \* stage of the session
  original,    \* self._original_power_scheme
  flags,       \* _power_plan_active, _power_scheme_in_use, _power_scheme_set_unverified
  incomplete,  \* self._persistent_recovery_incomplete
  mon,         \* the monitor thread: where it is, the gaming plan it tries, power_scheme_attempted
  rst,         \* per thread, where it is in _restore_power_scheme
  boots, choices, faults   \* bounds used up

windows == <<active, ours, home, lost>>
session == <<engine, original, flags, incomplete, mon, rst>>
vars    == <<windows, disk, session, boots, choices, faults>>

Threads  == {"mon", "main"}
Gaming   == {Preferred[i] : i \in DOMAIN Preferred}
NoRecord == [switched |-> FALSE, original |-> NoPlan]
NoFlags  == [on |-> FALSE, inUse |-> NoPlan, unverified |-> FALSE]
MonOff   == [pc |-> "off", try |-> 1, attempted |-> FALSE]

Fails(kind) == kind \in FaultKinds /\ faults < MaxFault /\ faults' = faults + 1

(* _write_power_recovery_state and _clear_power_recovery_state. *)
Record(switched) ==
  disk' = [switched |-> switched, original |-> original]

Init ==
  /\ active \in Plans /\ ours = FALSE /\ home = active /\ lost = FALSE
  /\ disk = NoRecord
  /\ engine = "down" /\ original = NoPlan /\ flags = NoFlags /\ incomplete = FALSE
  /\ mon = MonOff /\ rst = [t \in Threads |-> "idle"]
  /\ boots = 0 /\ choices = 0 /\ faults = 0

-----------------------------------------------------------------------------
(* The user picks a plan in the control panel. *)
Choose(s) ==
  /\ choices < MaxChoice /\ choices' = choices + 1
  /\ active' = s /\ ours' = FALSE /\ lost' = FALSE
  /\ UNCHANGED <<home, disk, session, boots, faults>>

-----------------------------------------------------------------------------
(* run: _recover_persistent_state, then the capture of the original plan.  *)

Boot ==
  /\ engine = "down" /\ boots < MaxBoot
  /\ boots' = boots + 1 /\ engine' = "recovering"
  /\ UNCHANGED <<windows, disk, original, flags, incomplete, mon, rst, choices, faults>>

(* A switched record: put the recorded plan back. *)
RecoverRestore ==
  /\ engine = "recovering" /\ disk.switched
  /\ active' = disk.original /\ ours' = FALSE /\ lost' = FALSE /\ engine' = "clearing"
  /\ UNCHANGED <<home, disk, original, flags, incomplete, mon, rst, boots, choices, faults>>

(* Faulty variant: the failure is logged and the start goes on. *)
RecoverFailsSilently ==
  /\ engine = "recovering" /\ disk.switched /\ Fails("recover")
  /\ engine' = "clearing"
  /\ UNCHANGED <<windows, disk, original, flags, incomplete, mon, rst, boots, choices>>

(* That fails: the record stays and the start is refused. *)
RecoverFails ==
  /\ engine = "recovering" /\ disk.switched /\ Fails("recover")
  /\ engine' = "refused" /\ incomplete' = TRUE
  /\ UNCHANGED <<windows, disk, original, flags, mon, rst, boots, choices>>

(* Nothing to undo. *)
RecoverNothing ==
  /\ engine = "recovering" /\ ~disk.switched /\ engine' = "clearing"
  /\ UNCHANGED <<windows, disk, original, flags, incomplete, mon, rst, boots, choices, faults>>

RecoverClear ==
  /\ engine = "clearing" /\ engine' = "starting"
  /\ \/ disk' = NoRecord /\ UNCHANGED faults
     \/ Fails("save") /\ UNCHANGED disk
  /\ UNCHANGED <<windows, original, flags, incomplete, mon, rst, boots, choices>>

(* Jail recovery refuses the start. *)
JailRecoveryRefuses ==
  /\ engine = "starting" /\ engine' = "refused" /\ incomplete' = TRUE
  /\ UNCHANGED <<windows, disk, original, flags, mon, rst, boots, choices, faults>>

Capture ==
  /\ engine = "starting" /\ engine' = "captured"
  /\ \/ original' = active /\ UNCHANGED faults
     \/ original' = NoPlan /\ Fails("get")
  /\ home' = IF ours THEN home ELSE active
  /\ UNCHANGED <<active, ours, lost, disk, flags, incomplete, mon, rst, boots, choices>>

(* The first record; whether it could be written is not looked at. *)
CaptureRecord ==
  /\ engine = "captured" /\ engine' = "running" /\ mon' = [MonOff EXCEPT !.pc = "top"]
  /\ \/ (IF original = NoPlan THEN UNCHANGED disk ELSE Record(FALSE)) /\ UNCHANGED faults
     \/ original # NoPlan /\ Fails("save") /\ UNCHANGED disk
  /\ UNCHANGED <<windows, original, flags, incomplete, rst, boots, choices>>

-----------------------------------------------------------------------------
(* _monitor_loop, as far as the plan is concerned.                         *)

MonCycle ==
  /\ mon.pc = "top" /\ engine = "running" /\ mon' = [mon EXCEPT !.pc = "in"]
  /\ UNCHANGED <<windows, disk, engine, original, flags, incomplete, rst, boots, choices, faults>>

MonStop ==
  /\ mon.pc = "top" /\ engine # "running" /\ mon' = MonOff
  /\ UNCHANGED <<windows, disk, engine, original, flags, incomplete, rst, boots, choices, faults>>

(* No change of Game Mode in this cycle. *)
MonIdle ==
  /\ mon.pc = "in" /\ mon' = [mon EXCEPT !.pc = "top"]
  /\ UNCHANGED <<windows, disk, engine, original, flags, incomplete, rst, boots, choices, faults>>

(* Games run, and the plan has not been tried: _set_preferred_power_scheme, up to its first record. *)
SetBegin ==
  /\ mon.pc = "in" /\ ~mon.attempted /\ ~flags.on
  /\ LET give_up == mon' = [mon EXCEPT !.pc = "top", !.attempted = TRUE] IN
     IF original = NoPlan \/ original \in Gaming
     THEN give_up /\ UNCHANGED <<disk, faults>>
     ELSE \/ Record(FALSE) /\ mon' = [mon EXCEPT !.pc = "log", !.try = 1] /\ UNCHANGED faults
          \/ Fails("save") /\ give_up /\ UNCHANGED disk
  /\ UNCHANGED <<windows, engine, original, flags, incomplete, rst, boots, choices>>

NextTry == mon' = [mon EXCEPT !.pc = "log", !.try = @ + 1]
SetEnds == mon' = [mon EXCEPT !.pc = "top", !.attempted = TRUE]

SetGivesUp ==
  /\ mon.pc = "log" /\ mon.try > Len(Preferred) /\ SetEnds
  /\ UNCHANGED <<windows, disk, engine, original, flags, incomplete, rst, boots, choices, faults>>

SetSkips ==
  /\ mon.pc = "log" /\ mon.try <= Len(Preferred) /\ Preferred[mon.try] \notin Registered /\ NextTry
  /\ UNCHANGED <<windows, disk, engine, original, flags, incomplete, rst, boots, choices, faults>>

(* Faulty variant: the record is left for after the switch. *)
SetRecordLater ==
  /\ mon.pc = "log" /\ mon.try <= Len(Preferred) /\ Preferred[mon.try] \in Registered
  /\ mon' = [mon EXCEPT !.pc = "switch"]
  /\ UNCHANGED <<windows, disk, engine, original, flags, incomplete, rst, boots, choices, faults>>

(* On record before the switch, except after an earlier unverified one: that record stands. *)
SetRecord ==
  /\ mon.pc = "log" /\ mon.try <= Len(Preferred) /\ Preferred[mon.try] \in Registered
  /\ IF flags.unverified
     THEN mon' = [mon EXCEPT !.pc = "switch"] /\ UNCHANGED <<disk, faults>>
     ELSE \/ Record(TRUE) /\ mon' = [mon EXCEPT !.pc = "switch"] /\ UNCHANGED faults
          \/ Fails("save") /\ SetEnds /\ UNCHANGED disk
  /\ UNCHANGED <<windows, engine, original, flags, incomplete, rst, boots, choices>>

SetSwitch ==
  /\ mon.pc = "switch"
  /\ active' = Preferred[mon.try] /\ ours' = TRUE /\ lost' = FALSE
  /\ mon' = [mon EXCEPT !.pc = "verify"]
  /\ UNCHANGED <<home, disk, engine, original, flags, incomplete, rst, boots, choices, faults>>

(* The call is refused: take the record back, unless an unverified switch needs it. *)
SetSwitchFails ==
  /\ mon.pc = "switch" /\ Fails("switch")
  /\ IF flags.unverified THEN NextTry ELSE mon' = [mon EXCEPT !.pc = "rollback"]
  /\ UNCHANGED <<windows, disk, engine, original, flags, incomplete, rst, boots, choices>>

SetRollback ==
  /\ mon.pc = "rollback" /\ NextTry
  /\ \/ Record(FALSE) /\ UNCHANGED faults
     \/ Fails("save") /\ UNCHANGED disk
  /\ UNCHANGED <<windows, engine, original, flags, incomplete, rst, boots, choices>>

(* Faulty variant: a label is kept where the plan is expected. *)
SetVerifyKeepsLabel ==
  LET verified == active = Preferred[mon.try] IN
  /\ mon.pc = "verify" /\ verified /\ SetEnds
  /\ flags' = [flags EXCEPT !.on = TRUE, !.inUse = "ultimate"]
  /\ UNCHANGED <<windows, disk, engine, original, incomplete, rst, boots, choices, faults>>

(* Faulty variant: a plan that reads back differently is taken for not switched. *)
SetVerifyRollsBack ==
  LET verified == active = Preferred[mon.try] IN
  /\ mon.pc = "verify"
  /\ \/ /\ verified /\ SetEnds /\ UNCHANGED faults
        /\ flags' = [flags EXCEPT !.on = TRUE, !.inUse = Preferred[mon.try]]
     \/ /\ (~verified /\ UNCHANGED faults) \/ (verified /\ Fails("get"))
        /\ mon' = [mon EXCEPT !.pc = "rollback"] /\ UNCHANGED flags
  /\ UNCHANGED <<windows, disk, engine, original, incomplete, rst, boots, choices>>

(* Read the active plan back.  On a mismatch the record stays and the next plan is tried. *)
SetVerify ==
  LET verified == active = Preferred[mon.try] IN
  /\ mon.pc = "verify"
  /\ \/ /\ verified /\ SetEnds /\ UNCHANGED faults
        /\ flags' = [flags EXCEPT !.on = TRUE, !.inUse = Preferred[mon.try]]
     \/ /\ (~verified /\ UNCHANGED faults) \/ (verified /\ Fails("get"))
        /\ NextTry
        /\ flags' = [flags EXCEPT !.unverified = TRUE]
  /\ UNCHANGED <<windows, disk, engine, original, incomplete, rst, boots, choices>>

(* All games closed for long enough: restore if there is something to restore. *)
LeaveGameMode ==
  /\ mon.pc = "in" /\ mon.attempted
  /\ IF flags.on \/ flags.unverified
     THEN mon' = [mon EXCEPT !.pc = "restoring"] /\ rst' = [rst EXCEPT !["mon"] = "begin"]
     ELSE mon' = [mon EXCEPT !.pc = "top", !.attempted = FALSE] /\ UNCHANGED rst
  /\ UNCHANGED <<windows, disk, engine, original, flags, incomplete, boots, choices, faults>>

LeftGameMode ==
  /\ mon.pc = "restoring" /\ rst["mon"] = "idle"
  /\ mon' = [mon EXCEPT !.pc = "top", !.attempted = FALSE]
  /\ UNCHANGED <<windows, disk, engine, original, flags, incomplete, rst, boots, choices, faults>>

-----------------------------------------------------------------------------
(* _restore_power_scheme in thread t.                                      *)

RstGo(t, pc) == rst' = [rst EXCEPT ![t] = pc]

(* Faulty variant: only a verified switch is restored. *)
RestoreBeginVerifiedOnly(t) ==
  /\ rst[t] = "begin"
  /\ RstGo(t, IF original # NoPlan /\ flags.on THEN "check" ELSE "clear")
  /\ UNCHANGED <<windows, disk, engine, original, flags, incomplete, mon, boots, choices, faults>>

RestoreBegin(t) ==
  /\ rst[t] = "begin"
  /\ RstGo(t, CASE incomplete /\ ~flags.on /\ ~flags.unverified -> "idle"
                [] flags.unverified /\ ~flags.on /\ original # NoPlan -> "undo"
                [] original # NoPlan /\ flags.on -> "check"
                [] OTHER -> "clear")
  /\ UNCHANGED <<windows, disk, engine, original, flags, incomplete, mon, boots, choices, faults>>

(* Still the plan we switched to?  An unreadable plan counts as ours. *)
RestoreCheck(t) ==
  /\ rst[t] = "check"
  /\ \/ RstGo(t, IF active = flags.inUse THEN "undo" ELSE "external") /\ UNCHANGED faults
     \/ RstGo(t, "undo") /\ Fails("get")
  /\ UNCHANGED <<windows, disk, engine, original, flags, incomplete, mon, boots, choices>>

(* The user changed it meanwhile: forget the record, and leave the unverified flag as it is. *)
RestoreExternal(t) ==
  /\ rst[t] = "external" /\ RstGo(t, "idle")
  /\ \/ disk' = NoRecord /\ UNCHANGED faults
     \/ Fails("save") /\ UNCHANGED disk
  /\ flags' = [flags EXCEPT !.on = FALSE, !.inUse = NoPlan]
  /\ UNCHANGED <<windows, engine, original, incomplete, mon, boots, choices>>

RestoreUndo(t) ==
  /\ rst[t] = "undo" /\ RstGo(t, "clear")
  /\ active' = original /\ ours' = FALSE /\ lost' = FALSE
  /\ UNCHANGED <<home, disk, engine, original, flags, incomplete, mon, boots, choices, faults>>

RestoreUndoFails(t) ==
  /\ rst[t] = "undo" /\ Fails("restore") /\ RstGo(t, "keep") /\ lost' = ours
  /\ UNCHANGED <<active, ours, home, disk, engine, original, flags, incomplete, mon, boots, choices>>

(* Write the record again (keep), or clear it; in both cases the session forgets its switch. *)
RestoreEnd(t) ==
  /\ rst[t] \in {"keep", "clear"} /\ RstGo(t, "idle")
  /\ \/ (IF rst[t] = "keep" THEN Record(TRUE) ELSE disk' = NoRecord) /\ UNCHANGED faults
     \/ Fails("save") /\ UNCHANGED disk
  /\ flags' = NoFlags
  /\ UNCHANGED <<windows, engine, original, incomplete, mon, boots, choices>>

-----------------------------------------------------------------------------
(* Shutdown: close, join the monitor, restore.  (Where the join is skipped *)
(* or times out, EngineLifecycle has the two threads overlap.)             *)

ShutdownClose ==
  /\ engine \in {"running", "refused"} /\ engine' = "closing"
  /\ UNCHANGED <<windows, disk, original, flags, incomplete, mon, rst, boots, choices, faults>>

ShutdownRestore ==
  /\ engine = "closing" /\ mon.pc = "off"
  /\ engine' = "restoring" /\ RstGo("main", "begin")
  /\ UNCHANGED <<windows, disk, original, flags, incomplete, mon, boots, choices, faults>>

ShutdownDone ==
  /\ engine = "restoring" /\ rst["main"] = "idle" /\ engine' = "stopped"
  /\ UNCHANGED <<windows, disk, original, flags, incomplete, mon, rst, boots, choices, faults>>

(* A crash, a kill, or the exit of a stopped engine. *)
ProcessEnd ==
  /\ engine # "down" /\ engine' = "down"
  /\ original' = NoPlan /\ flags' = NoFlags /\ incomplete' = FALSE
  /\ mon' = MonOff /\ rst' = [t \in Threads |-> "idle"]
  /\ UNCHANGED <<windows, disk, boots, choices, faults>>

-----------------------------------------------------------------------------
User     == \E s \in Plans : Choose(s)
Starting == \/ Boot \/ RecoverRestore \/ RecoverFails \/ RecoverNothing \/ RecoverClear
            \/ JailRecoveryRefuses \/ Capture \/ CaptureRecord
Monitor  == \/ MonCycle \/ MonStop \/ MonIdle \/ SetBegin \/ SetGivesUp \/ SetSkips \/ SetRecord
            \/ SetSwitch \/ SetSwitchFails \/ SetRollback \/ SetVerify
            \/ LeaveGameMode \/ LeftGameMode
Restore(t) == \/ RestoreBegin(t) \/ RestoreCheck(t) \/ RestoreExternal(t)
              \/ RestoreUndo(t) \/ RestoreUndoFails(t) \/ RestoreEnd(t)
Shutdown == ShutdownClose \/ ShutdownRestore \/ ShutdownDone

Next == \/ User \/ Starting \/ Monitor \/ (\E t \in Threads : Restore(t))
        \/ Shutdown \/ ProcessEnd

Spec == Init /\ [][Next]_vars

-----------------------------------------------------------------------------
(* Every variable holds a value of its kind. *)
TypeOK ==
  /\ active \in Plans /\ ours \in BOOLEAN /\ home \in Plans /\ lost \in BOOLEAN
  /\ disk \in [switched : BOOLEAN, original : Plans \cup {NoPlan}]
  /\ engine \in {"down", "recovering", "clearing", "starting", "captured", "running",
                 "refused", "closing", "restoring", "stopped"}
  /\ original \in Plans \cup {NoPlan}
  /\ flags \in [on : BOOLEAN, inUse : Plans \cup {NoPlan}, unverified : BOOLEAN]
  /\ incomplete \in BOOLEAN
  /\ mon \in [pc : {"off", "top", "in", "log", "switch", "verify", "rollback", "restoring"},
              try : 1..(Len(Preferred) + 1), attempted : BOOLEAN]
  /\ rst \in [Threads -> {"idle", "begin", "check", "external", "undo", "keep", "clear"}]
  /\ boots \in 0..MaxBoot /\ choices \in 0..MaxChoice /\ faults \in 0..MaxFault

(* ifeo_power.py:501-515, 538-558, docs/index.html:336-340: whenever the engine's gaming   *)
(* plan is active the recovery file says so and names the user's own plan, at every step   *)
(* of switching, verifying, falling back, restoring, crashing and starting again.          *)
SwitchIsRecorded == ours /\ ~lost => disk = [switched |-> TRUE, original |-> home]

(* README.md:50: once shutdown is over the engine's plan is gone; if it came from an       *)
(* earlier session and this one was refused its start, it is still on record.              *)
PlanRestoredAfterSession ==
  engine = "stopped" /\ mon.pc = "off" /\ ~lost =>
    ~ours \/ (incomplete /\ disk.switched /\ disk.original = home)

(* recovery.py:166-199: a start that goes through has undone the switch of an earlier one. *)
StartFindsOwnPlan == [][engine' = "running" /\ engine # "running" => ~ours' \/ lost']_vars

(* The power plan and its record keep the write-ahead discipline. *)
WAL == INSTANCE WriteAhead WITH changed <- ours /\ ~lost, logged <- disk.switched
RecordedAhead == WAL!Spec
=============================================================================
