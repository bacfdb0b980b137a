-------------------------- MODULE ShutdownContract --------------------------
(***************************************************************************)
(* What the engine's shutdown gate promises, whoever tunes and however the *)
(* restore steps are carried out: tuning starts only while the gate is     *)
(* open, no restore step runs while a tuning step is under way, and once   *)
(* the gate is closed nothing reopens it as long as the process lives.     *)
(* ProcessTuning and EngineLifecycle implement it.                         *)
(***************************************************************************)

VARIABLES
  alive,   \* there is an engine process
  phase,   \* "open", "closing" (gate shut, draining), "drained", "restored"
  busy     \* some thread is inside a process mutation

vars == <<alive, phase, busy>>

Phases == {"open", "closing", "drained", "restored"}

Init == alive = FALSE /\ phase = "open" /\ busy = FALSE

(* A process starts, with a gate of its own. *)
Begin == ~alive /\ alive' = TRUE /\ UNCHANGED <<phase, busy>>

(* A thread enters the mutation section. *)
Tune == alive /\ phase = "open" /\ ~busy /\ busy' = TRUE /\ UNCHANGED <<alive, phase>>

(* The last thread inside leaves it. *)
Settle == busy /\ busy' = FALSE /\ UNCHANGED <<alive, phase>>

(* One caller closes the gate. *)
Close == alive /\ phase = "open" /\ phase' = "closing" /\ UNCHANGED <<alive, busy>>

(* The mutations that were under way have ended: restoring may begin. *)
Drain == phase = "closing" /\ ~busy /\ phase' = "drained" /\ UNCHANGED <<alive, busy>>

(* The restore steps are over. *)
Restored == phase = "drained" /\ phase' = "restored" /\ UNCHANGED <<alive, busy>>

(* The process ends, at any point, and its gate with it. *)
End == alive /\ alive' = FALSE /\ phase' = "open" /\ busy' = FALSE

Next == Begin \/ Tune \/ Settle \/ Close \/ Drain \/ Restored \/ End

Spec == Init /\ [][Next]_vars

=============================================================================
