----------------------------- MODULE WriteAhead -----------------------------
(***************************************************************************)
(* What the recovery files promise about a change the engine makes outside *)
(* its own process: it is on record before it is made, and stays on record *)
(* until it is undone, so that the next start can undo it after a crash.   *)
(***************************************************************************)

VARIABLES
  changed,   \* the outside world carries the engine's change
  logged     \* the recovery file says so

vars == <<changed, logged>>

Init == changed = FALSE /\ logged = FALSE

Record == logged' = TRUE /\ UNCHANGED changed

Change == logged /\ changed' = TRUE /\ UNCHANGED logged

(* By the engine, by recovery, or by the user who decides otherwise. *)
Undo == changed' = FALSE /\ UNCHANGED logged

Forget == ~changed /\ logged' = FALSE /\ UNCHANGED changed

Next == Record \/ Change \/ Undo \/ Forget

Spec == Init /\ [][Next]_vars

=============================================================================
