---------------------------- MODULE MCSupervisor ----------------------------
(* Instances of Supervisor for TLC: the starts and children are model values. *)
EXTENDS Supervisor
=============================================================================
