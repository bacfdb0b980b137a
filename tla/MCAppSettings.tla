---------------------------- MODULE MCAppSettings ----------------------------
(* Instances of AppSettings for TLC: the startup setting and one other. *)
EXTENDS AppSettings

Defaults0 == [f \in Fields |-> FALSE]
=============================================================================
