-------------------------- MODULE MCEngineLifecycle --------------------------
(* EngineLifecycle for TLC; its constants are plain values. *)
EXTENDS EngineLifecycle
=============================================================================
