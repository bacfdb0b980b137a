--------------------------- MODULE MCBackendBridge ---------------------------
(* Small instances of BackendBridge for TLC. *)
EXTENDS BackendBridge
CONSTANTS w1, w2

ThreeEngines == 1..3
=============================================================================
