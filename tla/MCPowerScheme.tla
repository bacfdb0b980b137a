---------------------------- MODULE MCPowerScheme ----------------------------
(* Small instances of PowerScheme for TLC. *)
EXTENDS PowerScheme
CONSTANTS balanced, saver, ultimate, high

UltimateThenHigh == <<ultimate, high>>
=============================================================================
