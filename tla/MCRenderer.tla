----------------------------- MODULE MCRenderer -----------------------------
(* Instances of Renderer for TLC: two presets, two slots for requests, two for updates. *)
EXTENDS Renderer
=============================================================================
