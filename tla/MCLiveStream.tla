---------------------------- MODULE MCLiveStream ----------------------------
(* Instances of LiveStream for TLC: the requests are model values. *)
EXTENDS LiveStream
=============================================================================
