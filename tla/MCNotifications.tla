--------------------------- MODULE MCNotifications ---------------------------
(* Instances of Notifications for TLC: two streams. *)
EXTENDS Notifications
=============================================================================
