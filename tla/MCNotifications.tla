-------------------------- MODULE MCNotifications --------------------------
(* Instances of Notifications for TLC. *)
EXTENDS Notifications

CONSTANTS u1, u2, c1

MCUsers == {u1, u2}
MCComponents == {c1}
=============================================================================
