-------------------------- MODULE MCNotifications --------------------------
(* Notifications, with the constants of the configurations.                *)
EXTENDS Notifications
=============================================================================
