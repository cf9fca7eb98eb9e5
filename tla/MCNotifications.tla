-------------------------- MODULE MCNotifications --------------------------
(* Instances of Notifications for TLC. *)
EXTENDS Notifications

MCEnvironments ==
  {{"mail", "redis", "connection", "stop"}, {"smtp", "expiry", "connection", "crash"},
   {"mail", "connection", "crash"}, {"mail", "smtp", "redis"}}
MCStop == {{"stop"}}
=============================================================================
