--------------------------- MODULE MCOrderService ---------------------------
(* Instances of OrderService for TLC. *)
EXTENDS OrderService

MCEnvironments == {{"db", "redis", "crash"}, {"redis"}, {}}
MCNoFaults == {{}}
=============================================================================
