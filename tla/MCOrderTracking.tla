--------------------------- MODULE MCOrderTracking ---------------------------
(* Instances of OrderTracking for TLC. *)
EXTENDS OrderTracking

MCEnvironments == {{"db", "redis", "crash", "leave"}, {}}
MCNoFaults == {{}}
=============================================================================
