----------------------------- MODULE MCPlatform -----------------------------
(* Instances of Platform for TLC. *)
EXTENDS Platform

MCLimit == 100000
MCOneAmount == {MCLimit}
MCDeclined == {MCLimit + 1}

MCOrderFaults == {{"rpc", "crash"}}
MCPaymentFaults == {{"crash"}, {"stop"}}
MCMailFaults == {{"mail"}, {"connection", "crash"}}
MCNoFaults == {{}}
=============================================================================
