--------------------------- MODULE MCOrderPayment ---------------------------
(* Instances of OrderPayment for TLC: amounts up to the limit and above. *)
EXTENDS OrderPayment

MCLimit == 100000
MCAmounts == {MCLimit, MCLimit + 1}
MCOneAmount == {MCLimit}

MCOrderFaults == {{"db", "rpc", "crash"}}
MCPaymentFaults == {{"db", "crash", "stop"}}
MCOrderRedis == {{"redis"}}
MCPaymentStop == {{"stop"}}
=============================================================================
