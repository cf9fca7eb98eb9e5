----------------------------- MODULE MCPayments -----------------------------
(* Instances of Payments for TLC: amounts on both sides of the limit. *)
EXTENDS Payments

MCLimit == 100000
MCAmounts == {0, MCLimit, MCLimit + 1}

MCEnvironments == {{"db", "broker", "crash", "stop"}, {"stop"}}
=============================================================================
