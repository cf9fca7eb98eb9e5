--------------------------- MODULE PaymentLedger ---------------------------
(***************************************************************************)
(* What the payment service promises, with no calls, crashes or races: one *)
(* decision per order, taken from the amount alone and never revised, and  *)
(* at most one announcement of a decision, never before it is recorded.    *)
(***************************************************************************)
EXTENDS Naturals

CONSTANTS OrderIds,   \* the order_id values payments are made for
          Amounts,    \* the amounts requests carry
          Limit       \* the largest amount that is authorized

VARIABLES ledger,     \* decisions recorded so far
          announced   \* decisions other services have been told of

Decision(a) == IF a > Limit THEN "Declined" ELSE "Authorized"

Init ==
  /\ ledger = {}
  /\ announced = {}

(* One decision for an order that has none. *)
Record(o, a) ==
  /\ a > 0
  /\ \A e \in ledger : e.order # o
  /\ ledger' = ledger \cup {[order |-> o, amount |-> a, status |-> Decision(a)]}
  /\ UNCHANGED announced

(* A recorded decision is announced, once. *)
Announce(e) ==
  /\ e \in ledger \ announced
  /\ announced' = announced \cup {e}
  /\ UNCHANGED ledger

Next ==
  \/ \E o \in OrderIds, a \in Amounts : Record(o, a)
  \/ \E e \in ledger : Announce(e)

Spec == Init /\ [][Next]_<<ledger, announced>>
=============================================================================
