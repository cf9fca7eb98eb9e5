--------------------------- MODULE OrderLifecycle ---------------------------
(***************************************************************************)
(* What the order service promises of the status column, with no requests, *)
(* caches or races: an order opens Pending once, its payment outcome is    *)
(* written at most once and never revised, and a cancellation may land     *)
(* before or after the outcome.                                            *)
(***************************************************************************)
CONSTANT Orders       \* order IDs

VARIABLES status,     \* the status of each order, "Absent" before it exists
          decided     \* orders whose payment outcome can no longer be written

Init ==
  /\ status = [o \in Orders |-> "Absent"]
  /\ decided = {}

Open(o) ==
  /\ status[o] = "Absent"
  /\ status' = [status EXCEPT ![o] = "Pending"]
  /\ UNCHANGED decided

(* The outcome of the payment overwrites Pending or Cancelled, once. *)
Settle(o, outcome) ==
  /\ o \notin decided
  /\ status[o] \in {"Pending", "Cancelled"}
  /\ status' = [status EXCEPT ![o] = outcome]
  /\ decided' = decided \cup {o}

(* The outcome of some opened orders is lost and will never be written. *)
Forfeit(S) ==
  /\ \A o \in S : status[o] # "Absent"
  /\ decided' = decided \cup S
  /\ UNCHANGED status

Cancel(o) ==
  /\ status[o] # "Absent"
  /\ status' = [status EXCEPT ![o] = "Cancelled"]
  /\ UNCHANGED decided

Next ==
  \/ \E o \in Orders : Open(o) \/ Cancel(o)
  \/ \E o \in Orders, outcome \in {"Paid", "Failed"} : Settle(o, outcome)
  \/ \E S \in SUBSET Orders : Forfeit(S)

Spec == Init /\ [][Next]_<<status, decided>>
=============================================================================
