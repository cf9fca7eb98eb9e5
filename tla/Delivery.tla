------------------------------- MODULE Delivery -------------------------------
(***************************************************************************)
(* What the notification service promises for each message: it is settled  *)
(* at most once, acked or dead-lettered; its e-mail goes out before that   *)
(* and never after; and it goes out once, except for messages in doubt,    *)
(* whose sender reported an error that was none or whose claim expired.    *)
(***************************************************************************)
EXTENDS Naturals

CONSTANT Messages

VARIABLES fate,     \* unpublished, queued, acked or dead
          mails,    \* e-mails sent, two standing for more than one
          doubtful  \* messages that may be e-mailed again

vars == <<fate, mails, doubtful>>

Init ==
  /\ fate = [m \in Messages |-> "unpublished"]
  /\ mails = [m \in Messages |-> 0]
  /\ doubtful = {}

Queue(m) ==
  /\ fate[m] = "unpublished"
  /\ fate' = [fate EXCEPT ![m] = "queued"]
  /\ UNCHANGED <<mails, doubtful>>

Mail(m) ==
  /\ fate[m] = "queued"
  /\ mails' = [mails EXCEPT ![m] = @ + 1]
  /\ doubtful' \in {doubtful, doubtful \cup {m}}
  /\ mails'[m] = 2 => m \in doubtful'
  /\ mails'[m] <= 2
  /\ UNCHANGED fate

Doubt(m) ==
  /\ fate[m] = "queued"
  /\ m \notin doubtful
  /\ doubtful' = doubtful \cup {m}
  /\ UNCHANGED <<fate, mails>>

Settle(m) ==
  /\ fate[m] = "queued"
  /\ fate'[m] \in {"acked", "dead"}
  /\ fate' = [fate EXCEPT ![m] = fate'[m]]
  /\ UNCHANGED <<mails, doubtful>>

Next == \E m \in Messages : Queue(m) \/ Mail(m) \/ Doubt(m) \/ Settle(m)

Spec == Init /\ [][Next]_vars
=============================================================================
