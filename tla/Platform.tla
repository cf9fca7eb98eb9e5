------------------------------ MODULE Platform ------------------------------
(***************************************************************************)
(* The three services together.  What OrderPayment publishes, Notifications *)
(* consumes: the event of payment call m is message m, and m, the uuid the  *)
(* call minted, is its MessageID.  The queue is durable, so a message waits *)
(* for a consumer that is not there.                                        *)
(***************************************************************************)
EXTENDS Naturals

CONSTANTS Creates, Cancels, Reads, Keys, Direct, Amounts, Limit,
          OrderEnvironments, PaymentEnvironments,   \* as in OrderPayment
          Workers, MaxRetries, MailEnvironments     \* as in Notifications

VARIABLES orders, cache, create, cancel, read, rpc, orderFaults,
          payments, published, call, svc, paymentFaults,
          place, buffer, loop, worker, keys, sent, notifier, conn, mailFaults, excused

Messages == Creates \cup Direct

Sys == INSTANCE OrderPayment

Note == INSTANCE Notifications WITH
          Malformed <- {}, Environments <- MailEnvironments,
          svc <- notifier, faults <- mailFaults

sysVars == <<orders, cache, create, cancel, read, rpc, orderFaults,
             payments, published, call, svc, paymentFaults>>
noteVars == <<place, buffer, loop, worker, keys, sent, notifier, conn, mailFaults, excused>>
vars == <<sysVars, noteVars>>

ASSUME PlatformAssumption == Sys!CompositionAssumption /\ Note!NotificationsAssumption

Init == Sys!Init /\ Note!Init

(* A step of the order or the payment service that publishes nothing. *)
SystemStep ==
  /\ Sys!Next
  /\ sysVars' # sysVars
  /\ published' = published
  /\ UNCHANGED noteVars

(* The broker accepts an event: it is on its queue. *)
EventPublished(m) ==
  /\ Sys!PaymentStep
  /\ \E e \in published' \ published : e.id = m
  /\ Note!Publish(m)

(* A step of the notification service or of the broker behind it. *)
NotifierStep ==
  /\ Note!Next
  /\ noteVars' # noteVars
  /\ \A m \in Messages : place[m] = "unpublished" => place'[m] = "unpublished"
  /\ UNCHANGED sysVars

Finished == Sys!Finished /\ Note!Finished

Next ==
  \/ SystemStep
  \/ \E m \in Messages : EventPublished(m)
  \/ NotifierStep
  \/ Finished

Spec == Init /\ [][Next]_vars

(* What each part is granted on its own. *)
FairSpec == Spec /\ Sys!Fairness /\ Note!Fairness

-----------------------------------------------------------------------------
(* However often a client repeats a POST and whatever fails on the way, an *)
(* Idempotency-Key leads to one payment e-mail at most, about a payment    *)
(* that is on record.  E-mails of payments for no order have no key.       *)
KeyOf(m) == create[call[m].order].key

KeyEmailedOnce ==
  \A m \in Messages : sent[m] > 0 =>
    /\ \E p \in payments : p.id = m
    /\ m \notin excused => sent[m] = 1
    /\ \A n \in Messages :
         /\ sent[n] > 0 /\ KeyOf(n) = KeyOf(m)
         /\ Sys!OnRecord(call[m].order) /\ Sys!OnRecord(call[n].order)
         => n = m

(* An order that shows as Paid is told of by e-mail, or, where e-mails are *)
(* refused, ends in the dead letter queue: for whatever befalls the order  *)
(* and the payment service, if only the broker and the notifier last.      *)
PaidOrdersEmailed ==
  \A o \in Creates :
    orders[o] = "Paid" /\ "broker" \notin paymentFaults /\ mailFaults \subseteq {"mail"}
      ~> sent[o] > 0 \/ ("mail" \in mailFaults /\ place[o] = "dead")

(* The text of the e-mail: "Your payment of ... has been successfully      *)
(* processed".                                                             *)
EmailedPaymentsSucceeded ==
  \A m \in Messages : sent[m] > 0 => \E p \in payments : p.id = m /\ p.status = "Authorized"
=============================================================================
