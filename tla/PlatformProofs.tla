--------------------------- MODULE PlatformProofs ---------------------------
(***************************************************************************)
(* Proofs about the three services together, for any requests, keys,       *)
(* amounts, workers and retries and any failures: the order and payment    *)
(* services, and the notification service, each keep to the specification  *)
(* of their own module, and an idempotency key leads to one e-mail.        *)
(*                                                                         *)
(* The invariants proved of the parts are taken over; what is added is how *)
(* a message on the queue and the event it carries correspond.             *)
(***************************************************************************)
EXTENDS Platform, TLAPS

SysP == INSTANCE OrderPaymentProofs

NoteP == INSTANCE NotificationsProofs WITH
           Malformed <- {}, Environments <- MailEnvironments,
           svc <- notifier, faults <- mailFaults

(* Both ways to the modules, with and without their proofs, lead to the    *)
(* same actions.                                                           *)
LEMMA SameOrderActions ==
  /\ Sys!OrderStep => SysP!OrderStep
  /\ \A o \in Creates :
       /\ Sys!RpcReturns(o) => SysP!RpcReturns(o)
       /\ Sys!RpcRefused(o) => SysP!RpcRefused(o)
       /\ Sys!RpcLost(o) => SysP!RpcLost(o)
BY DEF Sys!orderVars, SysP!orderVars, Sys!paymentVars, SysP!paymentVars, Sys!AnswerTo,
    SysP!AnswerTo, Sys!RpcReturns, SysP!RpcReturns, Sys!RpcRefused, SysP!RpcRefused,
    Sys!RpcLost, SysP!RpcLost, Sys!OrderStep, SysP!OrderStep, Sys!Ord!Status,
    SysP!Ord!Status, Sys!Ord!Terminal, SysP!Ord!Terminal, Sys!Ord!Answer,
    SysP!Ord!Answer, Sys!Ord!None, SysP!Ord!None, Sys!Ord!CreateAt, SysP!Ord!CreateAt,
    Sys!Ord!CreateGoto, SysP!Ord!CreateGoto, Sys!Ord!Respond, SysP!Ord!Respond,
    Sys!Ord!Holds, SysP!Ord!Holds, Sys!Ord!PostOrder, SysP!Ord!PostOrder,
    Sys!Ord!LookupHit, SysP!Ord!LookupHit, Sys!Ord!LookupMiss, SysP!Ord!LookupMiss,
    Sys!Ord!Insert, SysP!Ord!Insert, Sys!Ord!InsertFails, SysP!Ord!InsertFails,
    Sys!Ord!NotifyPending, SysP!Ord!NotifyPending, Sys!Ord!Authorize,
    SysP!Ord!Authorize, Sys!Ord!RpcEnds, SysP!Ord!RpcEnds, Sys!Ord!OutcomeOf,
    SysP!Ord!OutcomeOf, Sys!Ord!Resume, SysP!Ord!Resume, Sys!Ord!AfterSettle,
    SysP!Ord!AfterSettle, Sys!Ord!Settled, SysP!Ord!Settled, Sys!Ord!Settle,
    SysP!Ord!Settle, Sys!Ord!Evict, SysP!Ord!Evict, Sys!Ord!CreateEvict,
    SysP!Ord!CreateEvict, Sys!Ord!Announce, SysP!Ord!Announce, Sys!Ord!CreateStep,
    SysP!Ord!CreateStep, Sys!Ord!CancelAt, SysP!Ord!CancelAt, Sys!Ord!CancelGoto,
    SysP!Ord!CancelGoto, Sys!Ord!CancelRespond, SysP!Ord!CancelRespond,
    Sys!Ord!PatchCancel, SysP!Ord!PatchCancel, Sys!Ord!CancelLoadFails,
    SysP!Ord!CancelLoadFails, Sys!Ord!CancelLoad, SysP!Ord!CancelLoad,
    Sys!Ord!CancelWrite, SysP!Ord!CancelWrite, Sys!Ord!CancelEvict,
    SysP!Ord!CancelEvict, Sys!Ord!CancelAnnounce, SysP!Ord!CancelAnnounce,
    Sys!Ord!CancelStep, SysP!Ord!CancelStep, Sys!Ord!ReadAt, SysP!Ord!ReadAt,
    Sys!Ord!ReadGoto, SysP!Ord!ReadGoto, Sys!Ord!ReadReturn, SysP!Ord!ReadReturn,
    Sys!Ord!StartRead, SysP!Ord!StartRead, Sys!Ord!CacheHit, SysP!Ord!CacheHit,
    Sys!Ord!CacheMiss, SysP!Ord!CacheMiss, Sys!Ord!LoadRow, SysP!Ord!LoadRow,
    Sys!Ord!LoadFails, SysP!Ord!LoadFails, Sys!Ord!FillCache, SysP!Ord!FillCache,
    Sys!Ord!ReadStep, SysP!Ord!ReadStep, Sys!Ord!CacheExpires, SysP!Ord!CacheExpires,
    Sys!Ord!Over, SysP!Ord!Over, Sys!Ord!Killed, SysP!Ord!Killed, Sys!Ord!Crash,
    SysP!Ord!Crash

LEMMA SamePaymentActions ==
  /\ Sys!PaymentStep => SysP!PaymentStep
  /\ \A o \in Creates : Sys!RpcArrives(o) => SysP!RpcArrives(o)
  /\ \A c \in Direct, o \in Creates, a \in Amounts :
       Sys!DirectCall(c, o, a) => SysP!DirectCall(c, o, a)
BY DEF Sys!orderVars, SysP!orderVars, Sys!paymentVars, SysP!paymentVars, Sys!RpcArrives,
    SysP!RpcArrives, Sys!DirectCall, SysP!DirectCall, Sys!PaymentStep,
    SysP!PaymentStep, Sys!Pay!Calls, SysP!Pay!Calls, Sys!Pay!PaymentStatus,
    SysP!Pay!PaymentStatus, Sys!Pay!InFlight, SysP!Pay!InFlight, Sys!Pay!Taken,
    SysP!Pay!Taken, Sys!Pay!Decision, SysP!Pay!Decision, Sys!Pay!PaymentOf,
    SysP!Pay!PaymentOf, Sys!Pay!Goto, SysP!Pay!Goto, Sys!Pay!Return, SysP!Pay!Return,
    Sys!Pay!Arrive, SysP!Pay!Arrive, Sys!Pay!CheckFinds, SysP!Pay!CheckFinds,
    Sys!Pay!DbMayFail, SysP!Pay!DbMayFail, Sys!Pay!CheckPasses, SysP!Pay!CheckPasses,
    Sys!Pay!Insert, SysP!Pay!Insert, Sys!Pay!InsertFails, SysP!Pay!InsertFails,
    Sys!Pay!Publish, SysP!Pay!Publish, Sys!Pay!PublishLost, SysP!Pay!PublishLost,
    Sys!Pay!CallStep, SysP!Pay!CallStep, Sys!Pay!Sigterm, SysP!Pay!Sigterm,
    Sys!Pay!CloseBroker, SysP!Pay!CloseBroker, Sys!Pay!Die, SysP!Pay!Die,
    Sys!Pay!Exit, SysP!Pay!Exit, Sys!Pay!Crash, SysP!Pay!Crash, Sys!Pay!Restart,
    SysP!Pay!Restart, Sys!Pay!Process, SysP!Pay!Process

LEMMA SameSystemNext == [Sys!Next]_(Sys!vars) => [SysP!Next]_(SysP!vars)
<1>1. UNCHANGED Sys!vars => UNCHANGED SysP!vars
  BY DEF Sys!vars, SysP!vars, Sys!orderVars, SysP!orderVars, Sys!paymentVars, SysP!paymentVars
<1>2. Sys!Finished => UNCHANGED SysP!vars
  BY <1>1 DEF Sys!Finished
<1>. QED  BY <1>1, <1>2, SameOrderActions, SamePaymentActions DEF Sys!Next, SysP!Next

LEMMA SameNotifierNext == [Note!Next]_(Note!vars) => [NoteP!Next]_(NoteP!vars)
BY DEF Note!vars, NoteP!vars, Note!None, NoteP!None, Note!Waiting, NoteP!Waiting,
    Note!Ended, NoteP!Ended, Note!SentCap, NoteP!SentCap, Note!IdleWorker,
    NoteP!IdleWorker, Note!Publish, NoteP!Publish, Note!Deliver, NoteP!Deliver,
    Note!Requeued, NoteP!Requeued, Note!Receive, NoteP!Receive, Note!LoopEnds,
    NoteP!LoopEnds, Note!StartWorker, NoteP!StartWorker, Note!At, NoteP!At, Note!Goto,
    NoteP!Goto, Note!RedisMayFail, NoteP!RedisMayFail, Note!ClaimNew, NoteP!ClaimNew,
    Note!ClaimFinds, NoteP!ClaimFinds, Note!ClaimFails, NoteP!ClaimFails,
    Note!CountedUp, NoteP!CountedUp, Note!Send, NoteP!Send, Note!SendFails,
    NoteP!SendFails, Note!Release, NoteP!Release, Note!SettleAs, NoteP!SettleAs,
    Note!Ack, NoteP!Ack, Note!Nack, NoteP!Nack, Note!WorkerStep, NoteP!WorkerStep,
    Note!Settled, NoteP!Settled, Note!KeyExpires, NoteP!KeyExpires, Note!CloseConn,
    NoteP!CloseConn, Note!ConnectionLost, NoteP!ConnectionLost, Note!Sigterm,
    NoteP!Sigterm, Note!CloseConsumer, NoteP!CloseConsumer, Note!Die, NoteP!Die,
    Note!Exit, NoteP!Exit, Note!Crash, NoteP!Crash, Note!Restart, NoteP!Restart,
    Note!Process, NoteP!Process, Note!Finished, NoteP!Finished, Note!Next, NoteP!Next

LEMMA SameInit == /\ Sys!Init => SysP!Init
                  /\ Note!Init => NoteP!Init
BY DEF Sys!Init, SysP!Init, Sys!Ord!Init, SysP!Ord!Init, Sys!Ord!None, SysP!Ord!None,
       Sys!Pay!Init, SysP!Pay!Init, Sys!Pay!Calls, SysP!Pay!Calls,
       Sys!Pay!NoOrder, SysP!Pay!NoOrder,
       Note!Init, NoteP!Init, Note!IdleWorker, NoteP!IdleWorker, Note!None, NoteP!None,
       Note!Waiting, NoteP!Waiting

LEMMA SameAssumptions == SysP!CompositionAssumption /\ NoteP!NotificationsAssumption
BY PlatformAssumption
DEF Sys!CompositionAssumption, SysP!CompositionAssumption,
    Sys!Ord!OrderAssumption, SysP!Ord!OrderAssumption,
    Sys!Pay!PaymentsAssumption, SysP!Pay!PaymentsAssumption,
    Note!NotificationsAssumption, NoteP!NotificationsAssumption

(* What the proofs of the parts give. *)
LEMMA SystemInductive ==
  SysP!CInv /\ [SysP!Next]_(SysP!vars) => SysP!CInv' /\ published \subseteq published'
BY SameAssumptions, SysP!InductiveStep, SysP!EventsStay

LEMMA NotifierInductive ==
  NoteP!IInv /\ [NoteP!Next]_(NoteP!vars) =>
    /\ NoteP!IInv'
    /\ NoteP!MailsFollowEvents => NoteP!MailsFollowEvents'
BY SameAssumptions, NoteP!InductiveStep, NoteP!FollowStep

LEMMA SystemPayments ==
  SysP!CInv =>
    /\ \A p \in payments : p.order = call[p.id].order
    /\ published \subseteq payments
    /\ \A p, q \in payments :
         /\ orders[p.order] # "Absent" /\ orders[q.order] # "Absent"
         /\ create[p.order].key = create[q.order].key
         => p = q
BY SameAssumptions, SysP!PaymentsFollowCalls, SysP!OnePaymentPerKey
DEF SysP!KeyChargedOnce, SysP!OnRecord

-----------------------------------------------------------------------------
(* What the broker has on its queue, or had, is an event that the payment  *)
(* service published.                                                      *)
EventsKnown ==
  \A m \in Messages : place[m] # "unpublished" => \E e \in published : e.id = m

(* The inductive invariant of the composition. *)
PInv == SysP!CInv /\ NoteP!IInv /\ NoteP!MailsFollowEvents /\ EventsKnown

LEMMA InitPInv == Init => PInv
<1>. SUFFICES ASSUME Init PROVE PInv
  OBVIOUS
<1>1. SysP!CInv
  BY SameAssumptions, SameInit, SysP!InitCInv DEF Init
<1>2. NoteP!IInv
  BY SameAssumptions, SameInit, NoteP!InitIInv DEF Init
<1>3. NoteP!MailsFollowEvents /\ EventsKnown
  BY DEF Init, Note!Init, NoteP!MailsFollowEvents, EventsKnown
<1>. QED  BY <1>1, <1>2, <1>3 DEF PInv

(* Each step of the composition is a step of either part, or nothing to it. *)
LEMMA SystemPart == [Next]_vars => [Sys!Next]_(Sys!vars)
BY DEF Next, SystemStep, EventPublished, NotifierStep, Finished, vars, sysVars,
       Sys!Next, Sys!Finished, Sys!vars, Sys!orderVars, Sys!paymentVars

LEMMA NotifierPart == [Next]_vars => [Note!Next]_(Note!vars)
BY DEF Next, SystemStep, EventPublished, NotifierStep, Finished, vars, noteVars,
       Note!Next, Note!Finished, Note!vars

LEMMA InductiveStep == PInv /\ [Next]_vars => PInv'
<1>. SUFFICES ASSUME PInv, [Next]_vars PROVE PInv'
  OBVIOUS
<1>1. SysP!CInv' /\ published \subseteq published'
  BY SystemPart, SameSystemNext, SystemInductive DEF PInv
<1>2. NoteP!IInv' /\ NoteP!MailsFollowEvents'
  BY NotifierPart, SameNotifierNext, NotifierInductive DEF PInv
<1>3. ASSUME NEW m \in Messages, place'[m] # "unpublished"
      PROVE  \E e \in published' : e.id = m
  <2>1. CASE place[m] # "unpublished"
    BY <1>1, <2>1 DEF PInv, EventsKnown
  <2>2. CASE place[m] = "unpublished"
    <3>1. ~NotifierStep /\ place' # place
      BY <1>3, <2>2 DEF NotifierStep
    <3>2. PICK n \in Messages : EventPublished(n)
      BY <3>1 DEF Next, SystemStep, Finished, Note!Finished, Note!vars, vars, noteVars
    <3>3. place' = [place EXCEPT ![n] = "ready"]
      BY <3>2 DEF EventPublished, Note!Publish
    <3>4. n = m
      BY <1>3, <2>2, <3>3
    <3>. QED  BY <3>2, <3>4 DEF EventPublished
  <2>. QED  BY <2>1, <2>2
<1>. QED  BY <1>1, <1>2, <1>3 DEF PInv, EventsKnown

(* The inductive invariant holds of every behaviour of the three services. *)
THEOREM Invariance == Spec => []PInv
BY InitPInv, InductiveStep, PTL DEF Spec

-----------------------------------------------------------------------------
(* Composed, the order and payment services still are what OrderPayment    *)
(* specifies, and the notification service what Notifications does, so all *)
(* that is proved of them alone holds of them here.                        *)
THEOREM PartsCorrectness == Spec => Sys!Spec /\ Note!Spec
<1>1. Init => Sys!Init /\ Note!Init
  BY DEF Init
<1>. QED  BY <1>1, SystemPart, NotifierPart, PTL DEF Spec, Sys!Spec, Note!Spec

(* The promises the services make alone, or in pairs, hold of all three    *)
(* together: Paid means charged, the order service charges for orders, a   *)
(* key is charged once, and e-mails, deliveries and dead letters are what  *)
(* they should be.                                                         *)
ServicesSafe ==
  /\ Sys!PaidIsCharged /\ Sys!RpcChargesMatchOrders /\ Sys!KeyChargedOnce
  /\ Note!AtMostOneEmail /\ Note!NoDeliveryForgotten /\ Note!DeadLettersUnsent

(* What is proved of the parts in their own modules is taken over through  *)
(* their specifications.                                                   *)
THEOREM ServicesCorrectness == Spec => []ServicesSafe
<1>1. Spec => SysP!Spec /\ NoteP!Spec
  BY SameInit, SameSystemNext, SameNotifierNext, PartsCorrectness, PTL
  DEF Sys!Spec, SysP!Spec, Note!Spec, NoteP!Spec
<1>2. SysP!Spec => [](SysP!PaidIsCharged /\ SysP!RpcChargesMatchOrders /\ SysP!KeyChargedOnce)
  <2>1. /\ SysP!Spec => []SysP!PaidIsCharged
        /\ SysP!Spec => []SysP!RpcChargesMatchOrders
        /\ SysP!Spec => []SysP!KeyChargedOnce
    BY SameAssumptions, SysP!PaidCorrectness, SysP!ChargeCorrectness, SysP!KeyCorrectness
  <2>. QED  BY <2>1, PTL
<1>3. NoteP!Spec => [](NoteP!AtMostOneEmail /\ NoteP!NoDeliveryForgotten /\ NoteP!DeadLettersUnsent)
  <2>1. /\ NoteP!Spec => []NoteP!AtMostOneEmail
        /\ NoteP!Spec => []NoteP!NoDeliveryForgotten
        /\ NoteP!Spec => []NoteP!DeadLettersUnsent
    BY SameAssumptions, NoteP!EmailCorrectness, NoteP!HandsCorrectness, NoteP!DeadLetterCorrectness
  <2>. QED  BY <2>1, PTL
<1>4. SysP!PaidIsCharged /\ SysP!RpcChargesMatchOrders /\ SysP!KeyChargedOnce =>
        Sys!PaidIsCharged /\ Sys!RpcChargesMatchOrders /\ Sys!KeyChargedOnce
  BY DEF Sys!PaidIsCharged, SysP!PaidIsCharged, Sys!RpcChargesMatchOrders, SysP!RpcChargesMatchOrders,
         Sys!KeyChargedOnce, SysP!KeyChargedOnce, Sys!OnRecord, SysP!OnRecord
<1>5. NoteP!AtMostOneEmail /\ NoteP!NoDeliveryForgotten /\ NoteP!DeadLettersUnsent =>
        Note!AtMostOneEmail /\ Note!NoDeliveryForgotten /\ Note!DeadLettersUnsent
  BY DEF Note!AtMostOneEmail, NoteP!AtMostOneEmail, Note!NoDeliveryForgotten,
         NoteP!NoDeliveryForgotten, Note!HandsOn, NoteP!HandsOn,
         Note!DeadLettersUnsent, NoteP!DeadLettersUnsent
<1>6. /\ SysP!PaidIsCharged /\ SysP!RpcChargesMatchOrders /\ SysP!KeyChargedOnce
      /\ NoteP!AtMostOneEmail /\ NoteP!NoDeliveryForgotten /\ NoteP!DeadLettersUnsent
      => ServicesSafe
  BY <1>4, <1>5 DEF ServicesSafe
<1>. QED  BY <1>1, <1>2, <1>3, <1>6, PTL

(* An e-mail has its event, and the event its payment. *)
LEMMA EmailsArePaid ==
  ASSUME PInv, NEW m \in Messages, sent[m] > 0
  PROVE  \E p \in payments : p.id = m /\ p.order = call[m].order
<1>1. place[m] # "unpublished"
  BY DEF PInv, NoteP!MailsFollowEvents
<1>. QED  BY <1>1, SystemPayments DEF PInv, EventsKnown

(* An Idempotency-Key leads to one payment e-mail at most, of a payment on *)
(* record: the key has one payment, and a message one e-mail.              *)
THEOREM EmailCorrectness == Spec => []KeyEmailedOnce
<1>1. ASSUME PInv, NEW m \in Messages, sent[m] > 0, m \notin excused
      PROVE  sent[m] = 1
  BY <1>1 DEF PInv, NoteP!IInv, NoteP!MailsClaimed, NoteP!TypeOK, NoteP!SentCap
<1>2. ASSUME PInv, NEW m \in Messages, sent[m] > 0,
             NEW n \in Messages, sent[n] > 0, KeyOf(n) = KeyOf(m),
             Sys!OnRecord(call[m].order), Sys!OnRecord(call[n].order)
      PROVE  n = m
  <2>1. PICK p \in payments : p.id = m /\ p.order = call[m].order
    BY <1>2, EmailsArePaid
  <2>2. PICK q \in payments : q.id = n /\ q.order = call[n].order
    BY <1>2, EmailsArePaid
  <2>3. p = q
    BY <1>2, <2>1, <2>2, SystemPayments DEF PInv, KeyOf, Sys!OnRecord
  <2>. QED  BY <2>1, <2>2, <2>3
<1>3. PInv => KeyEmailedOnce
  BY <1>1, <1>2, EmailsArePaid DEF KeyEmailedOnce
<1>. QED  BY <1>3, Invariance, PTL

(* The e-mail of a payment the order service asked for is about the order  *)
(* it asked for, which is on record.  That of a payment made past it may   *)
(* name an order that does not exist.                                      *)
EmailedOrdersExist ==
  \A m \in Creates : sent[m] > 0 =>
    call[m].order = m /\ orders[m] # "Absent"

(* An e-mail sent for an order of this service is about that very order.   *)
THEOREM OrderCorrectness == Spec => []EmailedOrdersExist
<1>1. ASSUME PInv, NEW m \in Creates, sent[m] > 0
      PROVE  call[m].order = m /\ orders[m] # "Absent"
  <2>1. PICK p \in payments : p.id = m /\ p.order = call[m].order
    BY <1>1, EmailsArePaid DEF Messages
  <2>. QED  BY <1>1, <2>1, SameAssumptions, SysP!PaymentsNameOrders DEF PInv
<1>2. PInv => EmailedOrdersExist
  BY <1>1 DEF EmailedOrdersExist
<1>. QED  BY <1>2, Invariance, PTL
=============================================================================
