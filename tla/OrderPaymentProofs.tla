------------------------- MODULE OrderPaymentProofs -------------------------
(***************************************************************************)
(* Proofs about the two services together, for any requests, calls and     *)
(* amounts and any failures: each keeps to the specification its own       *)
(* module states, a Paid order has its payment on record, the order        *)
(* service charges for orders only, and a key is charged for once.         *)
(*                                                                         *)
(* The invariants proved of each service alone are taken over; what is     *)
(* added is how a payment call and the order it is made for correspond.    *)
(***************************************************************************)
EXTENDS OrderPayment, TLAPS

OrdP == INSTANCE OrderServiceProofs WITH
          Environments <- OrderEnvironments, faults <- orderFaults

PayP == INSTANCE PaymentsProofs WITH
          OrderIds <- Creates, GrpcCalls <- Creates, HttpCalls <- Direct,
          Environments <- PaymentEnvironments, faults <- paymentFaults

(* Both ways to the modules, with and without their proofs, lead to the    *)
(* same actions.                                                           *)
LEMMA SameOrderNext == [Ord!Next]_(Ord!vars) => [OrdP!Next]_(OrdP!vars)
BY DEF Ord!vars, OrdP!vars, Ord!Status, OrdP!Status, Ord!Terminal, OrdP!Terminal,
      Ord!Answer, OrdP!Answer, Ord!None, OrdP!None, Ord!Init, OrdP!Init, Ord!CreateAt,
      OrdP!CreateAt, Ord!CreateGoto, OrdP!CreateGoto, Ord!Respond, OrdP!Respond,
      Ord!Holds, OrdP!Holds, Ord!PostOrder, OrdP!PostOrder, Ord!LookupHit, OrdP!LookupHit,
      Ord!LookupMiss, OrdP!LookupMiss, Ord!Insert, OrdP!Insert, Ord!InsertFails,
      OrdP!InsertFails, Ord!NotifyPending, OrdP!NotifyPending, Ord!Authorize,
      OrdP!Authorize, Ord!RpcEnds, OrdP!RpcEnds, Ord!OutcomeOf, OrdP!OutcomeOf,
      Ord!Resume, OrdP!Resume, Ord!AfterSettle, OrdP!AfterSettle, Ord!Settled,
      OrdP!Settled, Ord!Settle, OrdP!Settle, Ord!Evict, OrdP!Evict, Ord!CreateEvict,
      OrdP!CreateEvict, Ord!Announce, OrdP!Announce, Ord!CreateStep, OrdP!CreateStep,
      Ord!CancelAt, OrdP!CancelAt, Ord!CancelGoto, OrdP!CancelGoto, Ord!CancelRespond,
      OrdP!CancelRespond, Ord!PatchCancel, OrdP!PatchCancel, Ord!CancelLoadFails,
      OrdP!CancelLoadFails, Ord!CancelLoad, OrdP!CancelLoad, Ord!CancelWrite,
      OrdP!CancelWrite, Ord!CancelEvict, OrdP!CancelEvict, Ord!CancelAnnounce,
      OrdP!CancelAnnounce, Ord!CancelStep, OrdP!CancelStep, Ord!ReadAt, OrdP!ReadAt,
      Ord!ReadGoto, OrdP!ReadGoto, Ord!ReadReturn, OrdP!ReadReturn, Ord!StartRead,
      OrdP!StartRead, Ord!CacheHit, OrdP!CacheHit, Ord!CacheMiss, OrdP!CacheMiss,
      Ord!LoadRow, OrdP!LoadRow, Ord!LoadFails, OrdP!LoadFails, Ord!FillCache,
      OrdP!FillCache, Ord!ReadStep, OrdP!ReadStep, Ord!CacheExpires, OrdP!CacheExpires,
      Ord!Over, OrdP!Over, Ord!Killed, OrdP!Killed, Ord!Crash, OrdP!Crash, Ord!AllAt,
      OrdP!AllAt, Ord!Finished, OrdP!Finished, Ord!Next, OrdP!Next

LEMMA SamePaymentNext == [Pay!Next]_(Pay!vars) => [PayP!Next]_(PayP!vars)
BY DEF Pay!vars, PayP!vars, Pay!Calls, PayP!Calls, Pay!PaymentStatus, PayP!PaymentStatus,
      Pay!Init, PayP!Init, Pay!InFlight, PayP!InFlight, Pay!Taken, PayP!Taken,
      Pay!Decision, PayP!Decision, Pay!PaymentOf, PayP!PaymentOf, Pay!Goto, PayP!Goto,
      Pay!Return, PayP!Return, Pay!Arrive, PayP!Arrive, Pay!CheckFinds, PayP!CheckFinds,
      Pay!DbMayFail, PayP!DbMayFail, Pay!CheckPasses, PayP!CheckPasses, Pay!Insert,
      PayP!Insert, Pay!InsertFails, PayP!InsertFails, Pay!Publish, PayP!Publish,
      Pay!PublishLost, PayP!PublishLost, Pay!CallStep, PayP!CallStep, Pay!Sigterm,
      PayP!Sigterm, Pay!CloseBroker, PayP!CloseBroker, Pay!Die, PayP!Die, Pay!Exit,
      PayP!Exit, Pay!Crash, PayP!Crash, Pay!Restart, PayP!Restart, Pay!Process,
      PayP!Process, Pay!Finished, PayP!Finished, Pay!Next, PayP!Next

LEMMA SameInit == /\ Ord!Init => OrdP!Init
                  /\ Pay!Init => PayP!Init
BY DEF Ord!Init, OrdP!Init, Ord!None, OrdP!None, Pay!Init, PayP!Init, Pay!Calls, PayP!Calls,
       Pay!NoOrder, PayP!NoOrder

(* What the proofs of each service alone give. *)
LEMMA OrderInductive == OrdP!IInv /\ [OrdP!Next]_(OrdP!vars) => OrdP!IInv' /\ OrdP!Lasting
BY CompositionAssumption, OrdP!InductiveStep DEF Ord!OrderAssumption, OrdP!OrderAssumption

LEMMA PaymentInductive == PayP!IInv /\ [PayP!Next]_(PayP!vars) => PayP!IInv'
BY CompositionAssumption, PayP!InductiveStep DEF Pay!PaymentsAssumption, PayP!PaymentsAssumption,
   Pay!Calls, PayP!Calls

LEMMA PaymentCallsGoOn ==
  ASSUME PayP!IInv, PaymentStep, NEW d \in Pay!Calls
  PROVE  /\ call'[d].order = call[d].order /\ call'[d].amount = call[d].amount
         /\ call'[d].pc = "idle" <=> call[d].pc = "idle"
         /\ call[d].pc = "done" => call'[d] = call[d]
<1>1. (\E c \in PayP!Calls : PayP!CallStep(c)) \/ PayP!Process
  BY DEF PaymentStep, Pay!vars, PayP!vars, Pay!Calls, PayP!Calls, Pay!PaymentStatus, PayP!PaymentStatus,
      Pay!Init, PayP!Init, Pay!InFlight, PayP!InFlight, Pay!Taken, PayP!Taken,
      Pay!Decision, PayP!Decision, Pay!PaymentOf, PayP!PaymentOf, Pay!Goto, PayP!Goto,
      Pay!Return, PayP!Return, Pay!Arrive, PayP!Arrive, Pay!CheckFinds, PayP!CheckFinds,
      Pay!DbMayFail, PayP!DbMayFail, Pay!CheckPasses, PayP!CheckPasses, Pay!Insert,
      PayP!Insert, Pay!InsertFails, PayP!InsertFails, Pay!Publish, PayP!Publish,
      Pay!PublishLost, PayP!PublishLost, Pay!CallStep, PayP!CallStep, Pay!Sigterm,
      PayP!Sigterm, Pay!CloseBroker, PayP!CloseBroker, Pay!Die, PayP!Die, Pay!Exit,
      PayP!Exit, Pay!Crash, PayP!Crash, Pay!Restart, PayP!Restart, Pay!Process,
      PayP!Process, Pay!Finished, PayP!Finished, Pay!Next, PayP!Next
<1>2. PayP!PaymentsAssumption
  BY CompositionAssumption DEF Pay!PaymentsAssumption, PayP!PaymentsAssumption
<1>3. d \in PayP!Calls
  BY DEF Pay!Calls, PayP!Calls
<1>. QED  BY <1>1, <1>2, <1>3, PayP!CallsGoOn

-----------------------------------------------------------------------------
(* A call that arrived over gRPC is about the order of its caller and asks *)
(* for its amount.                                                         *)
CallsFollowRpcs ==
  \A o \in Creates : call[o].pc # "idle" =>
    rpc[o] # "idle" /\ call[o].order = o /\ call[o].amount = create[o].amount

(* A call made past the order service names some order_id. *)
DirectCallsName ==
  \A c \in Direct : call[c].pc # "idle" => call[c].order \in Creates

(* A caller that was told Authorized was told so by its own call. *)
AuthorizedByCall ==
  \A o \in Creates : rpc[o] = "Authorized" =>
    call[o].pc = "done" /\ call[o].reply = "Authorized"

(* The inductive invariant of the composition. *)
CInv ==
  /\ OrdP!IInv
  /\ PayP!IInv
  /\ CallsFollowRpcs
  /\ DirectCallsName
  /\ AuthorizedByCall

(* An RPC in progress has a row and an amount behind it. *)
LEMMA IssuedRpc ==
  ASSUME CInv, NEW o \in Creates, rpc[o] # "idle"
  PROVE  /\ create[o].pc # "idle" /\ create[o].amount \in Amounts
         /\ orders[o] # "Absent"
<1>1. OrdP!OwnRow(o)
  BY DEF CInv, OrdP!IInv, OrdP!RowsFollowRequests
<1>. QED  BY <1>1 DEF OrdP!OwnRow

LEMMA CallTypes ==
  ASSUME CInv
  PROVE  /\ call \in [Pay!Calls -> PayP!CallState]
         /\ Creates \subseteq Pay!Calls /\ Direct \subseteq Pay!Calls
         /\ Creates \cap Direct = {}
         /\ rpc \in [Creates -> {"Authorized", "Declined", "Error", "idle", "sent"}]
BY CompositionAssumption DEF CInv, PayP!IInv, PayP!TypeOK, PayP!Calls, Pay!Calls,
   Pay!PaymentsAssumption, OrdP!IInv, OrdP!TypeOK, OrdP!Answer

LEMMA InitCInv == Init => CInv
<1>. SUFFICES ASSUME Init PROVE CInv
  OBVIOUS
<1>1. OrdP!IInv
  BY CompositionAssumption, SameInit, OrdP!InitIInv DEF Init, Ord!OrderAssumption, OrdP!OrderAssumption
<1>2. PayP!IInv
  BY CompositionAssumption, SameInit, PayP!InitIInv
  DEF Init, Pay!PaymentsAssumption, PayP!PaymentsAssumption, Pay!Calls, PayP!Calls
<1>3. CallsFollowRpcs /\ DirectCallsName /\ AuthorizedByCall
  BY DEF Init, Pay!Init, Ord!Init, Pay!Calls, CallsFollowRpcs, DirectCallsName, AuthorizedByCall
<1>. QED  BY <1>1, <1>2, <1>3 DEF CInv

(* Each step of the composition is a step of either service, or nothing to *)
(* it.                                                                     *)
LEMMA OrderPart ==
  ASSUME CInv, [Next]_vars
  PROVE  [Ord!Next]_(Ord!vars)
<1>1. CASE OrderStep
  BY <1>1 DEF OrderStep, Ord!Next
<1>2. CASE PaymentStep
  BY <1>2 DEF PaymentStep, orderVars, Ord!vars
<1>3. CASE \E o \in Creates : RpcArrives(o)
  BY <1>3 DEF RpcArrives, orderVars, Ord!vars
<1>4. CASE \E c \in Direct, o \in Creates, a \in Amounts : DirectCall(c, o, a)
  BY <1>4 DEF DirectCall, orderVars, Ord!vars
<1>5. CASE \E o \in Creates : RpcReturns(o) \/ RpcRefused(o) \/ RpcLost(o)
  <2>1. \E o \in Creates, answer \in Ord!Answer : Ord!RpcEnds(o, answer)
    BY <1>5 DEF RpcReturns, RpcRefused, RpcLost, AnswerTo, Ord!Answer
  <2>. QED  BY <2>1 DEF Ord!Next
<1>6. CASE UNCHANGED vars
  BY <1>6 DEF vars, orderVars, Ord!vars
<1>. QED  BY <1>1, <1>2, <1>3, <1>4, <1>5, <1>6 DEF Next, Finished

LEMMA PaymentPart ==
  ASSUME CInv, [Next]_vars
  PROVE  [Pay!Next]_(Pay!vars)
<1>1. CASE OrderStep
  BY <1>1 DEF OrderStep, paymentVars, Pay!vars
<1>2. CASE PaymentStep
  BY <1>2 DEF PaymentStep, Pay!Next
<1>3. ASSUME NEW o \in Creates, RpcArrives(o) PROVE Pay!Next
  <2>1. create[o].amount \in Amounts
    BY <1>3, IssuedRpc DEF RpcArrives
  <2>. QED  BY <1>3, <2>1 DEF RpcArrives, Pay!Next, Pay!Calls
<1>4. CASE \E c \in Direct, o \in Creates, a \in Amounts : DirectCall(c, o, a)
  BY <1>4 DEF DirectCall, Pay!Next, Pay!Calls
<1>5. CASE \E o \in Creates : RpcReturns(o) \/ RpcRefused(o) \/ RpcLost(o)
  BY <1>5 DEF RpcReturns, RpcRefused, RpcLost, paymentVars, Pay!vars
<1>6. CASE UNCHANGED vars
  BY <1>6 DEF vars, paymentVars, Pay!vars
<1>. QED  BY <1>1, <1>2, <1>3, <1>4, <1>5, <1>6 DEF Next, Finished

(* A step of the order service alone issues RPCs and ends none. *)
LEMMA OrderStepIssues ==
  ASSUME CInv, OrderStep, NEW o \in Creates
  PROVE  rpc'[o] = rpc[o] \/ rpc'[o] = "sent"
<1>1. rpc' = rpc \/ \E r \in Creates : rpc' = [rpc EXCEPT ![r] = "sent"]
  BY DEF OrderStep, Ord!PostOrder, Ord!CreateStep, Ord!LookupHit, Ord!LookupMiss, Ord!Insert,
     Ord!InsertFails, Ord!NotifyPending, Ord!Authorize, Ord!Resume, Ord!Settle, Ord!CreateEvict,
     Ord!Announce, Ord!PatchCancel, Ord!CancelStep, Ord!CancelLoadFails, Ord!CancelLoad,
     Ord!CancelWrite, Ord!CancelEvict, Ord!CancelAnnounce, Ord!StartRead, Ord!ReadStep,
     Ord!CacheHit, Ord!CacheMiss, Ord!LoadRow, Ord!LoadFails, Ord!FillCache, Ord!CacheExpires,
     Ord!Crash
<1>. QED  BY <1>1, CallTypes

(* Orders, their amounts and their RPCs last, so what follows from a call  *)
(* that stays as it was stays true.                                        *)
LEMMA InductiveStep == CInv /\ [Next]_vars => CInv'
<1>. SUFFICES ASSUME CInv, [Next]_vars PROVE CInv'
  OBVIOUS
<1>1. OrdP!IInv' /\ OrdP!Lasting
  BY OrderPart, SameOrderNext, OrderInductive DEF CInv
<1>2. PayP!IInv'
  BY PaymentPart, SamePaymentNext, PaymentInductive DEF CInv
<1>3. ASSUME NEW o \in Creates
      PROVE  /\ orders[o] # "Absent" => orders'[o] # "Absent"
             /\ rpc[o] # "idle" => rpc'[o] # "idle" /\ create'[o].amount = create[o].amount
  BY <1>1, IssuedRpc DEF OrdP!Lasting
<1>4. CASE \/ OrderStep
           \/ \E o \in Creates : RpcReturns(o) \/ RpcRefused(o) \/ RpcLost(o)
  <2>1. call' = call
    BY <1>4 DEF OrderStep, RpcReturns, RpcRefused, RpcLost, paymentVars
  <2>2. CallsFollowRpcs' /\ DirectCallsName'
    BY <1>3, <2>1 DEF CInv, CallsFollowRpcs, DirectCallsName
  <2>3. ASSUME NEW o \in Creates, rpc'[o] = "Authorized"
        PROVE  call[o].pc = "done" /\ call[o].reply = "Authorized"
    <3>1. CASE rpc[o] = "Authorized"
      BY <3>1 DEF CInv, AuthorizedByCall
    <3>2. CASE rpc[o] # "Authorized"
      <4>1. ~OrderStep
        BY <2>3, <3>2, OrderStepIssues
      <4>2. PICK p \in Creates : RpcReturns(p) \/ RpcRefused(p) \/ RpcLost(p)
        BY <1>4, <4>1
      <4>3. p = o /\ RpcReturns(o)
        BY <2>3, <3>2, <4>2, CallTypes DEF RpcReturns, RpcRefused, RpcLost, Ord!RpcEnds
      <4>. QED  BY <2>3, <4>3, CallTypes DEF RpcReturns, Ord!RpcEnds, AnswerTo
    <3>. QED  BY <3>1, <3>2
  <2>. QED  BY <1>1, <1>2, <2>1, <2>2, <2>3 DEF CInv, AuthorizedByCall
<1>5. ASSUME NEW o \in Creates, RpcArrives(o) PROVE CInv'
  <2>1. /\ rpc[o] # "idle" /\ rpc[o] # "Authorized"
        /\ call'[o].order = o /\ call'[o].amount = create[o].amount
        /\ \A d \in Pay!Calls : d # o => call'[d] = call[d]
        /\ orders' = orders /\ rpc' = rpc /\ create' = create
    BY <1>5, CallTypes DEF RpcArrives, Pay!Arrive, orderVars
  <2>2. CallsFollowRpcs'
    BY <2>1, CallTypes DEF CInv, CallsFollowRpcs
  <2>3. DirectCallsName' /\ AuthorizedByCall'
    BY <2>1, CallTypes DEF CInv, DirectCallsName, AuthorizedByCall
  <2>. QED  BY <1>1, <1>2, <2>2, <2>3 DEF CInv
<1>6. ASSUME NEW c \in Direct, NEW o \in Creates, NEW a \in Amounts, DirectCall(c, o, a) PROVE CInv'
  <2>1. /\ call'[c].order = o
        /\ \A d \in Pay!Calls : d # c => call'[d] = call[d]
        /\ orders' = orders /\ rpc' = rpc /\ create' = create
    BY <1>6, CallTypes DEF DirectCall, Pay!Arrive, orderVars
  <2>2. CallsFollowRpcs' /\ AuthorizedByCall'
    BY <2>1, CallTypes DEF CInv, CallsFollowRpcs, AuthorizedByCall
  <2>3. DirectCallsName'
    BY <2>1, CallTypes DEF CInv, DirectCallsName
  <2>. QED  BY <1>1, <1>2, <2>2, <2>3 DEF CInv
<1>7. CASE PaymentStep
  <2>1. orders' = orders /\ rpc' = rpc /\ create' = create
    BY <1>7 DEF PaymentStep, orderVars
  <2>2. CallsFollowRpcs' /\ DirectCallsName' /\ AuthorizedByCall'
    BY <1>7, <2>1, CallTypes, PaymentCallsGoOn
    DEF CInv, CallsFollowRpcs, DirectCallsName, AuthorizedByCall
  <2>. QED  BY <1>1, <1>2, <2>2 DEF CInv
<1>8. CASE UNCHANGED vars
  <2>1. UNCHANGED <<orders, rpc, create, call>>
    BY <1>8 DEF vars, orderVars, paymentVars
  <2>2. CallsFollowRpcs' /\ DirectCallsName' /\ AuthorizedByCall'
    BY <2>1 DEF CInv, CallsFollowRpcs, DirectCallsName, AuthorizedByCall
  <2>. QED  BY <1>1, <1>2, <2>2 DEF CInv
<1>. QED  BY <1>4, <1>5, <1>6, <1>7, <1>8 DEF Next, Finished

(* The inductive invariant holds of every behaviour of the two services. *)
THEOREM Invariance == Spec => []CInv
BY InitCInv, InductiveStep, PTL DEF Spec

-----------------------------------------------------------------------------
(* Composed, each service still is what its own module specifies, so all   *)
(* that is proved of it alone holds of it here.                            *)
THEOREM PartsCorrectness == Spec => PartsKeepTheirSpecs
<1>1. Init => Ord!Init /\ Pay!Init
  BY DEF Init
<1>2. CInv /\ [Next]_vars => [Ord!Next]_(Ord!vars) /\ [Pay!Next]_(Pay!vars)
  BY OrderPart, PaymentPart
<1>. QED  BY <1>1, <1>2, Invariance, PTL DEF Spec, Ord!Spec, Pay!Spec, PartsKeepTheirSpecs

(* An order that shows as Paid has an authorized payment of its amount on  *)
(* record: its own call's.                                                 *)
THEOREM PaidCorrectness == Spec => []PaidIsCharged
<1>1. ASSUME CInv, NEW o \in Creates, "Paid" \in {orders[o], cache[o]}
      PROVE  \E p \in payments : p.order = o /\ p.status = "Authorized" /\ p.amount = create[o].amount
  <2>1. rpc[o] = "Authorized"
    BY <1>1 DEF CInv, OrdP!IInv, OrdP!PaidIsBacked
  <2>2. /\ call[o].reply = "Authorized" /\ call[o].order = o
        /\ call[o].amount = create[o].amount
    BY <1>1, <2>1 DEF CInv, AuthorizedByCall, CallsFollowRpcs
  <2>3. o \in PayP!Calls
    BY DEF PayP!Calls
  <2>4. PayP!PaymentOf(o) \in payments /\ call[o].reply = PayP!Decision(call[o].amount)
    BY <1>1, <2>2, <2>3 DEF CInv, PayP!IInv, PayP!RepliesFollowRows, PayP!PaymentStatus
  <2>. QED  BY <2>2, <2>4 DEF PayP!PaymentOf
<1>2. CInv => PaidIsCharged
  BY <1>1 DEF PaidIsCharged
<1>. QED  BY <1>2, Invariance, PTL

(* A payment is one of the call that made it; an event is of a payment.    *)
LEMMA PaymentsFollowCalls ==
  ASSUME CInv
  PROVE  /\ \A p \in payments :
              /\ p.id \in Creates \cup Direct
              /\ p.order = call[p.id].order /\ p.amount = call[p.id].amount
              /\ call[p.id].pc # "idle"
         /\ published \subseteq payments
<1>1. ASSUME NEW p \in payments
      PROVE  /\ p.id \in Creates \cup Direct
             /\ p.order = call[p.id].order /\ p.amount = call[p.id].amount
             /\ call[p.id].pc # "idle"
  <2>1. p.id \in PayP!Calls
    BY DEF CInv, PayP!IInv, PayP!TypeOK, PayP!Payment
  <2>2. p = PayP!PaymentOf(p.id) /\ call[p.id].pc \in {"publish", "done", "dead"}
    BY DEF CInv, PayP!IInv, PayP!RowsFollowCalls
  <2>3. /\ PayP!PaymentOf(p.id).order = call[p.id].order
        /\ PayP!PaymentOf(p.id).amount = call[p.id].amount
    BY DEF PayP!PaymentOf
  <2>. QED  BY <2>1, <2>2, <2>3 DEF PayP!Calls
<1>2. published \subseteq payments
  BY DEF CInv, PayP!IInv, PayP!RowsFollowCalls
<1>. QED  BY <1>1, <1>2

(* A payment names an order_id; one that came over gRPC is for the order   *)
(* of its caller, which is on record, and of its amount.                   *)
LEMMA PaymentsNameOrders ==
  ASSUME CInv, NEW p \in payments
  PROVE  /\ p.order \in Creates
         /\ p.id \in Creates =>
              p.order = p.id /\ orders[p.order] # "Absent" /\ p.amount = create[p.order].amount
<1>1. CASE p.id \in Creates
  <2>1. p.order = p.id /\ orders[p.id] # "Absent"
    BY <1>1, PaymentsFollowCalls, IssuedRpc DEF CInv, CallsFollowRpcs
  <2>2. p.amount = create[p.id].amount
    BY <1>1, PaymentsFollowCalls DEF CInv, CallsFollowRpcs
  <2>. QED  BY <1>1, <2>1, <2>2
<1>2. CASE p.id \in Direct
  BY <1>2, CallTypes, PaymentsFollowCalls DEF CInv, DirectCallsName
<1>. QED  BY <1>1, <1>2, PaymentsFollowCalls

(* What the broker has accepted stays accepted. *)
LEMMA EventsStay ==
  ASSUME CInv, [Next]_vars
  PROVE  published \subseteq published'
BY PaymentPart, SamePaymentNext, PayP!EventsStay, CompositionAssumption
DEF Pay!PaymentsAssumption, PayP!PaymentsAssumption

(* What the order service charges for is an order of its own, on record    *)
(* and of the amount charged, whatever others pay past it.                 *)
THEOREM ChargeCorrectness == Spec => []RpcChargesMatchOrders
<1>1. CInv => RpcChargesMatchOrders
  BY PaymentsNameOrders DEF RpcChargesMatchOrders, OnRecord
<1>. QED  BY <1>1, Invariance, PTL

LEMMA OnePaymentPerKey == CInv => KeyChargedOnce
<1>1. ASSUME CInv, NEW p \in payments, NEW q \in payments,
             OnRecord(p.order), OnRecord(q.order),
             create[p.order].key = create[q.order].key
      PROVE  p = q
  <2>1. /\ p.order \in Creates /\ orders[p.order] # "Absent"
        /\ q.order \in Creates /\ orders[q.order] # "Absent"
    BY <1>1, PaymentsNameOrders DEF OnRecord
  <2>2. p.order = q.order
    BY <1>1, <2>1 DEF CInv, OrdP!IInv, OrdP!OneRowPerKey, OrdP!Holds
  <2>. QED  BY <1>1, <2>2 DEF CInv, PayP!IInv, PayP!OnePaymentPerOrder
<1>. QED  BY <1>1 DEF KeyChargedOnce

(* An idempotency key is charged for at most once: its rows are one row,   *)
(* and the payments of one order are one payment.                          *)
THEOREM KeyCorrectness == Spec => []KeyChargedOnce
BY OnePaymentPerKey, Invariance, PTL
=============================================================================
