---------------------------- MODULE OrderPayment ----------------------------
(***************************************************************************)
(* The order service and the payment service together: the payment RPC of  *)
(* create request o is the gRPC call o of the payment service.  Requests   *)
(* and answers travel separately, so the caller may give up while its call *)
(* still runs, and a call may arrive after its caller has given up.        *)
(***************************************************************************)
EXTENDS Naturals

CONSTANTS Creates, Cancels, Reads, Keys,   \* as in OrderService
          Direct,          \* POST /payments calls made past the order service
          Amounts, Limit,  \* as in Payments
          OrderEnvironments,   \* failures around the order service, also "rpc"
          PaymentEnvironments  \* failures around the payment service

VARIABLES orders, cache, create, cancel, read, rpc, orderFaults,
          payments, published, call, svc, paymentFaults

Ord == INSTANCE OrderService WITH
         Environments <- OrderEnvironments, faults <- orderFaults

Pay == INSTANCE Payments WITH
         OrderIds <- Creates, GrpcCalls <- Creates, HttpCalls <- Direct,
         Environments <- PaymentEnvironments, faults <- paymentFaults

orderVars == <<orders, cache, create, cancel, read, rpc, orderFaults>>
paymentVars == <<payments, published, call, svc, paymentFaults>>
vars == <<orderVars, paymentVars>>

ASSUME CompositionAssumption ==
  /\ Ord!OrderAssumption
  /\ Pay!PaymentsAssumption

Init == Ord!Init /\ Pay!Init

-----------------------------------------------------------------------------
(* Mutant: the RPC is delivered a second time after it was answered. *)
RpcArrivesTwice(o) ==
  /\ rpc[o] # "idle"
  /\ call[o].pc \in {"idle", "done"}
  /\ call' = [call EXCEPT ![o].pc = "check", ![o].order = o, ![o].amount = create[o].amount]
  /\ UNCHANGED <<payments, published, svc, paymentFaults>>
  /\ UNCHANGED orderVars

(* The request of AuthorizePayment reaches the payment service: while its  *)
(* caller waits or, where connections break, after the caller gave up.     *)
RpcArrives(o) ==
  /\ rpc[o] = "sent" \/ ("rpc" \in orderFaults /\ rpc[o] = "Error")
  /\ Pay!Arrive(o, o, create[o].amount)
  /\ UNCHANGED orderVars

(* Some other client of the payment service names an order_id: nothing     *)
(* there asks whether it is an order's.  That of a request without a row,  *)
(* not yet or for ever, stands for one that is not.                        *)
DirectCall(c, o, a) ==
  /\ Pay!Arrive(c, o, a)
  /\ UNCHANGED orderVars

(* Mutant: AlreadyExists is taken for success. *)
ExistsIsAuthorized(reply) ==
  CASE reply \in {"Authorized", "Exists"} -> "Authorized"
    [] reply = "Declined" -> "Declined"
    [] OTHER -> "Error"

(* What AuthorizePayment makes of the handler's response: every status     *)
(* code other than OK, AlreadyExists included, becomes an error.           *)
AnswerTo(reply) ==
  CASE reply = "Authorized" -> "Authorized"
    [] reply = "Declined" -> "Declined"
    [] OTHER -> "Error"

(* The response of the handler reaches the caller. *)
RpcReturns(o) ==
  /\ call[o].pc = "done"
  /\ Ord!RpcEnds(o, AnswerTo(call[o].reply))
  /\ UNCHANGED paymentVars

(* The service takes no call, or died with this one. *)
RpcRefused(o) ==
  /\ \/ call[o].pc = "idle" /\ svc # "up"
     \/ call[o].pc = "dead"
  /\ Ord!RpcEnds(o, "Error")
  /\ UNCHANGED paymentVars

(* The connection breaks, or the client of the order service disconnects   *)
(* and the cancelled context ends the RPC.                                 *)
RpcLost(o) ==
  /\ "rpc" \in orderFaults
  /\ Ord!RpcEnds(o, "Error")
  /\ UNCHANGED paymentVars

OrderStep ==
  /\ \/ \E r \in Creates, k \in Keys, a \in Amounts : Ord!PostOrder(r, k, a)
     \/ \E r \in Creates : Ord!CreateStep(r)
     \/ \E x \in Cancels, o \in Creates : Ord!PatchCancel(x, o)
     \/ \E x \in Cancels : Ord!CancelStep(x)
     \/ \E g \in Reads, o \in Creates : Ord!StartRead(g, o)
     \/ \E g \in Reads : Ord!ReadStep(g)
     \/ \E o \in Creates : Ord!CacheExpires(o)
     \/ Ord!Crash
  /\ UNCHANGED paymentVars

PaymentStep ==
  /\ (\E c \in Pay!Calls : Pay!CallStep(c)) \/ Pay!Process
  /\ UNCHANGED orderVars

(* Both services have served every request of the instance. *)
Finished ==
  /\ Ord!AllAt(Ord!Over)
  /\ \A c \in Direct : call[c].pc # "idle" => call[c].pc \in Ord!Over
  /\ \A o \in Creates : rpc[o] # "idle" => call[o].pc \in Ord!Over
  /\ UNCHANGED vars

Next ==
  \/ OrderStep
  \/ \E o \in Creates : RpcArrives(o)
  \/ \E c \in Direct, o \in Creates, a \in Amounts : DirectCall(c, o, a)
  \/ PaymentStep
  \/ \E o \in Creates : RpcReturns(o) \/ RpcRefused(o) \/ RpcLost(o)
  \/ Finished

Spec == Init /\ [][Next]_vars

(* Requests in hand go on in either service, and an RPC arrives or is      *)
(* refused, and comes back when it is answered.                            *)
Fairness ==
  /\ \A r \in Creates : WF_vars(Ord!CreateStep(r) /\ UNCHANGED paymentVars)
  /\ \A x \in Cancels : WF_vars(Ord!CancelStep(x) /\ UNCHANGED paymentVars)
  /\ \A g \in Reads : WF_vars(Ord!ReadStep(g) /\ UNCHANGED paymentVars)
  /\ \A c \in Pay!Calls : WF_vars(Pay!CallStep(c) /\ UNCHANGED orderVars)
  /\ \A o \in Creates : WF_vars(RpcArrives(o) \/ RpcRefused(o) \/ RpcReturns(o))

FairSpec == Spec /\ Fairness

-----------------------------------------------------------------------------
OnRecord(o) == orders[o] # "Absent"

ChargedFor(o) == \E p \in payments : p.order = o /\ p.status = "Authorized"

(* An order that shows as Paid, in the row or in the cache, has a payment  *)
(* on record in the other service: Authorized, and for the order's amount, *)
(* even when somebody else's payment for that order got there first.       *)
PaidIsCharged ==
  \A o \in Creates :
    "Paid" \in {orders[o], cache[o]} =>
      \E p \in payments :
        p.order = o /\ p.status = "Authorized" /\ p.amount = create[o].amount

(* What the order service has charged for is an order on record, its own   *)
(* and of its amount: a POST that lost its insert, or repeats an earlier   *)
(* one, charges nobody.  Payments made past it may be for no order at all. *)
RpcChargesMatchOrders ==
  \A p \in payments : p.id \in Creates =>
    p.order = p.id /\ OnRecord(p.order) /\ p.amount = create[p.order].amount

(* However often a client repeats a POST, with whatever crashes and lost   *)
(* answers in between, its Idempotency-Key is charged for at most once,    *)
(* payments made past the order service included.                          *)
KeyChargedOnce ==
  \A p, q \in {p \in payments : OnRecord(p.order)} :
    create[p.order].key = create[q.order].key => p = q

(* While queries and connections work, an authorized payment reaches the   *)
(* order that asked for it, unless the order is cancelled: the payment     *)
(* service may shut down and start again meanwhile.                        *)
ChargedOrdersShowIt ==
  \A o \in Creates : ChargedFor(o) ~> orders[o] \in {"Paid", "Cancelled"}

(* Each service, in the company of the other, keeps to the specification   *)
(* that its own module checks with an arbitrary partner.                   *)
PartsKeepTheirSpecs == Ord!Spec /\ Pay!Spec

(* What the order service promises of its own progress, with no assumption *)
(* on how RPCs end: the payment service and its handlers see to that.      *)
PendingEnds == Ord!PendingEnds
CreatesAnswered == Ord!CreatesAnswered
=============================================================================
