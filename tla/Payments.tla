------------------------------ MODULE Payments ------------------------------
(***************************************************************************)
(* The payment service: concurrent ProcessPayment calls, gRPC and HTTP,    *)
(* against one payments table and one broker connection, with the graceful *)
(* shutdown of main and process crashes.                                   *)
(*                                                                         *)
(* A call runs check -> insert -> publish, one step per database or broker *)
(* operation, so calls for the same order interleave between them.  The    *)
(* uuids a call mints (payment ID, MessageID) are the call itself.         *)
(***************************************************************************)
EXTENDS Naturals

CONSTANTS OrderIds,   \* order_id values callers name
          GrpcCalls,  \* ProcessPayment calls that arrive over gRPC
          HttpCalls,  \* ProcessPayment calls that arrive as POST /payments
          Amounts,    \* amounts callers ask for; 0 stands for an invalid one
          Limit,      \* 100000 in the code: the largest amount authorized
          Environments \* sets of failures: "db", "broker", "crash", "stop"

Calls == GrpcCalls \cup HttpCalls

ASSUME PaymentsAssumption ==
  /\ GrpcCalls \cap HttpCalls = {}
  /\ Amounts \subseteq Nat
  /\ Limit \in Nat

VARIABLES payments,   \* the rows of table payments
          published,  \* events the broker has accepted
          call,       \* the state of each call
          svc,        \* the process: up, draining, closed (broker gone), down
          faults      \* the failures this behaviour may meet, chosen once

vars == <<payments, published, call, svc, faults>>

PaymentStatus == {"Authorized", "Declined"}
Payment == [id : Calls, order : OrderIds, amount : Amounts, status : PaymentStatus]

(* A call that has not arrived names no order and no amount. *)
NoOrder == "no order"
CallState ==
  [pc : {"idle", "check", "insert", "publish", "done", "dead"},
   order : OrderIds \cup {NoOrder},
   amount : Amounts \cup {0},
   reply : {"none", "Exists", "Invalid", "Error"} \cup PaymentStatus]

Init ==
  /\ payments = {}
  /\ published = {}
  /\ call = [c \in Calls |-> [pc |-> "idle", order |-> NoOrder, amount |-> 0, reply |-> "none"]]
  /\ svc = "up"
  /\ faults \in Environments

-----------------------------------------------------------------------------
InFlight(c) == call[c].pc \in {"check", "insert", "publish"}

(* The unique index on payments(order_id). *)
Taken(o) == \E p \in payments : p.order = o

(* Mutant: the status of an authorized payment is never assigned. *)
DecisionUnset(a) == IF a > Limit THEN "Declined" ELSE "none"

Decision(a) == IF a > Limit THEN "Declined" ELSE "Authorized"

(* The row call c inserts, and the event it publishes: the same fields. *)
PaymentOf(c) ==
  [id |-> c, order |-> call[c].order, amount |-> call[c].amount, status |-> Decision(call[c].amount)]

Goto(c, pc) == call' = [call EXCEPT ![c].pc = pc]
Return(c, reply) == call' = [call EXCEPT ![c].pc = "done", ![c].reply = reply]

(* A request reaches its handler.  Both handlers refuse an amount that is  *)
(* not positive.  After SIGTERM the gRPC server takes no new call; nothing *)
(* stops the HTTP server before the process exits.                         *)
Arrive(c, o, a) ==
  /\ call[c].pc = "idle"
  /\ svc = "up" \/ (c \in HttpCalls /\ svc # "down")
  /\ call' = [call EXCEPT ![c] =
       [pc |-> IF a > 0 THEN "check" ELSE "done", order |-> o, amount |-> a,
        reply |-> IF a > 0 THEN "none" ELSE "Invalid"]]
  /\ UNCHANGED <<payments, published, svc, faults>>

(* Mutant: an existing payment is treated as a fresh one and re-announced. *)
CheckFindsReannounces(c) ==
  /\ call[c].pc = "check"
  /\ svc # "down"
  /\ Taken(call[c].order)
  /\ Goto(c, "publish")
  /\ UNCHANGED <<payments, published, svc, faults>>

(* GetByOrderID finds a row: the call ends with ErrPaymentExists. *)
CheckFinds(c) ==
  /\ call[c].pc = "check"
  /\ svc # "down"
  /\ Taken(call[c].order)
  /\ Return(c, "Exists")
  /\ UNCHANGED <<payments, published, svc, faults>>

(* While the process is closing its pool, queries fail as well. *)
DbMayFail == "db" \in faults \/ svc = "closed"

(* No row, or any error of the query: both fall through to the insert. *)
CheckPasses(c) ==
  /\ call[c].pc = "check"
  /\ svc # "down"
  /\ DbMayFail \/ ~Taken(call[c].order)
  /\ Goto(c, "insert")
  /\ UNCHANGED <<payments, published, svc, faults>>

(* Mutant: no unique index, the check before the insert is all there is. *)
InsertWithoutIndex(c) ==
  /\ call[c].pc = "insert"
  /\ svc # "down"
  /\ payments' = payments \cup {PaymentOf(c)}
  /\ Goto(c, "publish")
  /\ UNCHANGED <<published, svc, faults>>

(* The insert commits.  Its acknowledgement may still be lost, and then    *)
(* the call reports an error and publishes nothing.                        *)
Insert(c) ==
  /\ call[c].pc = "insert"
  /\ svc # "down"
  /\ ~Taken(call[c].order)
  /\ payments' = payments \cup {PaymentOf(c)}
  /\ \/ Goto(c, "publish")
     \/ DbMayFail /\ Return(c, "Error")
  /\ UNCHANGED <<published, svc, faults>>

(* Mutant: the error of repo.Create is dropped and the event goes out. *)
InsertFailsUnnoticed(c) ==
  /\ call[c].pc = "insert"
  /\ svc # "down"
  /\ DbMayFail \/ Taken(call[c].order)
  /\ Goto(c, "publish")
  /\ UNCHANGED <<payments, published, svc, faults>>

(* Mutant: a failed insert is retried until it succeeds. *)
InsertFailsRetries(c) ==
  /\ call[c].pc = "insert"
  /\ svc # "down"
  /\ DbMayFail \/ Taken(call[c].order)
  /\ Goto(c, "insert")
  /\ UNCHANGED <<payments, published, svc, faults>>

(* The unique index refuses the row, or the insert fails with no effect. *)
InsertFails(c) ==
  /\ call[c].pc = "insert"
  /\ svc # "down"
  /\ DbMayFail \/ Taken(call[c].order)
  /\ Return(c, "Error")
  /\ UNCHANGED <<payments, published, svc, faults>>

(* The broker accepts the event. *)
Publish(c) ==
  /\ call[c].pc = "publish"
  /\ svc \in {"up", "draining"}
  /\ published' = published \cup {PaymentOf(c)}
  /\ Return(c, Decision(call[c].amount))
  /\ UNCHANGED <<payments, svc, faults>>

(* The event is lost, by an error the use case discards or, without        *)
(* publisher confirms, with no error at all: the reply is the same.        *)
PublishLost(c) ==
  /\ call[c].pc = "publish"
  /\ svc = "closed" \/ ("broker" \in faults /\ svc # "down")
  /\ Return(c, Decision(call[c].amount))
  /\ UNCHANGED <<payments, published, svc, faults>>

CallStep(c) ==
  \/ CheckFinds(c)
  \/ CheckPasses(c)
  \/ Insert(c)
  \/ InsertFails(c)
  \/ Publish(c)
  \/ PublishLost(c)

-----------------------------------------------------------------------------
(* SIGTERM: main enters grpcServer.GracefulStop. *)
Sigterm ==
  /\ "stop" \in faults
  /\ svc = "up"
  /\ svc' = "draining"
  /\ UNCHANGED <<payments, published, call, faults>>

(* Mutant: the broker is closed before the running RPCs have returned. *)
CloseBrokerEarly ==
  /\ svc = "draining"
  /\ svc' = "closed"
  /\ UNCHANGED <<payments, published, call, faults>>

(* GracefulStop returns once no RPC is running; the broker is closed next. *)
CloseBroker ==
  /\ svc = "draining"
  /\ \A c \in GrpcCalls : ~InFlight(c)
  /\ svc' = "closed"
  /\ UNCHANGED <<payments, published, call, faults>>

(* The process ends and takes the calls it was running with it. *)
Die ==
  /\ svc' = "down"
  /\ call' = [c \in Calls |-> IF InFlight(c) THEN [call[c] EXCEPT !.pc = "dead"] ELSE call[c]]
  /\ UNCHANGED <<payments, published, faults>>

Exit == svc = "closed" /\ Die

Crash == "crash" \in faults /\ svc # "down" /\ Die

(* main runs again: the migrations find their table and index in place. *)
Restart ==
  /\ svc = "down"
  /\ svc' = "up"
  /\ UNCHANGED <<payments, published, call, faults>>

Process == Sigterm \/ CloseBroker \/ Exit \/ Crash \/ Restart

(* Every request of the instance has been served: nothing is left to do. *)
Finished ==
  /\ \A c \in Calls : call[c].pc \in {"done", "dead"}
  /\ UNCHANGED vars

Next ==
  \/ \E c \in Calls, o \in OrderIds, a \in Amounts : Arrive(c, o, a)
  \/ \E c \in Calls : CallStep(c)
  \/ Process
  \/ Finished

Spec == Init /\ [][Next]_vars

(* Every call is a goroutine of its own and the drain is a loop of main.   *)
(* Arrivals, crashes and restarts are not assumed to happen.               *)
Fairness ==
  /\ \A c \in Calls : WF_vars(CallStep(c))
  /\ WF_vars(CloseBroker)
  /\ WF_vars(Exit)

FairSpec == Spec /\ Fairness

-----------------------------------------------------------------------------
(* Type correctness of the tables, the calls and the process. *)
TypeOK ==
  /\ payments \subseteq Payment
  /\ published \subseteq Payment
  /\ call \in [Calls -> CallState]
  /\ svc \in {"up", "draining", "closed", "down"}
  /\ faults \in Environments

(* An order is never charged twice, whatever calls race between the lookup *)
(* and the insert of ProcessPayment and however queries fail.              *)
OnePaymentPerOrder == \A p, q \in payments : p.order = q.order => p = q

(* No phantom event: an event on the broker tells of a committed payment   *)
(* of that order, amount and status, and no payment is announced twice.    *)
EventsComeFromPayments ==
  /\ \A e \in published : \E p \in payments :
       p.order = e.order /\ p.amount = e.amount /\ p.status = e.status
  /\ \A e, f \in published : e.order = f.order => e = f

(* A caller told Authorized or Declined was told the decision on record    *)
(* for its order, and one told "already processed" has a payment to find.  *)
RepliesAreOnRecord ==
  \A c \in Calls :
    /\ call[c].reply \in PaymentStatus =>
         \E p \in payments : p.order = call[c].order /\ p.status = call[c].reply
    /\ call[c].reply = "Exists" => \E p \in payments : p.order = call[c].order /\ p.id # c

(* Behind these: each row is the row of the call that minted its ID, which *)
(* is past its insert; what is announced is on record; and a call about to *)
(* publish has its own row committed and has not published it before.      *)
RowsFollowCalls ==
  /\ \A p \in payments : p = PaymentOf(p.id) /\ call[p.id].pc \in {"publish", "done", "dead"}
  /\ published \subseteq payments
  /\ \A c \in Calls : call[c].pc = "publish" => PaymentOf(c) \in payments \ published

(* When the process only ever stops through its graceful shutdown, every   *)
(* payment a gRPC call committed has its event on the broker once the call *)
(* is over: GracefulStop drains those calls before the broker is closed.   *)
DrainKeepsGrpcEvents ==
  faults \subseteq {"stop"} =>
    \A p \in payments : p.id \in GrpcCalls /\ ~InFlight(p.id) => p \in published

(* A graceful shutdown ends: the calls it waits for all return. *)
ShutdownCompletes == svc = "draining" ~> svc = "down"

(* The service implements the ledger: a commit records, a publish announces. *)
EntryOf(p) == [order |-> p.order, amount |-> p.amount, status |-> p.status]

Ledger == INSTANCE PaymentLedger WITH
            ledger <- {EntryOf(p) : p \in payments},
            announced <- {EntryOf(e) : e \in published}

LedgerSpec == Ledger!Spec
=============================================================================
