--------------------------- MODULE PaymentsProofs ---------------------------
(***************************************************************************)
(* Proofs about the payment service, for any number of orders, calls and   *)
(* amounts and any choice of failures: the type invariant, the safety      *)
(* invariants that MCPayments checks on small instances, and that the      *)
(* service implements the ledger.                                          *)
(***************************************************************************)
EXTENDS Payments, TLAPS

(* A status a caller was told is that of the row its own call committed; a *)
(* caller told "already processed" was beaten by another call's row.       *)
RepliesFollowRows ==
  \A c \in Calls :
    /\ call[c].reply \in PaymentStatus =>
         PaymentOf(c) \in payments /\ call[c].reply = Decision(call[c].amount)
    /\ call[c].reply = "Exists" => \E p \in payments : p.order = call[c].order /\ p.id # c

(* A call being handled names an order, and an amount the handlers let in. *)
Handled == \A c \in Calls :
  InFlight(c) => call[c].order \in OrderIds /\ call[c].amount \in Amounts /\ call[c].amount > 0

(* The inductive invariant. *)
IInv ==
  /\ TypeOK
  /\ OnePaymentPerOrder
  /\ RowsFollowCalls
  /\ RepliesFollowRows
  /\ Handled

LEMMA InitIInv == Init => IInv
BY DEF Init, IInv, TypeOK, OnePaymentPerOrder, RowsFollowCalls, RepliesFollowRows, Handled,
       InFlight, CallState, PaymentStatus

(* What the steps of one call have in common: they move a call that is     *)
(* being handled on, and leave its order and amount alone.                 *)
Moves(c, pc, reply) ==
  /\ InFlight(c)
  /\ call' = [call EXCEPT ![c].pc = pc, ![c].reply = reply]

LEMMA MoveCall ==
  ASSUME TypeOK, NEW c \in Calls,
         NEW pc \in {"check", "insert", "publish", "done"},
         NEW reply \in {"none", "Exists", "Invalid", "Error"} \cup PaymentStatus,
         Moves(c, pc, reply)
  PROVE  /\ call' \in [Calls -> CallState]
         /\ call'[c].pc = pc /\ call'[c].reply = reply
         /\ \A d \in Calls : d # c => call'[d] = call[d]
         /\ \A d \in Calls : call'[d].order = call[d].order /\ call'[d].amount = call[d].amount
         /\ \A d \in Calls : PaymentOf(d)' = PaymentOf(d)
<1>1. call \in [Calls -> CallState]
  BY DEF TypeOK
<1>2. call'[c] = [call[c] EXCEPT !.pc = pc, !.reply = reply]
  BY <1>1 DEF Moves
<1>3. \A d \in Calls : d # c => call'[d] = call[d]
  BY <1>1 DEF Moves
<1>4. call[c] \in CallState
  BY <1>1
<1>5. /\ call'[c] \in CallState
      /\ call'[c].pc = pc /\ call'[c].reply = reply
      /\ call'[c].order = call[c].order /\ call'[c].amount = call[c].amount
  BY <1>2, <1>4 DEF CallState
<1>6. call' \in [Calls -> CallState]
  BY <1>1, <1>3, <1>5 DEF Moves
<1>7. \A d \in Calls : call'[d].order = call[d].order /\ call'[d].amount = call[d].amount
  BY <1>3, <1>5
<1>. QED  BY <1>3, <1>5, <1>6, <1>7 DEF PaymentOf

(* Goto and Return in these terms. *)
LEMMA GotoMoves ==
  ASSUME TypeOK, NEW c \in Calls, NEW pc, InFlight(c), Goto(c, pc)
  PROVE  Moves(c, pc, call[c].reply)
<1>1. call \in [Calls -> CallState] /\ call[c] \in CallState
  BY DEF TypeOK
<1>2. [call[c] EXCEPT !.pc = pc] = [call[c] EXCEPT !.pc = pc, !.reply = call[c].reply]
  BY <1>1 DEF CallState
<1>. QED  BY <1>1, <1>2 DEF Goto, Moves

LEMMA ReturnMoves ==
  ASSUME NEW c \in Calls, NEW reply, InFlight(c), Return(c, reply)
  PROVE  Moves(c, "done", reply)
BY DEF Return, Moves

(* A step that leaves the tables alone and moves a call to its insert or   *)
(* its end.  What it answers, if anything, is on record.                   *)
LEMMA QuietMove ==
  ASSUME IInv, NEW c \in Calls,
         NEW pc \in {"insert", "done"},
         NEW reply \in {"none", "Exists", "Invalid", "Error"} \cup PaymentStatus,
         Moves(c, pc, reply),
         reply \in PaymentStatus => PaymentOf(c) \in payments /\ reply = Decision(call[c].amount),
         reply = "Exists" => \E p \in payments : p.order = call[c].order /\ p.id # c,
         pc = "insert" => call[c].pc = "check",
         UNCHANGED <<payments, published, svc, faults>>
  PROVE  IInv'
<1>. USE DEF IInv
<1>1. /\ call' \in [Calls -> CallState]
      /\ call'[c].pc = pc /\ call'[c].reply = reply
      /\ \A d \in Calls : d # c => call'[d] = call[d]
      /\ \A d \in Calls : call'[d].order = call[d].order /\ call'[d].amount = call[d].amount
      /\ \A d \in Calls : PaymentOf(d)' = PaymentOf(d)
  BY MoveCall
<1>2. TypeOK'
  BY <1>1 DEF TypeOK
<1>3. OnePaymentPerOrder'
  BY DEF OnePaymentPerOrder
<1>4. RowsFollowCalls'
  <2>1. \A p \in payments : p.id \in Calls
    BY DEF TypeOK, Payment
  <2>. QED  BY <1>1, <2>1 DEF RowsFollowCalls, Moves, InFlight
<1>5. RepliesFollowRows'
  BY <1>1 DEF RepliesFollowRows
<1>6. Handled'
  BY <1>1 DEF Handled, Moves, InFlight
<1>. QED  BY <1>2, <1>3, <1>4, <1>5, <1>6

(* The steps of a call, one by one. *)
LEMMA CheckFindsStep ==
  ASSUME IInv, NEW c \in Calls, CheckFinds(c)
  PROVE  IInv'
<1>1. Moves(c, "done", "Exists")
  BY ReturnMoves DEF CheckFinds, InFlight
<1>2. PICK p \in payments : p.order = call[c].order
  BY DEF CheckFinds, Taken
<1>3. p.id # c
  BY <1>2 DEF IInv, RowsFollowCalls, CheckFinds
<1>. QED  BY <1>1, <1>2, <1>3, QuietMove DEF CheckFinds, PaymentStatus

LEMMA CheckPassesStep ==
  ASSUME IInv, NEW c \in Calls, CheckPasses(c)
  PROVE  IInv'
<1>1. Moves(c, "insert", call[c].reply)
  BY GotoMoves DEF CheckPasses, InFlight, IInv
<1>2. call[c].reply \in {"none", "Exists", "Invalid", "Error"} \cup PaymentStatus
  BY DEF IInv, TypeOK, CallState
<1>. QED  BY <1>1, <1>2, QuietMove DEF CheckPasses, IInv, RepliesFollowRows

LEMMA InsertFailsStep ==
  ASSUME IInv, NEW c \in Calls, InsertFails(c)
  PROVE  IInv'
<1>1. Moves(c, "done", "Error")
  BY ReturnMoves DEF InsertFails, InFlight
<1>. QED  BY <1>1, QuietMove DEF InsertFails, PaymentStatus

LEMMA PublishLostStep ==
  ASSUME IInv, NEW c \in Calls, PublishLost(c)
  PROVE  IInv'
<1>1. Moves(c, "done", Decision(call[c].amount))
  BY ReturnMoves DEF PublishLost, InFlight
<1>2. Decision(call[c].amount) \in PaymentStatus
  BY DEF Decision, PaymentStatus
<1>3. PaymentOf(c) \in payments
  BY DEF IInv, RowsFollowCalls, PublishLost
<1>. QED  BY <1>1, <1>2, <1>3, QuietMove DEF PublishLost, PaymentStatus

(* The event joins those published: it was not among them, and no other    *)
(* call is about to publish the same row.                                  *)
LEMMA PublishStep ==
  ASSUME IInv, NEW c \in Calls, Publish(c)
  PROVE  IInv'
<1>. USE DEF IInv
<1>1. Decision(call[c].amount) \in PaymentStatus
  BY DEF Decision, PaymentStatus
<1>2. Moves(c, "done", Decision(call[c].amount))
  BY ReturnMoves DEF Publish, InFlight
<1>3. /\ call' \in [Calls -> CallState]
      /\ call'[c].pc = "done" /\ call'[c].reply = Decision(call[c].amount)
      /\ \A d \in Calls : d # c => call'[d] = call[d]
      /\ \A d \in Calls : call'[d].order = call[d].order /\ call'[d].amount = call[d].amount
      /\ \A d \in Calls : PaymentOf(d)' = PaymentOf(d)
  BY <1>1, <1>2, MoveCall
<1>4. /\ PaymentOf(c) \in payments
      /\ payments' = payments
      /\ published' = published \cup {PaymentOf(c)}
      /\ svc' = svc /\ faults' = faults
  BY DEF Publish, RowsFollowCalls
<1>5. TypeOK'
  BY <1>3, <1>4 DEF TypeOK
<1>6. OnePaymentPerOrder'
  BY <1>4 DEF OnePaymentPerOrder
<1>7. RowsFollowCalls'
  <2>1. \A p \in payments : p.id \in Calls
    BY DEF TypeOK, Payment
  <2>2. \A d \in Calls : d # c => PaymentOf(d) # PaymentOf(c)
    BY DEF PaymentOf
  <2>. QED  BY <1>3, <1>4, <2>1, <2>2 DEF RowsFollowCalls
<1>8. RepliesFollowRows'
  BY <1>1, <1>3, <1>4 DEF RepliesFollowRows, PaymentStatus
<1>9. Handled'
  BY <1>3 DEF Handled, InFlight
<1>. QED  BY <1>5, <1>6, <1>7, <1>8, <1>9

(* The unique index refuses the row of an order that has one, so the new   *)
(* row is the only one of its order; and no row is its call's already.     *)
LEMMA InsertStep ==
  ASSUME IInv, NEW c \in Calls, Insert(c)
  PROVE  IInv'
<1>. USE DEF IInv
<1>1. PICK pc \in {"publish", "done"},
           reply \in {"none", "Exists", "Invalid", "Error"} \cup PaymentStatus :
        /\ Moves(c, pc, reply)
        /\ \/ pc = "publish" /\ reply = call[c].reply
           \/ pc = "done" /\ reply = "Error"
  <2>1. CASE Goto(c, "publish")
    <3>1. call[c].reply \in {"none", "Exists", "Invalid", "Error"} \cup PaymentStatus
      BY DEF TypeOK, CallState
    <3>. QED  BY <2>1, <3>1, GotoMoves DEF Insert, InFlight
  <2>2. CASE Return(c, "Error")
    BY <2>2, ReturnMoves DEF Insert, InFlight
  <2>. QED  BY <2>1, <2>2 DEF Insert
<1>2. /\ call' \in [Calls -> CallState]
      /\ call'[c].pc = pc /\ call'[c].reply = reply
      /\ \A d \in Calls : d # c => call'[d] = call[d]
      /\ \A d \in Calls : call'[d].order = call[d].order /\ call'[d].amount = call[d].amount
      /\ \A d \in Calls : PaymentOf(d)' = PaymentOf(d)
  BY <1>1, MoveCall
<1>3. /\ payments' = payments \cup {PaymentOf(c)}
      /\ \A p \in payments : p.order # PaymentOf(c).order
      /\ published' = published
      /\ svc' = svc /\ faults' = faults
  BY DEF Insert, Taken, PaymentOf
<1>4. /\ PaymentOf(c) \in Payment
      /\ PaymentOf(c).id = c
      /\ \A p \in payments : p.id \in Calls /\ p.id # c
  <2>1. call[c].order \in OrderIds /\ call[c].amount \in Amounts
    BY DEF Handled, InFlight, Insert
  <2>. QED
    BY <2>1 DEF PaymentOf, Payment, Decision, PaymentStatus, TypeOK, RowsFollowCalls, Insert
<1>5. TypeOK'
  BY <1>2, <1>3, <1>4 DEF TypeOK
<1>6. OnePaymentPerOrder'
  BY <1>3 DEF OnePaymentPerOrder
<1>7. RowsFollowCalls'
  <2>1. PaymentOf(c) \notin payments
    BY <1>4
  <2>2. \A d \in Calls : d # c => PaymentOf(d) # PaymentOf(c)
    BY DEF PaymentOf
  <2>. QED  BY <1>1, <1>2, <1>3, <1>4, <2>1, <2>2 DEF RowsFollowCalls
<1>8. RepliesFollowRows'
  BY <1>1, <1>2, <1>3, <1>4 DEF RepliesFollowRows, PaymentStatus
<1>9. Handled'
  BY <1>1, <1>2 DEF Handled, Moves, InFlight
<1>. QED  BY <1>5, <1>6, <1>7, <1>8, <1>9

(* A call that has not arrived yet is named by no row. *)
LEMMA ArriveStep ==
  ASSUME IInv, NEW c \in Calls, NEW o \in OrderIds, NEW a \in Amounts, Arrive(c, o, a)
  PROVE  IInv'
<1>. USE DEF IInv
<1>1. call \in [Calls -> CallState] /\ call[c].pc = "idle"
  BY DEF TypeOK, Arrive
<1>2. /\ call'[c] = [pc |-> IF a > 0 THEN "check" ELSE "done", order |-> o, amount |-> a,
                     reply |-> IF a > 0 THEN "none" ELSE "Invalid"]
      /\ \A d \in Calls : d # c => call'[d] = call[d]
  BY <1>1 DEF Arrive
<1>3. call'[c] \in CallState
  BY <1>2 DEF CallState
<1>4. TypeOK'
  BY <1>1, <1>3 DEF TypeOK, Arrive
<1>5. OnePaymentPerOrder'
  BY DEF OnePaymentPerOrder, Arrive
<1>6. \A p \in payments : p.id \in Calls /\ p.id # c
  BY <1>1 DEF RowsFollowCalls, TypeOK, Payment
<1>7. \A d \in Calls : d # c => PaymentOf(d)' = PaymentOf(d)
  BY <1>2 DEF PaymentOf
<1>8. RowsFollowCalls'
  BY <1>2, <1>6, <1>7 DEF RowsFollowCalls, Arrive
<1>9. RepliesFollowRows'
  BY <1>2, <1>7 DEF RepliesFollowRows, Arrive, PaymentStatus
<1>10. Handled'
  BY <1>2 DEF Handled, InFlight
<1>. QED  BY <1>4, <1>5, <1>8, <1>9, <1>10

(* The process dies under its calls; what they wrote stays. *)
LEMMA DieStep ==
  ASSUME IInv, Die
  PROVE  IInv'
<1>. USE DEF IInv
<1>1. /\ \A d \in Calls : call'[d] \in CallState
      /\ \A d \in Calls : call'[d].order = call[d].order /\ call'[d].amount = call[d].amount
      /\ \A d \in Calls : call'[d].reply = call[d].reply
      /\ \A d \in Calls : call'[d].pc = IF InFlight(d) THEN "dead" ELSE call[d].pc
  BY DEF Die, TypeOK, CallState, InFlight
<1>2. \A d \in Calls : PaymentOf(d)' = PaymentOf(d)
  BY <1>1 DEF PaymentOf
<1>3. TypeOK'
  BY <1>1 DEF TypeOK, Die
<1>4. OnePaymentPerOrder'
  BY DEF OnePaymentPerOrder, Die
<1>5. RowsFollowCalls'
  <2>1. \A p \in payments : p.id \in Calls
    BY DEF TypeOK, Payment
  <2>. QED  BY <1>1, <1>2, <2>1 DEF RowsFollowCalls, Die, InFlight
<1>6. RepliesFollowRows'
  BY <1>1, <1>2 DEF RepliesFollowRows, Die
<1>7. Handled'
  BY <1>1 DEF Handled, InFlight
<1>. QED  BY <1>3, <1>4, <1>5, <1>6, <1>7

(* The other steps of the process change nothing but its own state. *)
LEMMA ProcessStep ==
  ASSUME IInv, Process
  PROVE  IInv'
<1>1. CASE Sigterm \/ CloseBroker \/ Restart
  BY <1>1 DEF Sigterm, CloseBroker, Restart, IInv, TypeOK, OnePaymentPerOrder, RowsFollowCalls,
              RepliesFollowRows, Handled, InFlight, PaymentOf
<1>2. CASE Exit \/ Crash
  BY <1>2, DieStep DEF Exit, Crash
<1>. QED  BY <1>1, <1>2 DEF Process

LEMMA IdleStep ==
  ASSUME IInv, UNCHANGED vars
  PROVE  IInv'
BY DEF vars, IInv, TypeOK, OnePaymentPerOrder, RowsFollowCalls, RepliesFollowRows, Handled,
       InFlight, PaymentOf

(* Every step of the service keeps IInv. *)
LEMMA InductiveStep == IInv /\ [Next]_vars => IInv'
<1>. SUFFICES ASSUME IInv, [Next]_vars
              PROVE  IInv'
  OBVIOUS
<1>1. CASE \E c \in Calls, o \in OrderIds, a \in Amounts : Arrive(c, o, a)
  BY <1>1, ArriveStep
<1>2. CASE \E c \in Calls : CallStep(c)
  BY <1>2, CheckFindsStep, CheckPassesStep, InsertStep, InsertFailsStep, PublishStep,
     PublishLostStep DEF CallStep
<1>3. CASE Process
  BY <1>3, ProcessStep
<1>4. CASE Finished \/ UNCHANGED vars
  BY <1>4, IdleStep DEF Finished
<1>. QED  BY <1>1, <1>2, <1>3, <1>4 DEF Next

(* IInv holds in every reachable state. *)
THEOREM Invariance == Spec => []IInv
BY InitIInv, InductiveStep, PTL DEF Spec

(* No step but its arrival changes what a call is about, and none changes  *)
(* a call that has been answered.                                          *)
LEMMA CallsGoOn ==
  ASSUME IInv, (\E c \in Calls : CallStep(c)) \/ Process, NEW d \in Calls
  PROVE  /\ call'[d].order = call[d].order /\ call'[d].amount = call[d].amount
         /\ call'[d].pc = "idle" <=> call[d].pc = "idle"
         /\ call[d].pc = "done" => call'[d] = call[d]
<1>0. call \in [Calls -> CallState] /\ call[d] \in CallState
  BY DEF IInv, TypeOK
<1>1. ASSUME NEW c \in Calls, CallStep(c) PROVE InFlight(c) /\ \E pc \in {"insert", "publish", "done"} :
                 Goto(c, pc) \/ \E reply \in {"Exists", "Error"} \cup PaymentStatus : Return(c, reply)
  BY <1>1 DEF CallStep, CheckFinds, CheckPasses, Insert, InsertFails, Publish, PublishLost,
              InFlight, Decision, PaymentStatus
<1>2. CASE \E c \in Calls : CallStep(c)
  <2>1. PICK c \in Calls : InFlight(c) /\ \E pc \in {"insert", "publish", "done"} :
               Goto(c, pc) \/ \E reply \in {"Exists", "Error"} \cup PaymentStatus : Return(c, reply)
    BY <1>1, <1>2
  <2>2. PICK pc \in {"insert", "publish", "done"},
             reply \in {"none", "Exists", "Invalid", "Error"} \cup PaymentStatus : Moves(c, pc, reply)
    <3>1. call[c].reply \in {"none", "Exists", "Invalid", "Error"} \cup PaymentStatus
      BY DEF IInv, TypeOK, CallState
    <3>. QED  BY <2>1, <3>1, GotoMoves, ReturnMoves DEF IInv
  <2>. QED  BY <2>1, <2>2, MoveCall DEF IInv, InFlight
<1>3. CASE Sigterm \/ CloseBroker \/ Restart
  BY <1>3 DEF Sigterm, CloseBroker, Restart
<1>4. CASE Exit \/ Crash
  <2>1. call'[d] = IF InFlight(d) THEN [call[d] EXCEPT !.pc = "dead"] ELSE call[d]
    BY <1>4 DEF Exit, Crash, Die
  <2>. QED  BY <1>0, <2>1 DEF CallState, InFlight
<1>. QED  BY <1>2, <1>3, <1>4 DEF Process

(* No row is deleted or changed. *)
LEMMA RowsStay ==
  ASSUME [Next]_vars
  PROVE  payments \subseteq payments'
BY DEF Next, Arrive, CallStep, CheckFinds, CheckPasses, Insert, InsertFails, Publish, PublishLost,
   Process, Sigterm, CloseBroker, Exit, Die, Crash, Restart, Finished, vars

(* What the broker has accepted it does not forget. *)
LEMMA EventsStay ==
  ASSUME [Next]_vars
  PROVE  published \subseteq published'
BY DEF Next, Arrive, CallStep, CheckFinds, CheckPasses, Insert, InsertFails, Publish, PublishLost,
   Process, Sigterm, CloseBroker, Exit, Die, Crash, Restart, Finished, vars

-----------------------------------------------------------------------------
(* The type invariant of the payment service. *)
THEOREM TypeCorrectness == Spec => []TypeOK
BY Invariance, PTL DEF IInv

(* No order is ever charged twice, for any number of racing calls and any  *)
(* failures of the database, the broker and the process.                   *)
THEOREM NoDoubleCharge == Spec => []OnePaymentPerOrder
BY Invariance, PTL DEF IInv

(* A decision stands: its row remains, no later call or restart adds       *)
(* another for that order, and what was announced stays announced.         *)
DecisionsStand ==
  [][/\ \A p \in payments : p \in payments' /\ \A q \in payments' : q.order = p.order => q = p
     /\ published \subseteq published']_vars

(* Whatever is retried, an order keeps the one decision it was given.      *)
THEOREM DecisionsCorrectness == Spec => DecisionsStand
<1>1. IInv' /\ [Next]_vars =>
        [/\ \A p \in payments : p \in payments' /\ \A q \in payments' : q.order = p.order => q = p
         /\ published \subseteq published']_vars
  BY RowsStay, EventsStay DEF IInv, OnePaymentPerOrder
<1>. QED  BY <1>1, Invariance, PTL DEF Spec, DecisionsStand

(* Each row belongs to the one call that minted it, and what is announced  *)
(* is on record.                                                           *)
THEOREM RowsCorrectness == Spec => []RowsFollowCalls
BY Invariance, PTL DEF IInv

(* No phantom and no repeated event. *)
THEOREM EventsCorrectness == Spec => []EventsComeFromPayments
<1>1. IInv => EventsComeFromPayments
  BY DEF IInv, EventsComeFromPayments, RowsFollowCalls, OnePaymentPerOrder
<1>. QED  BY <1>1, Invariance, PTL

(* What a caller is told is the decision on record. *)
THEOREM RepliesCorrectness == Spec => []RepliesAreOnRecord
<1>1. IInv => RepliesAreOnRecord
  <2>. SUFFICES ASSUME IInv, NEW c \in Calls
                PROVE  /\ call[c].reply \in PaymentStatus =>
                            \E p \in payments :
                              p.order = call[c].order /\ p.status = call[c].reply
                       /\ call[c].reply = "Exists" =>
                            \E p \in payments : p.order = call[c].order /\ p.id # c
    BY DEF RepliesAreOnRecord
  <2>1. PaymentOf(c).order = call[c].order /\ PaymentOf(c).status = Decision(call[c].amount)
    BY DEF PaymentOf
  <2>. QED  BY <2>1 DEF IInv, RepliesFollowRows
<1>. QED  BY <1>1, Invariance, PTL

-----------------------------------------------------------------------------
(* The refinement of PaymentLedger.  Only an insert and a publish move the *)
(* ledger.                                                                 *)
LEMMA InsertRecords ==
  ASSUME IInv, NEW c \in Calls, Insert(c)
  PROVE  Ledger!Record(call[c].order, call[c].amount)
<1>1. payments' = payments \cup {PaymentOf(c)} /\ published' = published
  BY DEF Insert
<1>2. EntryOf(PaymentOf(c)) = [order |-> call[c].order, amount |-> call[c].amount,
                               status |-> Ledger!Decision(call[c].amount)]
  BY DEF EntryOf, PaymentOf, Decision, Ledger!Decision
<1>3. {EntryOf(p) : p \in payments'} =
        {EntryOf(p) : p \in payments} \cup {EntryOf(PaymentOf(c))}
  BY <1>1
<1>4. \A e \in {EntryOf(p) : p \in payments} : e.order # call[c].order
  BY DEF EntryOf, Insert, Taken
<1>5. call[c].amount > 0
  BY DEF IInv, Handled, InFlight, Insert
<1>. QED  BY <1>1, <1>2, <1>3, <1>4, <1>5 DEF Ledger!Record

LEMMA PublishAnnounces ==
  ASSUME IInv, NEW c \in Calls, Publish(c)
  PROVE  \E e \in {EntryOf(p) : p \in payments} : Ledger!Announce(e)
<1>1. /\ payments' = payments
      /\ published' = published \cup {PaymentOf(c)}
      /\ PaymentOf(c) \in payments \ published
      /\ published \subseteq payments
  BY DEF Publish, IInv, RowsFollowCalls
<1>2. EntryOf(PaymentOf(c)) \notin {EntryOf(p) : p \in published}
  BY <1>1 DEF EntryOf, IInv, OnePaymentPerOrder
<1>3. {EntryOf(p) : p \in published'} =
        {EntryOf(p) : p \in published} \cup {EntryOf(PaymentOf(c))}
  BY <1>1
<1>. QED  BY <1>1, <1>2, <1>3 DEF Ledger!Announce

(* The payment service implements the ledger: one decision per order, made *)
(* once and from the amount alone, announced at most once and never before *)
(* it is recorded.                                                         *)
THEOREM ImplementsLedger == Spec => LedgerSpec
<1>1. Init => Ledger!Init
  BY DEF Init, Ledger!Init
<1>2. IInv /\ [Next]_vars =>
        [Ledger!Next]_<<{EntryOf(p) : p \in payments}, {EntryOf(e) : e \in published}>>
  <2>. SUFFICES ASSUME IInv, [Next]_vars
                PROVE  \/ Ledger!Next
                       \/ payments' = payments /\ published' = published
    BY DEF EntryOf
  <2>1. CASE \E c \in Calls : Insert(c)
    <3>1. PICK c \in Calls : Insert(c)
      BY <2>1
    <3>2. call[c].order \in OrderIds /\ call[c].amount \in Amounts
      BY <3>1 DEF IInv, Handled, InFlight, Insert
    <3>. QED  BY <3>1, <3>2, InsertRecords DEF Ledger!Next
  <2>2. CASE \E c \in Calls : Publish(c)
    BY <2>2, PublishAnnounces DEF Ledger!Next
  <2>3. CASE \E c \in Calls, o \in OrderIds, a \in Amounts : Arrive(c, o, a)
    BY <2>3 DEF Arrive
  <2>4. CASE \E c \in Calls : CheckFinds(c) \/ CheckPasses(c) \/ InsertFails(c) \/ PublishLost(c)
    BY <2>4 DEF CheckFinds, CheckPasses, InsertFails, PublishLost
  <2>5. CASE Process
    BY <2>5 DEF Process, Sigterm, CloseBroker, Exit, Crash, Restart, Die
  <2>6. CASE Finished \/ UNCHANGED vars
    BY <2>6 DEF Finished, vars
  <2>. QED  BY <2>1, <2>2, <2>3, <2>4, <2>5, <2>6 DEF Next, CallStep
<1>. QED  BY <1>1, <1>2, Invariance, PTL DEF Spec, LedgerSpec, Ledger!Spec
-----------------------------------------------------------------------------
(* The shutdown.  Behind the broker's back no gRPC call is running: the    *)
(* drain has seen them all return, and the server lets no new one in.      *)
ClosedIsDrained == svc \in {"closed", "down"} => \A c \in GrpcCalls : ~InFlight(c)

DrainInv ==
  /\ IInv
  /\ ClosedIsDrained
  /\ DrainKeepsGrpcEvents

(* A step of one call.  While queries do not fail and the broker is there, *)
(* a gRPC call leaves its row only at its publish.                         *)
LEMMA CallDrains ==
  ASSUME DrainInv, IInv', NEW c \in Calls, CallStep(c)
  PROVE  ClosedIsDrained' /\ DrainKeepsGrpcEvents'
<1>. USE DEF DrainInv
<1>1. /\ svc' = svc /\ faults' = faults /\ svc # "down"
      /\ InFlight(c)
      /\ \A d \in Calls : d # c => call'[d] = call[d]
      /\ published \subseteq published'
  BY DEF CallStep, CheckFinds, CheckPasses, Insert, InsertFails, Publish, PublishLost,
         InFlight, Goto, Return, IInv, TypeOK
<1>2. ClosedIsDrained'
  BY <1>1 DEF ClosedIsDrained, InFlight, Calls
<1>3. DrainKeepsGrpcEvents'
  <2>. SUFFICES ASSUME faults \subseteq {"stop"},
                       NEW p \in payments', p.id \in GrpcCalls, ~InFlight(p.id)'
                PROVE  p \in published'
    BY <1>1 DEF DrainKeepsGrpcEvents
  <2>1. CASE p.id # c
    <3>1. p \in payments
      BY <2>1 DEF CallStep, CheckFinds, CheckPasses, Insert, InsertFails, Publish, PublishLost,
                  PaymentOf
    <3>2. ~InFlight(p.id)
      BY <1>1, <2>1 DEF InFlight, Calls
    <3>. QED  BY <1>1, <3>1, <3>2 DEF DrainKeepsGrpcEvents
  <2>2. CASE p.id = c
    <3>1. svc \in {"up", "draining"} /\ ~DbMayFail
      BY <1>1, <2>2 DEF ClosedIsDrained, DbMayFail, IInv, TypeOK
    <3>2. CASE CheckFinds(c) \/ CheckPasses(c) \/ InsertFails(c)
      BY <2>2, <3>2 DEF CheckFinds, CheckPasses, InsertFails, IInv, RowsFollowCalls
    <3>3. CASE Insert(c)
      <4>1. Goto(c, "publish")
        BY <3>1, <3>3 DEF Insert
      <4>2. call'[c].pc = "publish"
        BY <4>1 DEF Goto, IInv, TypeOK, CallState
      <4>. QED  BY <2>2, <4>2 DEF InFlight
    <3>4. CASE Publish(c)
      BY <2>2, <3>4 DEF Publish, IInv, RowsFollowCalls
    <3>5. CASE PublishLost(c)
      BY <1>1, <3>1, <3>5 DEF PublishLost
    <3>. QED  BY <3>2, <3>3, <3>4, <3>5 DEF CallStep
  <2>. QED  BY <2>1, <2>2
<1>. QED  BY <1>2, <1>3

(* Arrivals, the process and stuttering.                                   *)
LEMMA ArriveDrains ==
  ASSUME DrainInv, NEW c \in Calls, NEW o \in OrderIds, NEW a \in Amounts, Arrive(c, o, a)
  PROVE  ClosedIsDrained' /\ DrainKeepsGrpcEvents'
<1>. USE DEF DrainInv
<1>1. /\ payments' = payments /\ published' = published /\ svc' = svc /\ faults' = faults
      /\ \A d \in Calls : d # c => call'[d] = call[d]
      /\ ~InFlight(c)
  BY DEF Arrive, InFlight, IInv, TypeOK
<1>2. ClosedIsDrained'
  <2>1. svc \in {"closed", "down"} => c \notin GrpcCalls
    BY PaymentsAssumption DEF Arrive, PaymentsAssumption
  <2>. QED  BY <1>1, <2>1 DEF ClosedIsDrained, InFlight, Calls
<1>3. DrainKeepsGrpcEvents'
  BY <1>1 DEF DrainKeepsGrpcEvents, InFlight, Calls
<1>. QED  BY <1>2, <1>3

LEMMA ProcessDrains ==
  ASSUME DrainInv, Process
  PROVE  ClosedIsDrained' /\ DrainKeepsGrpcEvents'
<1>. USE DEF DrainInv
<1>1. CASE Sigterm \/ CloseBroker \/ Restart
  BY <1>1 DEF Sigterm, CloseBroker, Restart, ClosedIsDrained, DrainKeepsGrpcEvents, InFlight
<1>2. CASE Exit \/ Crash
  <2>1. /\ payments' = payments /\ published' = published /\ faults' = faults
        /\ \A d \in Calls : ~InFlight(d)'
        /\ faults \subseteq {"stop"} => \A d \in GrpcCalls : ~InFlight(d)
    <3>1. Die /\ (faults \subseteq {"stop"} => svc = "closed")
      BY <1>2 DEF Exit, Crash
    <3>2. \A d \in Calls : ~InFlight(d)'
      <4>. SUFFICES ASSUME NEW d \in Calls
                    PROVE  ~InFlight(d)'
        OBVIOUS
      <4>1. call[d] \in CallState
        BY DEF IInv, TypeOK
      <4>. QED  BY <3>1, <4>1 DEF Die, InFlight, CallState
    <3>. QED  BY <3>1, <3>2 DEF Die, ClosedIsDrained
  <2>. QED  BY <2>1 DEF ClosedIsDrained, DrainKeepsGrpcEvents, Calls
<1>. QED  BY <1>1, <1>2 DEF Process

LEMMA IdleDrains ==
  ASSUME DrainInv, UNCHANGED vars
  PROVE  ClosedIsDrained' /\ DrainKeepsGrpcEvents'
BY DEF DrainInv, vars, ClosedIsDrained, DrainKeepsGrpcEvents, InFlight

(* A graceful shutdown, whenever it comes, loses no event of a payment made *)
(* over gRPC.                                                              *)
THEOREM DrainCorrectness == Spec => []DrainKeepsGrpcEvents
<1>1. Init => DrainInv
  BY InitIInv DEF Init, DrainInv, ClosedIsDrained, DrainKeepsGrpcEvents
<1>2. IInv' /\ DrainInv /\ [Next]_vars => DrainInv'
  <2>. SUFFICES ASSUME IInv', DrainInv, [Next]_vars
                PROVE  ClosedIsDrained' /\ DrainKeepsGrpcEvents'
    BY DEF DrainInv
  <2>1. CASE \E c \in Calls, o \in OrderIds, a \in Amounts : Arrive(c, o, a)
    BY <2>1, ArriveDrains
  <2>2. CASE \E c \in Calls : CallStep(c)
    BY <2>2, CallDrains
  <2>3. CASE Process
    BY <2>3, ProcessDrains
  <2>4. CASE Finished \/ UNCHANGED vars
    BY <2>4, IdleDrains DEF Finished
  <2>. QED  BY <2>1, <2>2, <2>3, <2>4 DEF Next
<1>3. DrainInv => DrainKeepsGrpcEvents
  BY DEF DrainInv
<1>. QED  BY <1>1, <1>2, <1>3, Invariance, PTL DEF Spec

=============================================================================
