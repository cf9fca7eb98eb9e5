------------------------- MODULE OrderServiceProofs -------------------------
(***************************************************************************)
(* Proofs about the order service, for any requests, keys and amounts and  *)
(* any failures: its type invariant, that a key makes one order and one    *)
(* payment call, that replies agree with each other and with the row, that *)
(* Paid is backed by an authorized payment, that the status column follows *)
(* OrderLifecycle, and that writes are followed by Deletes in the cache.   *)
(***************************************************************************)
EXTENDS OrderService, TLAPS

(* The row of a request, its RPC and its outcome follow where it is. *)
OwnRow(r) ==
  LET pc == create[r].pc
      outcome == create[r].outcome
  IN
  /\ pc # "idle" => create[r].amount \in Amounts
  /\ orders[r] # "Absent" => pc \notin {"idle", "lookup", "insert"}
  /\ rpc[r] # "idle" => orders[r] # "Absent"
  /\ pc \in {"idle", "lookup", "insert", "notify", "authorize"} => rpc[r] = "idle"
  /\ pc \in {"idle", "lookup", "insert", "notify", "authorize", "await"} => outcome = None
  /\ pc \in {"settle", "evict", "announce"} => outcome # None
  /\ outcome # None => rpc[r] \in Answer /\ outcome = OutcomeOf(rpc[r])
  /\ pc \in {"notify", "authorize", "await", "settle"} => orders[r] \in {"Pending", "Cancelled"}
  /\ pc \in {"evict", "announce"} => orders[r] # "Absent"
  /\ pc = "announce" => outcome # "Unavailable"
  /\ faults \cap {"db", "crash"} = {} /\ pc \in {"evict", "announce"} =>
       orders[r] \in {"Cancelled", IF outcome = "Unavailable" THEN "Failed" ELSE outcome}

RowsFollowRequests == \A r \in Creates : OwnRow(r)

(* Rows of one key are one row. *)
OneRowPerKey ==
  \A o, p \in Creates : Holds(o, create[p].key) /\ Holds(p, create[p].key) => o = p

(* Who was told of an order was told of one that holds his key. *)
RepliesHold ==
  \A r \in Creates :
    /\ create[r].code # None => create[r].pc = "done"
    /\ create[r].code = "created" => create[r].order \in Creates /\ Holds(create[r].order, create[r].key)
    /\ create[r].status # None => create[r].code = "created"

(* Cancellations and reads act on orders, the former on rows that exist. *)
OthersHold ==
  /\ \A x \in Cancels :
       /\ cancel[x].pc # "idle" => cancel[x].order \in Creates
       /\ cancel[x].pc \in {"write", "evict", "announce"} => orders[cancel[x].order] # "Absent"
  /\ \A g \in Reads :
       /\ read[g].pc = "idle" => read[g].seen = None
       /\ read[g].pc # "idle" => read[g].order \in Creates
       /\ read[g].pc = "fill" => read[g].seen \in Status

(* The inductive invariant. *)
IInv ==
  /\ TypeOK
  /\ RowsFollowRequests
  /\ OneRowPerKey
  /\ RepliesHold
  /\ OthersHold
  /\ PaidIsBacked
  /\ ReplyMatchesRow

(* What lasts through every step: a row stays, a request keeps its amount  *)
(* once it is posted, and an RPC that was issued stays issued.             *)
Lasting ==
  \A q \in Creates :
    /\ orders[q] # "Absent" => orders'[q] # "Absent"
    /\ create[q].pc # "idle" => create'[q].amount = create[q].amount
    /\ rpc[q] # "idle" => rpc'[q] # "idle"

LEMMA InitIInv == Init => IInv
<1>. SUFFICES ASSUME Init PROVE IInv
  OBVIOUS
<1>1. TypeOK
  <2>1. create \in [Creates -> CreateState]
    BY OrderAssumption DEF Init, CreateState, None
  <2>2. cancel \in [Cancels -> CancelState] /\ read \in [Reads -> ReadState]
    BY DEF Init, CancelState, ReadState, None
  <2>. QED  BY <2>1, <2>2 DEF Init, TypeOK, Answer
<1>2. RowsFollowRequests
  BY DEF Init, RowsFollowRequests, OwnRow
<1>3. OneRowPerKey /\ RepliesHold /\ ReplyMatchesRow
  BY DEF Init, OneRowPerKey, Holds, RepliesHold, ReplyMatchesRow, None
<1>4. OthersHold
  BY DEF Init, OthersHold, None
<1>5. PaidIsBacked
  BY DEF Init, PaidIsBacked, None
<1>. QED  BY <1>1, <1>2, <1>3, <1>4, <1>5 DEF IInv

-----------------------------------------------------------------------------
(* What a step of CreateOrder does to its request *)

(* The request r is now there, its other fields being as given, and no     *)
(* other create request has changed.                                       *)
Becomes(r, pc, outcome, code, o, s) ==
  /\ create' \in [Creates -> CreateState]
  /\ \A q \in Creates : q # r => create'[q] = create[q]
  /\ create'[r].pc = pc
  /\ create'[r].key = create[r].key
  /\ create'[r].amount = create[r].amount
  /\ create'[r].outcome = outcome
  /\ create'[r].code = code
  /\ create'[r].order = o
  /\ create'[r].status = s

CreatePC ==
  {"idle", "lookup", "insert", "notify", "authorize", "await", "settle", "evict",
   "announce", "done", "dead"}

LEMMA AfterGoto ==
  ASSUME TypeOK, NEW r \in Creates, NEW to \in CreatePC, CreateGoto(r, to)
  PROVE  Becomes(r, to, create[r].outcome, create[r].code, create[r].order, create[r].status)
<1>1. create \in [Creates -> CreateState] /\ create[r] \in CreateState
  BY DEF TypeOK
<1>2. create' = [create EXCEPT ![r] = [create[r] EXCEPT !.pc = to]]
  BY <1>1 DEF CreateGoto
<1>3. [create[r] EXCEPT !.pc = to] \in CreateState
  BY <1>1 DEF CreateState, CreatePC
<1>4. create' \in [Creates -> CreateState] /\ create'[r] = [create[r] EXCEPT !.pc = to]
  BY <1>1, <1>2, <1>3
<1>5. \A q \in Creates : q # r => create'[q] = create[q]
  BY <1>1, <1>2
<1>. QED  BY <1>1, <1>4, <1>5 DEF Becomes, CreateState

LEMMA AfterRespond ==
  ASSUME TypeOK, NEW r \in Creates, NEW code \in {"created", "error", "unavailable"},
         NEW o \in Creates \cup {None}, NEW s \in Status \cup {None}, Respond(r, code, o, s)
  PROVE  Becomes(r, "done", create[r].outcome, code, o, s)
<1>. DEFINE c == [create[r] EXCEPT !.pc = "done", !.code = code, !.order = o, !.status = s]
<1>1. create \in [Creates -> CreateState] /\ create[r] \in CreateState
  BY DEF TypeOK
<1>2. create' = [create EXCEPT ![r] = c]
  BY <1>1 DEF Respond
<1>3. c \in CreateState
  BY <1>1 DEF CreateState
<1>4. /\ c.pc = "done" /\ c.key = create[r].key /\ c.amount = create[r].amount /\ c.outcome = create[r].outcome
      /\ c.code = code /\ c.order = o /\ c.status = s
  BY <1>1 DEF CreateState
<1>. HIDE DEF c
<1>5. create' \in [Creates -> CreateState] /\ create'[r] = c
  BY <1>1, <1>2, <1>3
<1>6. \A q \in Creates : q # r => create'[q] = create[q]
  BY <1>1, <1>2
<1>. QED  BY <1>4, <1>5, <1>6 DEF Becomes

LEMMA AfterResume ==
  ASSUME TypeOK, NEW r \in Creates, Resume(r)
  PROVE  Becomes(r, "settle", OutcomeOf(rpc[r]), create[r].code, create[r].order, create[r].status)
<1>. DEFINE outcome == OutcomeOf(rpc[r])
            c == [create[r] EXCEPT !.pc = "settle", !.outcome = outcome]
<1>1. create \in [Creates -> CreateState] /\ create[r] \in CreateState
  BY DEF TypeOK
<1>2. create' = [create EXCEPT ![r] = c]
  BY <1>1 DEF Resume
<1>3. outcome \in {"Paid", "Failed", "Unavailable"}
  BY DEF OutcomeOf
<1>. HIDE DEF outcome
<1>4. c \in CreateState
  BY <1>1, <1>3 DEF CreateState
<1>5. /\ c.pc = "settle" /\ c.key = create[r].key /\ c.amount = create[r].amount /\ c.outcome = outcome
      /\ c.code = create[r].code /\ c.order = create[r].order /\ c.status = create[r].status
  BY <1>1 DEF CreateState
<1>. HIDE DEF c
<1>6. create' \in [Creates -> CreateState] /\ create'[r] = c
  BY <1>1, <1>2, <1>4
<1>7. \A q \in Creates : q # r => create'[q] = create[q]
  BY <1>1, <1>2
<1>. QED  BY <1>5, <1>6, <1>7 DEF Becomes, outcome

-----------------------------------------------------------------------------
(* The parts of the invariant that a step of CreateOrder can disturb       *)

(* A step of request r touches no row, no RPC and no request but its own,  *)
(* opens its order only if nobody has its key, neither closes the order    *)
(* nor takes an authorization back.                                        *)
Tidy(r) ==
  /\ \A q \in Creates : q # r => orders'[q] = orders[q] /\ rpc'[q] = rpc[q]
  /\ orders' \in [Creates -> Status \cup {"Absent"}]
  /\ rpc' \in [Creates -> Answer \cup {"idle", "sent"}]
  /\ orders[r] # "Absent" => orders'[r] # "Absent"
  /\ orders[r] = "Absent" /\ orders'[r] # "Absent"
       => \A o \in Creates : ~Holds(o, create[r].key)
  /\ rpc[r] # "idle" => rpc'[r] # "idle"
  /\ rpc[r] = "Authorized" => rpc'[r] = "Authorized"
  /\ orders'[r] = "Paid" => rpc'[r] = "Authorized"
  /\ UNCHANGED <<cancel, read, faults>>

LEMMA TidyKeeps ==
  ASSUME IInv, NEW r \in Creates, Tidy(r),
         NEW pc, NEW outcome, NEW code, NEW o, NEW s, Becomes(r, pc, outcome, code, o, s),
         OwnRow(r)'
  PROVE  /\ RowsFollowRequests' /\ OneRowPerKey' /\ OthersHold'
         /\ \A q \in Creates : \A k : q # r => (Holds(q, k)' <=> Holds(q, k))
         /\ \A q \in Creates : \A k : Holds(q, k) => Holds(q, k)'
<1>1. \A q \in Creates : \A k : q # r => (Holds(q, k)' <=> Holds(q, k))
  BY DEF Holds, Becomes, Tidy
<1>2. \A q \in Creates : \A k : Holds(q, k) => Holds(q, k)'
  BY DEF Holds, Becomes, Tidy
<1>3. RowsFollowRequests'
  <2>1. ASSUME NEW q \in Creates, q # r PROVE OwnRow(q)'
    BY <2>1 DEF IInv, RowsFollowRequests, OwnRow, Becomes, Tidy
  <2>. QED  BY <2>1 DEF RowsFollowRequests
<1>4. OneRowPerKey'
  <2>1. \A q \in Creates : create'[q].key = create[q].key
    BY DEF Becomes
  <2>2. ASSUME NEW q \in Creates, NEW p \in Creates,
               Holds(q, create[p].key)', Holds(p, create[p].key)'
        PROVE  q = p
    <3>1. Holds(q, create[p].key)' <=> orders'[q] # "Absent" /\ create[q].key = create[p].key
      BY <2>1 DEF Holds
    <3>2. orders'[p] # "Absent"
      BY <2>2 DEF Holds
    <3>. QED  BY <2>2, <3>1, <3>2 DEF IInv, OneRowPerKey, Holds, Tidy
  <2>. QED  BY <2>2 DEF OneRowPerKey
<1>5. OthersHold'
  BY DEF IInv, OthersHold, Tidy
<1>. QED  BY <1>1, <1>2, <1>3, <1>4, <1>5

(* A step that does not answer leaves the replies as they are. *)
LEMMA SilentStep ==
  ASSUME IInv, NEW r \in Creates, Tidy(r), cache' = cache \/ (\E o \in Creates : cache' = [cache EXCEPT ![o] = "Absent"]),
         create[r].pc # "done", NEW pc \in CreatePC \ {"done"}, NEW outcome,
         Becomes(r, pc, outcome, create[r].code, create[r].order, create[r].status),
         OwnRow(r)'
  PROVE  IInv' /\ Lasting
<1>1. /\ RowsFollowRequests' /\ OneRowPerKey' /\ OthersHold'
      /\ \A q \in Creates : \A k : Holds(q, k) => Holds(q, k)'
  BY TidyKeeps
<1>2. TypeOK'
  BY DEF IInv, TypeOK, Tidy, Becomes
<1>3. create[r].code = None /\ create[r].status = None
  BY DEF IInv, RepliesHold, None
<1>4. RepliesHold'
  BY <1>1, <1>3 DEF IInv, RepliesHold, Becomes, None
<1>5. PaidIsBacked'
  <2>1. \A q \in Creates : rpc[q] = "Authorized" => rpc'[q] = "Authorized"
    BY DEF Tidy
  <2>2. \A q \in Creates : "Paid" \in {orders'[q], cache'[q]} => rpc'[q] = "Authorized"
    BY <2>1 DEF IInv, PaidIsBacked, Tidy, TypeOK
  <2>3. \A q \in Creates : create'[q].status = "Paid" => rpc'[create'[q].order] = "Authorized"
    BY <1>3, <2>1 DEF IInv, PaidIsBacked, RepliesHold, Becomes, None
  <2>4. \A g \in Reads : read'[g].seen = "Paid" => rpc'[read'[g].order] = "Authorized"
    BY <2>1 DEF IInv, PaidIsBacked, OthersHold, Tidy, None
  <2>. QED  BY <2>2, <2>3, <2>4 DEF PaidIsBacked
<1>6. ReplyMatchesRow'
  BY <1>3 DEF IInv, ReplyMatchesRow, Becomes, Tidy, None
<1>7. Lasting
  BY DEF Lasting, Tidy, Becomes
<1>. QED  BY <1>7, <1>1, <1>2, <1>4, <1>5, <1>6 DEF IInv

(* A step that answers must answer truly. *)
LEMMA AnsweringStep ==
  ASSUME IInv, NEW r \in Creates, Tidy(r), cache' = cache \/ cache' = [cache EXCEPT ![r] = "Absent"],
         NEW outcome, NEW code \in {"created", "error", "unavailable"}, NEW o, NEW s,
         Becomes(r, "done", outcome, code, o, s), OwnRow(r)',
         code # "created" => s = None,
         code = "created" => o \in Creates /\ Holds(o, create[r].key) /\ (s = "Paid" => rpc[o] = "Authorized"),
         code = "created" /\ o = r /\ faults \cap {"db", "crash"} = {} => orders'[r] \in {s, "Cancelled"}
  PROVE  IInv' /\ Lasting
<1>1. /\ RowsFollowRequests' /\ OneRowPerKey' /\ OthersHold'
      /\ \A q \in Creates : \A k : Holds(q, k) => Holds(q, k)'
  BY TidyKeeps
<1>2. TypeOK'
  BY DEF IInv, TypeOK, Tidy, Becomes
<1>3. RepliesHold'
  <2>1. ASSUME NEW q \in Creates, q # r
        PROVE  /\ create'[q].code # None => create'[q].pc = "done"
               /\ create'[q].code = "created" =>
                    create'[q].order \in Creates /\ Holds(create[q].order, create[q].key)'
               /\ create'[q].status # None => create'[q].code = "created"
    BY <1>1, <2>1 DEF IInv, RepliesHold, Becomes
  <2>2. /\ create'[r].code # None => create'[r].pc = "done"
        /\ create'[r].code = "created" =>
             create'[r].order \in Creates /\ Holds(create[r].order, create[r].key)'
        /\ create'[r].status # None => create'[r].code = "created"
    BY <1>1 DEF Becomes, Holds
  <2>. QED  BY <2>1, <2>2 DEF RepliesHold
<1>4. PaidIsBacked'
  <2>1. \A q \in Creates : rpc[q] = "Authorized" => rpc'[q] = "Authorized"
    BY DEF Tidy
  <2>2. \A q \in Creates : "Paid" \in {orders'[q], cache'[q]} => rpc'[q] = "Authorized"
    BY <2>1 DEF IInv, PaidIsBacked, Tidy, TypeOK
  <2>3. ASSUME NEW q \in Creates, create'[q].status = "Paid"
        PROVE  rpc'[create'[q].order] = "Authorized"
    <3>1. CASE q = r
      BY <2>1, <2>3, <3>1 DEF Becomes, None
    <3>2. CASE q # r
      BY <2>1, <2>3, <3>2 DEF IInv, PaidIsBacked, RepliesHold, Becomes, None
    <3>. QED  BY <3>1, <3>2
  <2>4. \A g \in Reads : read'[g].seen = "Paid" => rpc'[read'[g].order] = "Authorized"
    BY <2>1 DEF IInv, PaidIsBacked, OthersHold, Tidy, None
  <2>. QED  BY <2>2, <2>3, <2>4 DEF PaidIsBacked
<1>5. ReplyMatchesRow'
  BY DEF IInv, ReplyMatchesRow, Becomes, Tidy
<1>6. Lasting
  BY DEF Lasting, Tidy, Becomes
<1>. QED  BY <1>6, <1>1, <1>2, <1>3, <1>4, <1>5 DEF IInv

-----------------------------------------------------------------------------
(* The steps of CreateOrder *)

LEMMA PostOrderStep ==
  ASSUME IInv, NEW r \in Creates, NEW k \in Keys, NEW a \in Amounts, PostOrder(r, k, a)
  PROVE  IInv' /\ Lasting
<1>. DEFINE c == [create[r] EXCEPT !.pc = "lookup", !.key = k, !.amount = a]
<1>1. create \in [Creates -> CreateState] /\ create[r] \in CreateState
  BY DEF IInv, TypeOK
<1>2. create' = [create EXCEPT ![r] = c]
  BY <1>1 DEF PostOrder
<1>3. c \in CreateState
  BY <1>1 DEF CreateState
<1>4. /\ c.pc = "lookup" /\ c.amount = a /\ c.outcome = create[r].outcome
      /\ c.code = create[r].code /\ c.order = create[r].order /\ c.status = create[r].status
  BY <1>1 DEF CreateState
<1>. HIDE DEF c
<1>5. create' \in [Creates -> CreateState] /\ create'[r] = c
  BY <1>1, <1>2, <1>3
<1>6. \A q \in Creates : q # r => create'[q] = create[q]
  BY <1>1, <1>2
<1>7. create[r].pc = "idle" /\ orders[r] = "Absent" /\ UNCHANGED <<orders, cache, cancel, read, rpc, faults>>
  BY DEF PostOrder, CreateAt, IInv, RowsFollowRequests, OwnRow
<1>8. \A q \in Creates : \A j : Holds(q, j)' <=> Holds(q, j)
  BY <1>6, <1>7 DEF Holds
<1>9. TypeOK'
  BY <1>5, <1>7 DEF IInv, TypeOK
<1>10. RowsFollowRequests'
  BY <1>4, <1>5, <1>6, <1>7 DEF IInv, RowsFollowRequests, OwnRow
<1>11. OneRowPerKey' /\ OthersHold'
  BY <1>6, <1>7 DEF IInv, OneRowPerKey, OthersHold, Holds
<1>12. create[r].code = None /\ create[r].status = None
  BY <1>7 DEF IInv, RepliesHold, None
<1>13. RepliesHold'
  BY <1>4, <1>5, <1>6, <1>8, <1>12 DEF IInv, RepliesHold, None
<1>14. PaidIsBacked'
  BY <1>4, <1>5, <1>6, <1>7, <1>12 DEF IInv, PaidIsBacked, None
<1>15. ReplyMatchesRow'
  BY <1>4, <1>5, <1>6, <1>7, <1>12 DEF IInv, ReplyMatchesRow, None
<1>16. Lasting
  BY <1>6, <1>7 DEF Lasting
<1>. QED  BY <1>16, <1>9, <1>10, <1>11, <1>13, <1>14, <1>15 DEF IInv

LEMMA LookupHitStep ==
  ASSUME IInv, NEW r \in Creates, NEW o \in Creates, LookupHit(r, o)
  PROVE  IInv' /\ Lasting
<1>1. Tidy(r)
  BY DEF LookupHit, Tidy, IInv, TypeOK, PaidIsBacked
<1>2. orders[o] \in Status
  BY DEF LookupHit, Holds, IInv, TypeOK
<1>3. Becomes(r, "done", create[r].outcome, "created", o, orders[o])
  BY <1>2, AfterRespond DEF LookupHit, IInv
<1>4. orders[r] = "Absent" /\ o # r
  BY DEF LookupHit, CreateAt, Holds, IInv, RowsFollowRequests, OwnRow
<1>5. OwnRow(r)'
  BY <1>3 DEF LookupHit, CreateAt, Becomes, IInv, RowsFollowRequests, OwnRow
<1>. QED
  BY <1>1, <1>3, <1>4, <1>5, AnsweringStep DEF LookupHit, IInv, PaidIsBacked

LEMMA LookupMissStep ==
  ASSUME IInv, NEW r \in Creates, LookupMiss(r)
  PROVE  IInv' /\ Lasting
<1>1. Tidy(r)
  BY DEF LookupMiss, Tidy, IInv, TypeOK, PaidIsBacked
<1>2. Becomes(r, "insert", create[r].outcome, create[r].code, create[r].order, create[r].status)
  BY AfterGoto DEF LookupMiss, IInv, CreatePC
<1>3. OwnRow(r)'
  BY <1>2 DEF LookupMiss, CreateAt, Becomes, IInv, RowsFollowRequests, OwnRow
<1>. QED  BY <1>1, <1>2, <1>3, SilentStep DEF LookupMiss, CreateAt, CreatePC

LEMMA InsertStep ==
  ASSUME IInv, NEW r \in Creates, Insert(r)
  PROVE  IInv' /\ Lasting
<1>1. /\ create[r].pc = "insert" /\ orders[r] = "Absent" /\ rpc[r] = "idle"
      /\ create[r].outcome = None /\ create[r].amount \in Amounts
  BY DEF Insert, CreateAt, IInv, RowsFollowRequests, OwnRow
<1>2. orders \in [Creates -> Status \cup {"Absent"}] /\ orders' = [orders EXCEPT ![r] = "Pending"]
  BY DEF Insert, IInv, TypeOK
<1>3. Tidy(r)
  BY <1>1, <1>2 DEF Insert, Tidy, IInv, TypeOK, Status
<1>4. CASE CreateGoto(r, "notify")
  <2>1. Becomes(r, "notify", create[r].outcome, create[r].code, create[r].order, create[r].status)
    BY <1>4, AfterGoto DEF IInv, CreatePC
  <2>2. OwnRow(r)'
    BY <1>1, <1>2, <2>1 DEF Insert, Becomes, OwnRow
  <2>. QED  BY <1>1, <1>3, <2>1, <2>2, SilentStep DEF Insert, CreatePC
<1>5. CASE "db" \in faults /\ Respond(r, "error", None, None)
  <2>1. Becomes(r, "done", create[r].outcome, "error", None, None)
    BY <1>5, AfterRespond DEF IInv
  <2>2. OwnRow(r)'
    BY <1>1, <1>2, <2>1 DEF Insert, Becomes, OwnRow
  <2>. QED  BY <1>1, <1>3, <2>1, <2>2, AnsweringStep DEF Insert
<1>. QED  BY <1>4, <1>5 DEF Insert

LEMMA InsertFailsStep ==
  ASSUME IInv, NEW r \in Creates, InsertFails(r)
  PROVE  IInv' /\ Lasting
<1>1. Tidy(r)
  BY DEF InsertFails, Tidy, IInv, TypeOK, PaidIsBacked
<1>2. Becomes(r, "done", create[r].outcome, "error", None, None)
  BY AfterRespond DEF InsertFails, IInv
<1>3. OwnRow(r)'
  BY <1>2 DEF InsertFails, CreateAt, Becomes, IInv, RowsFollowRequests, OwnRow
<1>. QED  BY <1>1, <1>2, <1>3, AnsweringStep DEF InsertFails

LEMMA NotifyPendingStep ==
  ASSUME IInv, NEW r \in Creates, NotifyPending(r)
  PROVE  IInv' /\ Lasting
<1>1. Tidy(r)
  BY DEF NotifyPending, Tidy, IInv, TypeOK, PaidIsBacked
<1>2. Becomes(r, "authorize", create[r].outcome, create[r].code, create[r].order, create[r].status)
  BY AfterGoto DEF NotifyPending, IInv, CreatePC
<1>3. OwnRow(r)'
  BY <1>2 DEF NotifyPending, CreateAt, Becomes, IInv, RowsFollowRequests, OwnRow
<1>. QED  BY <1>1, <1>2, <1>3, SilentStep DEF NotifyPending, CreateAt, CreatePC

LEMMA AuthorizeStep ==
  ASSUME IInv, NEW r \in Creates, Authorize(r)
  PROVE  IInv' /\ Lasting
<1>1. create[r].pc = "authorize" /\ rpc[r] = "idle" /\ orders[r] \in {"Pending", "Cancelled"}
  BY DEF Authorize, CreateAt, IInv, RowsFollowRequests, OwnRow
<1>2. rpc' \in [Creates -> Answer \cup {"idle", "sent"}] /\ rpc'[r] = "sent"
  BY DEF Authorize, IInv, TypeOK
<1>3. Tidy(r)
  BY <1>1, <1>2 DEF Authorize, Tidy, IInv, TypeOK
<1>4. Becomes(r, "await", create[r].outcome, create[r].code, create[r].order, create[r].status)
  BY AfterGoto DEF Authorize, IInv, CreatePC
<1>5. OwnRow(r)'
  BY <1>1, <1>2, <1>4 DEF Authorize, Becomes, IInv, RowsFollowRequests, OwnRow
<1>. QED  BY <1>1, <1>3, <1>4, <1>5, SilentStep DEF Authorize, CreatePC

LEMMA ResumeStep ==
  ASSUME IInv, NEW r \in Creates, Resume(r)
  PROVE  IInv' /\ Lasting
<1>1. Tidy(r)
  BY DEF Resume, Tidy, IInv, TypeOK, PaidIsBacked
<1>2. Becomes(r, "settle", OutcomeOf(rpc[r]), create[r].code, create[r].order, create[r].status)
  BY AfterResume DEF IInv
<1>3. OutcomeOf(rpc[r]) # None
  BY DEF OutcomeOf, None
<1>4. OwnRow(r)'
  BY <1>2, <1>3 DEF Resume, CreateAt, Becomes, IInv, RowsFollowRequests, OwnRow
<1>. QED  BY <1>1, <1>2, <1>4, SilentStep DEF Resume, CreateAt, CreatePC

(* What is written is Paid only for an authorized payment. *)
LEMMA SettledRow ==
  ASSUME IInv, NEW r \in Creates, CreateAt(r, "settle")
  PROVE  /\ Settled(r) \in [Creates -> Status \cup {"Absent"}]
         /\ \A q \in Creates : q # r => Settled(r)[q] = orders[q]
         /\ Settled(r)[r] = IF create[r].outcome = "Unavailable" THEN "Failed" ELSE create[r].outcome
         /\ Settled(r)[r] \in {"Paid", "Failed"}
         /\ create[r].outcome \in {"Paid", "Failed", "Unavailable"}
         /\ create[r].outcome = "Paid" => rpc[r] = "Authorized"
<1>1. create[r].outcome = OutcomeOf(rpc[r]) /\ orders \in [Creates -> Status \cup {"Absent"}]
  BY DEF IInv, RowsFollowRequests, OwnRow, CreateAt, TypeOK
<1>2. create[r].outcome \in {"Paid", "Failed", "Unavailable"}
  BY <1>1 DEF OutcomeOf
<1>3. create[r].outcome = "Paid" => rpc[r] = "Authorized"
  BY <1>1 DEF OutcomeOf
<1>. QED  BY <1>1, <1>2, <1>3 DEF Settled, Status

LEMMA SettleStep ==
  ASSUME IInv, NEW r \in Creates, Settle(r)
  PROVE  IInv' /\ Lasting
<1>1. /\ create[r].pc = "settle" /\ orders[r] \in {"Pending", "Cancelled"}
      /\ create[r].outcome # None /\ rpc[r] \in Answer /\ create[r].outcome = OutcomeOf(rpc[r])
      /\ rpc[r] # "idle" /\ create[r].amount \in Amounts
  BY DEF Settle, CreateAt, IInv, RowsFollowRequests, OwnRow, Answer
<1>2. orders' = orders \/ orders' = Settled(r)
  BY DEF Settle
<1>3. /\ orders' \in [Creates -> Status \cup {"Absent"}]
      /\ \A q \in Creates : q # r => orders'[q] = orders[q]
      /\ orders'[r] \in {orders[r], "Paid", "Failed"}
      /\ orders'[r] = "Paid" => rpc[r] = "Authorized"
  BY <1>1, <1>2, SettledRow DEF Settle, IInv, TypeOK
<1>4. Tidy(r)
  BY <1>1, <1>3 DEF Settle, Tidy, IInv, TypeOK
<1>5. CASE orders' = Settled(r) /\ CreateGoto(r, "evict")
  <2>1. Becomes(r, "evict", create[r].outcome, create[r].code, create[r].order, create[r].status)
    BY <1>5, AfterGoto DEF IInv, CreatePC
  <2>2. orders'[r] = IF create[r].outcome = "Unavailable" THEN "Failed" ELSE create[r].outcome
    BY <1>5, SettledRow DEF Settle
  <2>3. OwnRow(r)'
    BY <1>1, <1>3, <2>1, <2>2 DEF Settle, Becomes, OwnRow
  <2>. QED  BY <1>1, <1>4, <2>1, <2>3, SilentStep DEF Settle, CreatePC
<1>6. CASE "db" \in faults /\ AfterSettle(r)
  <2>1. CASE create[r].outcome = "Unavailable"
    <3>1. Becomes(r, "done", create[r].outcome, "unavailable", None, None)
      BY <1>6, <2>1, AfterRespond DEF IInv, AfterSettle
    <3>2. OwnRow(r)'
      BY <1>1, <1>3, <3>1 DEF Settle, Becomes, OwnRow
    <3>. QED  BY <1>4, <3>1, <3>2, AnsweringStep DEF Settle
  <2>2. CASE create[r].outcome # "Unavailable"
    <3>1. Becomes(r, "announce", create[r].outcome, create[r].code, create[r].order, create[r].status)
      BY <1>6, <2>2, AfterGoto DEF IInv, AfterSettle, CreatePC
    <3>2. OwnRow(r)'
      BY <1>1, <1>3, <1>6, <2>2, <3>1 DEF Settle, Becomes, OwnRow
    <3>. QED  BY <1>1, <1>4, <3>1, <3>2, SilentStep DEF Settle, CreatePC
  <2>. QED  BY <2>1, <2>2
<1>. QED  BY <1>5, <1>6 DEF Settle

LEMMA CreateEvictStep ==
  ASSUME IInv, NEW r \in Creates, CreateEvict(r)
  PROVE  IInv' /\ Lasting
<1>1. create[r].pc = "evict" /\ orders[r] # "Absent" /\ (cache' = cache \/ cache' = [cache EXCEPT ![r] = "Absent"])
  BY DEF CreateEvict, CreateAt, Evict, IInv, RowsFollowRequests, OwnRow
<1>2. Tidy(r)
  BY DEF CreateEvict, Tidy, IInv, TypeOK, PaidIsBacked
<1>3. CASE create[r].outcome = "Unavailable"
  <2>1. Becomes(r, "done", create[r].outcome, "unavailable", None, None)
    BY <1>3, AfterRespond DEF CreateEvict, IInv, AfterSettle
  <2>2. OwnRow(r)'
    BY <1>1, <2>1 DEF CreateEvict, Becomes, IInv, RowsFollowRequests, OwnRow
  <2>. QED  BY <1>1, <1>2, <2>1, <2>2, AnsweringStep
<1>4. CASE create[r].outcome # "Unavailable"
  <2>1. Becomes(r, "announce", create[r].outcome, create[r].code, create[r].order, create[r].status)
    BY <1>4, AfterGoto DEF CreateEvict, IInv, AfterSettle, CreatePC
  <2>2. OwnRow(r)'
    BY <1>1, <1>4, <2>1 DEF CreateEvict, Becomes, IInv, RowsFollowRequests, OwnRow
  <2>. QED  BY <1>1, <1>2, <2>1, <2>2, SilentStep DEF CreatePC
<1>. QED  BY <1>3, <1>4

LEMMA AnnounceStep ==
  ASSUME IInv, NEW r \in Creates, Announce(r)
  PROVE  IInv' /\ Lasting
<1>1. /\ create[r].pc = "announce" /\ orders[r] # "Absent" /\ create[r].outcome # "Unavailable"
      /\ create[r].outcome = OutcomeOf(rpc[r])
  BY DEF Announce, CreateAt, IInv, RowsFollowRequests, OwnRow
<1>2. /\ create[r].outcome \in {"Paid", "Failed"}
      /\ create[r].outcome = "Paid" => rpc[r] = "Authorized"
  BY <1>1 DEF OutcomeOf
<1>3. faults \cap {"db", "crash"} = {} => orders[r] \in {create[r].outcome, "Cancelled"}
  BY <1>1 DEF IInv, RowsFollowRequests, OwnRow
<1>4. Tidy(r)
  BY DEF Announce, Tidy, IInv, TypeOK, PaidIsBacked
<1>5. Becomes(r, "done", create[r].outcome, "created", r, create[r].outcome)
  BY <1>2, AfterRespond DEF Announce, IInv, Status
<1>6. OwnRow(r)'
  BY <1>1, <1>5 DEF Announce, Becomes, IInv, RowsFollowRequests, OwnRow
<1>7. Holds(r, create[r].key)
  BY <1>1 DEF Holds
<1>. QED  BY <1>2, <1>3, <1>4, <1>5, <1>6, <1>7, AnsweringStep DEF Announce

-----------------------------------------------------------------------------
(* The steps of everybody else *)

(* The create requests stay where they are, rows are at most cancelled,    *)
(* RPCs at most answered.                                                  *)
Bystanding ==
  /\ UNCHANGED <<create, faults>>
  /\ \A q \in Creates :
       /\ orders'[q] = orders[q] \/ (orders[q] # "Absent" /\ orders'[q] = "Cancelled")
       /\ rpc'[q] = rpc[q] \/ (rpc[q] = "sent" /\ rpc'[q] \in Answer)

LEMMA BystandingStep ==
  ASSUME IInv, Bystanding, TypeOK', OthersHold',
         \A q \in Creates : cache'[q] = "Paid" => rpc[q] = "Authorized",
         \A g \in Reads : read'[g].seen = "Paid" =>
                            read'[g].order \in Creates /\ rpc[read'[g].order] = "Authorized"
  PROVE  IInv' /\ Lasting
<1>1. RowsFollowRequests'
  BY DEF IInv, RowsFollowRequests, OwnRow, Bystanding, Answer
<1>2. \A q \in Creates : \A k : Holds(q, k)' <=> Holds(q, k)
  BY DEF Holds, Bystanding
<1>3. OneRowPerKey' /\ RepliesHold'
  BY <1>2 DEF IInv, OneRowPerKey, RepliesHold, Bystanding
<1>4. \A q \in Creates : rpc[q] = "Authorized" => rpc'[q] = "Authorized"
  BY DEF Bystanding
<1>5. PaidIsBacked'
  <2>1. \A q \in Creates : "Paid" \in {orders'[q], cache'[q]} => rpc'[q] = "Authorized"
    BY <1>4 DEF IInv, PaidIsBacked, Bystanding
  <2>2. \A q \in Creates : create'[q].status = "Paid" => rpc'[create'[q].order] = "Authorized"
    BY <1>4 DEF IInv, PaidIsBacked, RepliesHold, Bystanding, None
  <2>3. \A g \in Reads : read'[g].seen = "Paid" => rpc'[read'[g].order] = "Authorized"
    BY <1>4
  <2>. QED  BY <2>1, <2>2, <2>3 DEF PaidIsBacked
<1>6. ReplyMatchesRow'
  BY DEF IInv, ReplyMatchesRow, Bystanding
<1>7. Lasting
  BY DEF Lasting, Bystanding, Answer
<1>. QED  BY <1>7, <1>1, <1>3, <1>5, <1>6 DEF IInv

(* What is read or cached as Paid stays backed when nothing is read. *)
LEMMA NothingRead ==
  ASSUME IInv
  PROVE  /\ \A q \in Creates : cache[q] = "Paid" => rpc[q] = "Authorized"
         /\ \A g \in Reads : read[g].seen = "Paid" =>
              read[g].order \in Creates /\ rpc[read[g].order] = "Authorized"
BY DEF IInv, PaidIsBacked, OthersHold, None

LEMMA RpcEndsStep ==
  ASSUME IInv, NEW o \in Creates, NEW answer \in Answer, RpcEnds(o, answer)
  PROVE  IInv' /\ Lasting
<1>1. Bystanding
  BY DEF RpcEnds, Bystanding, IInv, TypeOK
<1>2. TypeOK'
  BY DEF RpcEnds, IInv, TypeOK
<1>3. OthersHold'
  BY DEF RpcEnds, IInv, OthersHold
<1>. QED  BY <1>1, <1>2, <1>3, NothingRead, BystandingStep DEF RpcEnds

LEMMA CacheExpiresStep ==
  ASSUME IInv, NEW o \in Creates, CacheExpires(o)
  PROVE  IInv' /\ Lasting
<1>1. Bystanding
  BY DEF CacheExpires, Bystanding
<1>2. TypeOK'
  BY DEF CacheExpires, IInv, TypeOK
<1>3. OthersHold'
  BY DEF CacheExpires, IInv, OthersHold
<1>4. \A q \in Creates : cache'[q] = "Paid" => rpc[q] = "Authorized"
  BY NothingRead DEF CacheExpires, IInv, TypeOK
<1>. QED  BY <1>1, <1>2, <1>3, <1>4, NothingRead, BystandingStep DEF CacheExpires

(* A cancellation goes on, with the order it has. *)
CancelBecomes(x, pc) ==
  /\ cancel' \in [Cancels -> CancelState]
  /\ \A y \in Cancels : y # x => cancel'[y] = cancel[y]
  /\ cancel'[x].pc = pc
  /\ cancel'[x].order = cancel[x].order

LEMMA AfterCancelGoto ==
  ASSUME TypeOK, NEW x \in Cancels, NEW to \in {"write", "evict", "announce"}, CancelGoto(x, to)
  PROVE  CancelBecomes(x, to)
<1>1. cancel \in [Cancels -> CancelState] /\ cancel[x] \in CancelState
  BY DEF TypeOK
<1>2. cancel' = [cancel EXCEPT ![x] = [cancel[x] EXCEPT !.pc = to]]
  BY <1>1 DEF CancelGoto
<1>3. [cancel[x] EXCEPT !.pc = to] \in CancelState
  BY <1>1 DEF CancelState
<1>. QED  BY <1>1, <1>2, <1>3 DEF CancelBecomes, CancelState

LEMMA AfterCancelRespond ==
  ASSUME TypeOK, NEW x \in Cancels,
         NEW code \in {"not found", "paid", "invalid", "error", "cancelled"}, CancelRespond(x, code)
  PROVE  CancelBecomes(x, "done")
<1>. DEFINE c == [cancel[x] EXCEPT !.pc = "done", !.code = code]
<1>1. cancel \in [Cancels -> CancelState] /\ cancel[x] \in CancelState
  BY DEF TypeOK
<1>2. cancel' = [cancel EXCEPT ![x] = c]
  BY <1>1 DEF CancelRespond
<1>3. c \in CancelState /\ c.pc = "done" /\ c.order = cancel[x].order
  BY <1>1 DEF CancelState
<1>. HIDE DEF c
<1>. QED  BY <1>1, <1>2, <1>3 DEF CancelBecomes

LEMMA PatchCancelStep ==
  ASSUME IInv, NEW x \in Cancels, NEW o \in Creates, PatchCancel(x, o)
  PROVE  IInv' /\ Lasting
<1>. DEFINE c == [cancel[x] EXCEPT !.pc = "load", !.order = o]
<1>1. cancel \in [Cancels -> CancelState] /\ cancel[x] \in CancelState
  BY DEF IInv, TypeOK
<1>2. cancel' = [cancel EXCEPT ![x] = c]
  BY <1>1 DEF PatchCancel
<1>3. c \in CancelState /\ c.pc = "load" /\ c.order = o
  BY <1>1 DEF CancelState
<1>. HIDE DEF c
<1>4. /\ cancel' \in [Cancels -> CancelState] /\ cancel'[x].pc = "load" /\ cancel'[x].order = o
      /\ \A y \in Cancels : y # x => cancel'[y] = cancel[y]
  BY <1>1, <1>2, <1>3
<1>5. Bystanding
  BY DEF PatchCancel, Bystanding
<1>6. TypeOK'
  BY <1>4 DEF PatchCancel, IInv, TypeOK
<1>7. OthersHold'
  BY <1>4 DEF PatchCancel, IInv, OthersHold
<1>. QED  BY <1>5, <1>6, <1>7, NothingRead, BystandingStep DEF PatchCancel

LEMMA CancelSteps ==
  ASSUME IInv, NEW x \in Cancels, CancelStep(x)
  PROVE  IInv' /\ Lasting
<1>. DEFINE o == cancel[x].order
<1>1. PICK pc \in {"write", "evict", "announce", "done"} : CancelBecomes(x, pc)
  BY AfterCancelGoto, AfterCancelRespond
  DEF IInv, CancelStep, CancelLoadFails, CancelLoad, CancelWrite, CancelEvict, CancelAnnounce
<1>2. cancel[x].pc # "idle" /\ o \in Creates /\ (orders[o] # "Absent" \/ cancel'[x].pc = "done")
  <2>1. cancel[x].pc # "idle"
    BY DEF CancelStep, CancelAt, CancelLoadFails, CancelLoad, CancelWrite, CancelEvict, CancelAnnounce
  <2>2. o \in Creates
    BY <2>1 DEF IInv, OthersHold
  <2>3. CASE CancelLoadFails(x)
    BY <2>1, <2>2, <2>3, AfterCancelRespond DEF CancelLoadFails, CancelBecomes, IInv
  <2>4. CASE CancelLoad(x)
    BY <2>1, <2>2, <2>4 DEF CancelLoad, Status
  <2>5. CASE CancelWrite(x) \/ CancelEvict(x) \/ CancelAnnounce(x)
    BY <2>1, <2>2, <2>5 DEF CancelWrite, CancelEvict, CancelAnnounce, CancelAt, IInv, OthersHold
  <2>. QED  BY <2>1, <2>2, <2>3, <2>4, <2>5 DEF CancelStep
<1>3. /\ orders' = orders \/ (orders[o] # "Absent" /\ orders' = [orders EXCEPT ![o] = "Cancelled"])
      /\ cache' = cache \/ cache' = [cache EXCEPT ![o] = "Absent"]
      /\ UNCHANGED <<create, read, rpc, faults>>
  BY DEF IInv, OthersHold, CancelStep, CancelAt, CancelLoadFails, CancelLoad, CancelWrite, CancelEvict,
         CancelAnnounce, Evict
<1>4. Bystanding
  BY <1>2, <1>3 DEF IInv, TypeOK, Bystanding
<1>5. TypeOK'
  BY <1>1, <1>2, <1>3 DEF IInv, TypeOK, CancelBecomes, Status
<1>6. OthersHold'
  BY <1>1, <1>2, <1>3 DEF IInv, OthersHold, CancelBecomes, TypeOK
<1>7. \A q \in Creates : cache'[q] = "Paid" => rpc[q] = "Authorized"
  BY <1>2, <1>3, NothingRead DEF IInv, TypeOK
<1>. QED  BY <1>3, <1>4, <1>5, <1>6, <1>7, NothingRead, BystandingStep

(* A read goes on, with the order it has. *)
ReadBecomes(g, pc, seen) ==
  /\ read' \in [Reads -> ReadState]
  /\ \A h \in Reads : h # g => read'[h] = read[h]
  /\ read'[g].pc = pc
  /\ read'[g].order = read[g].order
  /\ read'[g].seen = seen

LEMMA AfterReadGoto ==
  ASSUME TypeOK, NEW g \in Reads, NEW to \in {"db", "done"}, ReadGoto(g, to)
  PROVE  ReadBecomes(g, to, read[g].seen)
<1>1. read \in [Reads -> ReadState] /\ read[g] \in ReadState
  BY DEF TypeOK
<1>2. read' = [read EXCEPT ![g] = [read[g] EXCEPT !.pc = to]]
  BY <1>1 DEF ReadGoto
<1>3. [read[g] EXCEPT !.pc = to] \in ReadState
  BY <1>1 DEF ReadState
<1>. QED  BY <1>1, <1>2, <1>3 DEF ReadBecomes, ReadState

LEMMA AfterFill ==
  ASSUME IInv, NEW g \in Reads, FillCache(g)
  PROVE  \E pc \in {"fill", "done"} : ReadBecomes(g, pc, read[g].seen)
<1>1. CASE ReadGoto(g, "done")
  BY <1>1, AfterReadGoto DEF IInv
<1>2. CASE UNCHANGED read
  BY <1>2 DEF FillCache, ReadAt, ReadBecomes, IInv, TypeOK
<1>. QED  BY <1>1, <1>2 DEF FillCache

LEMMA AfterReadReturn ==
  ASSUME TypeOK, NEW g \in Reads, NEW pc \in {"fill", "done"}, NEW s \in Status \cup {"not found"},
         read' = [read EXCEPT ![g].pc = pc, ![g].seen = s]
  PROVE  ReadBecomes(g, pc, s)
<1>. DEFINE c == [read[g] EXCEPT !.pc = pc, !.seen = s]
<1>1. read \in [Reads -> ReadState] /\ read[g] \in ReadState
  BY DEF TypeOK
<1>2. read' = [read EXCEPT ![g] = c]
  BY <1>1
<1>3. c \in ReadState /\ c.pc = pc /\ c.order = read[g].order /\ c.seen = s
  BY <1>1 DEF ReadState
<1>. HIDE DEF c
<1>. QED  BY <1>1, <1>2, <1>3 DEF ReadBecomes

LEMMA StartReadStep ==
  ASSUME IInv, NEW g \in Reads, NEW o \in Creates, StartRead(g, o)
  PROVE  IInv' /\ Lasting
<1>. DEFINE c == [read[g] EXCEPT !.pc = "cache", !.order = o]
<1>1. read \in [Reads -> ReadState] /\ read[g] \in ReadState
  BY DEF IInv, TypeOK
<1>2. read' = [read EXCEPT ![g] = c]
  BY <1>1 DEF StartRead
<1>3. c \in ReadState /\ c.pc = "cache" /\ c.order = o /\ c.seen = read[g].seen
  BY <1>1 DEF ReadState
<1>. HIDE DEF c
<1>4. /\ read' \in [Reads -> ReadState]
      /\ read'[g].pc = "cache" /\ read'[g].order = o /\ read'[g].seen = read[g].seen
      /\ \A h \in Reads : h # g => read'[h] = read[h]
  BY <1>1, <1>2, <1>3
<1>5. read[g].seen = None
  BY DEF StartRead, ReadAt, IInv, OthersHold
<1>6. Bystanding
  BY DEF StartRead, Bystanding
<1>7. TypeOK'
  BY <1>4 DEF StartRead, IInv, TypeOK
<1>8. OthersHold'
  BY <1>4 DEF StartRead, IInv, OthersHold
<1>9. \A h \in Reads : read'[h].seen = "Paid" =>
        read'[h].order \in Creates /\ rpc[read'[h].order] = "Authorized"
  BY <1>4, <1>5, NothingRead DEF None
<1>. QED  BY <1>6, <1>7, <1>8, <1>9, NothingRead, BystandingStep DEF StartRead

LEMMA ReadSteps ==
  ASSUME IInv, NEW g \in Reads, ReadStep(g)
  PROVE  IInv' /\ Lasting
<1>. DEFINE o == read[g].order
<1>1. read[g].pc # "idle"
  BY DEF ReadStep, ReadAt, CacheHit, CacheMiss, LoadRow, LoadFails, FillCache
<1>2. o \in Creates
  BY <1>1 DEF IInv, OthersHold
<1>3. UNCHANGED <<orders, create, cancel, rpc, faults>>
  BY DEF ReadStep, CacheHit, CacheMiss, LoadRow, LoadFails, FillCache
<1>4. PICK pc \in {"db", "fill", "done"}, seen \in Status \cup {"not found", None} :
        /\ ReadBecomes(g, pc, seen)
        /\ pc = "fill" => seen \in Status
        /\ seen \in {read[g].seen, cache[o], orders[o], "not found"}
  <2>1. CASE CacheHit(g)
    BY <2>1, AfterReadReturn DEF CacheHit, ReadReturn, IInv
  <2>2. CASE CacheMiss(g)
    BY <2>2, AfterReadGoto DEF CacheMiss, IInv, TypeOK, ReadState
  <2>3. CASE LoadRow(g)
    BY <2>3, AfterReadReturn DEF LoadRow, IInv
  <2>4. CASE LoadFails(g)
    BY <2>4, AfterReadReturn DEF LoadFails, ReadReturn, IInv
  <2>5. CASE FillCache(g)
    <3>1. read[g].seen \in Status
      BY <2>5 DEF FillCache, ReadAt, IInv, OthersHold
    <3>. QED  BY <2>5, <3>1, AfterFill
  <2>. QED  BY <2>1, <2>2, <2>3, <2>4, <2>5 DEF ReadStep
<1>5. cache' = cache \/ (read[g].seen \in Status /\ cache' = [cache EXCEPT ![o] = read[g].seen])
  BY DEF ReadStep, ReadAt, CacheHit, CacheMiss, LoadRow, LoadFails, FillCache, IInv, OthersHold
<1>6. Bystanding
  BY <1>3 DEF Bystanding
<1>7. TypeOK'
  BY <1>2, <1>3, <1>4, <1>5 DEF IInv, TypeOK, ReadBecomes
<1>8. OthersHold'
  BY <1>1, <1>2, <1>3, <1>4 DEF IInv, OthersHold, ReadBecomes
<1>9. \A q \in Creates : cache'[q] = "Paid" => rpc[q] = "Authorized"
  <2>1. /\ \A q \in Creates : cache[q] = "Paid" => rpc[q] = "Authorized"
        /\ read[g].seen = "Paid" => rpc[o] = "Authorized"
    BY NothingRead
  <2>2. cache \in [Creates -> Status \cup {"Absent"}]
    BY DEF IInv, TypeOK
  <2>. QED  BY <1>2, <1>5, <2>1, <2>2
<1>10. \A h \in Reads : read'[h].seen = "Paid" =>
         read'[h].order \in Creates /\ rpc[read'[h].order] = "Authorized"
  <2>1. read'[g].seen = "Paid" => rpc[o] = "Authorized"
    BY <1>2, <1>4, NothingRead DEF ReadBecomes, IInv, PaidIsBacked
  <2>. QED  BY <1>2, <1>4, <2>1, NothingRead DEF ReadBecomes
<1>. QED  BY <1>3, <1>6, <1>7, <1>8, <1>9, <1>10, BystandingStep

(* A crash ends the requests in progress and changes nothing else. *)
LEMMA CrashStep ==
  ASSUME IInv, Crash
  PROVE  IInv' /\ Lasting
<1>1. ASSUME NEW r \in Creates
      PROVE  /\ create'[r] \in CreateState
             /\ create'[r].pc \in {create[r].pc, "dead"}
             /\ create'[r].pc = "dead" => create[r].pc \notin {"idle", "done"}
             /\ create'[r].key = create[r].key /\ create'[r].amount = create[r].amount
             /\ create'[r].outcome = create[r].outcome
             /\ create'[r].code = create[r].code /\ create'[r].order = create[r].order
             /\ create'[r].status = create[r].status
             /\ create[r].pc = "done" => create'[r].pc = "done"
  <2>1. create[r] \in CreateState
    BY DEF IInv, TypeOK
  <2>2. create'[r] = create[r] \/ (create[r].pc \notin {"idle", "done"} /\ create'[r] = [create[r] EXCEPT !.pc = "dead"])
    BY DEF Crash, Killed, Over
  <2>. QED  BY <2>1, <2>2 DEF CreateState
<1>2. ASSUME NEW x \in Cancels
      PROVE  /\ cancel'[x] \in CancelState /\ cancel'[x].order = cancel[x].order
             /\ cancel'[x].pc = cancel[x].pc \/ (cancel[x].pc # "idle" /\ cancel'[x].pc = "dead")
  <2>1. cancel[x] \in CancelState
    BY DEF IInv, TypeOK
  <2>2. cancel'[x] = cancel[x] \/ (cancel[x].pc # "idle" /\ cancel'[x] = [cancel[x] EXCEPT !.pc = "dead"])
    BY DEF Crash, Killed, Over
  <2>. QED  BY <2>1, <2>2 DEF CancelState
<1>3. ASSUME NEW g \in Reads
      PROVE  /\ read'[g] \in ReadState /\ read'[g].order = read[g].order /\ read'[g].seen = read[g].seen
             /\ read'[g].pc = read[g].pc \/ (read[g].pc # "idle" /\ read'[g].pc = "dead")
  <2>1. read[g] \in ReadState
    BY DEF IInv, TypeOK
  <2>2. read'[g] = read[g] \/ (read[g].pc # "idle" /\ read'[g] = [read[g] EXCEPT !.pc = "dead"])
    BY DEF Crash, Killed, Over
  <2>. QED  BY <2>1, <2>2 DEF ReadState
<1>4. TypeOK'
  <2>1. create' \in [Creates -> CreateState]
    BY <1>1 DEF Crash
  <2>2. cancel' \in [Cancels -> CancelState]
    BY <1>2 DEF Crash
  <2>3. read' \in [Reads -> ReadState]
    BY <1>3 DEF Crash
  <2>. QED  BY <2>1, <2>2, <2>3 DEF Crash, IInv, TypeOK
<1>5. RowsFollowRequests'
  BY <1>1 DEF Crash, IInv, RowsFollowRequests, OwnRow
<1>6. \A q \in Creates : \A k : Holds(q, k)' <=> Holds(q, k)
  BY <1>1 DEF Holds, Crash
<1>7. OneRowPerKey' /\ RepliesHold'
  BY <1>1, <1>6 DEF IInv, OneRowPerKey, RepliesHold
<1>8. OthersHold'
  BY <1>2, <1>3 DEF Crash, IInv, OthersHold
<1>9. PaidIsBacked' /\ ReplyMatchesRow'
  BY <1>1, <1>3 DEF Crash, IInv, PaidIsBacked, ReplyMatchesRow
<1>10. Lasting
  <2>1. UNCHANGED <<orders, rpc>>
    BY DEF Crash
  <2>. QED  BY <1>1, <2>1 DEF Lasting
<1>. QED  BY <1>10, <1>4, <1>5, <1>7, <1>8, <1>9 DEF IInv

LEMMA StutterStep == IInv /\ UNCHANGED vars => IInv' /\ Lasting
<1>. SUFFICES ASSUME IInv, UNCHANGED vars PROVE IInv' /\ Lasting
  OBVIOUS
<1>1. TypeOK' /\ OthersHold' /\ Bystanding
  BY DEF IInv, TypeOK, OthersHold, Bystanding, vars
<1>. QED  BY <1>1, NothingRead, BystandingStep DEF vars

LEMMA CreateSteps ==
  ASSUME IInv, NEW r \in Creates, CreateStep(r)
  PROVE  IInv' /\ Lasting
BY LookupHitStep, LookupMissStep, InsertStep, InsertFailsStep, NotifyPendingStep, AuthorizeStep,
   ResumeStep, SettleStep, CreateEvictStep, AnnounceStep
DEF CreateStep

-----------------------------------------------------------------------------
(* The theorems *)

LEMMA InductiveStep == IInv /\ [Next]_vars => IInv' /\ Lasting
<1>. SUFFICES ASSUME IInv, [Next]_vars PROVE IInv' /\ Lasting
  OBVIOUS
<1>1. CASE \E r \in Creates, k \in Keys, a \in Amounts : PostOrder(r, k, a)
  BY <1>1, PostOrderStep
<1>2. CASE \E r \in Creates : CreateStep(r)
  BY <1>2, CreateSteps
<1>3. CASE \E o \in Creates, answer \in Answer : RpcEnds(o, answer)
  BY <1>3, RpcEndsStep
<1>4. CASE \E x \in Cancels, o \in Creates : PatchCancel(x, o)
  BY <1>4, PatchCancelStep
<1>5. CASE \E x \in Cancels : CancelStep(x)
  BY <1>5, CancelSteps
<1>6. CASE \E g \in Reads, o \in Creates : StartRead(g, o)
  BY <1>6, StartReadStep
<1>7. CASE \E g \in Reads : ReadStep(g)
  BY <1>7, ReadSteps
<1>8. CASE \E o \in Creates : CacheExpires(o)
  BY <1>8, CacheExpiresStep
<1>9. CASE Crash
  BY <1>9, CrashStep
<1>10. CASE UNCHANGED vars
  BY <1>10, StutterStep
<1>. QED
  BY <1>1, <1>2, <1>3, <1>4, <1>5, <1>6, <1>7, <1>8, <1>9, <1>10 DEF Next, Finished

(* The inductive invariant holds through every interleaving of requests,   *)
(* failures and crashes.                                                   *)
THEOREM Invariance == Spec => []IInv
BY InitIInv, InductiveStep, PTL DEF Spec

(* The table, the cache, the requests and the RPCs keep their types. *)
THEOREM TypeCorrectness == Spec => []TypeOK
<1>1. IInv => TypeOK
  BY DEF IInv
<1>. QED  BY <1>1, Invariance, PTL

(* POSTs that race with one Idempotency-Key never make two orders. *)
THEOREM KeyCorrectness == Spec => []OneOrderPerKey
<1>1. IInv => OneOrderPerKey
  BY DEF IInv, OneRowPerKey, OneOrderPerKey, Holds
<1>. QED  BY <1>1, Invariance, PTL

(* ... nor two payment calls: only a request that owns the row of the key  *)
(* issues one.                                                             *)
THEOREM ChargeCorrectness == Spec => []OneChargePerKey
<1>1. IInv => OneChargePerKey
  <2>. SUFFICES ASSUME IInv, NEW r \in Creates, NEW s \in Creates,
                       rpc[r] # "idle", rpc[s] # "idle", create[r].key = create[s].key
                PROVE  r = s
    BY DEF OneChargePerKey
  <2>1. orders[r] # "Absent" /\ orders[s] # "Absent"
    BY DEF IInv, RowsFollowRequests, OwnRow
  <2>. QED  BY <2>1 DEF IInv, OneRowPerKey, Holds
<1>. QED  BY <1>1, Invariance, PTL

(* Two clients answered 201 for one key were given the same order. *)
THEOREM RepliesCorrectness == Spec => []RepliesAgreeOnOrder
<1>1. IInv => RepliesAgreeOnOrder
  BY DEF IInv, RepliesHold, RepliesAgreeOnOrder, OneRowPerKey, Holds
<1>. QED  BY <1>1, Invariance, PTL

(* Wherever an order shows as Paid its payment was authorized. *)
THEOREM PaidCorrectness == Spec => []PaidIsBacked
<1>1. IInv => PaidIsBacked
  BY DEF IInv
<1>. QED  BY <1>1, Invariance, PTL

(* The row keeps what the client was told, unless somebody cancels, while  *)
(* the database answers and the process lives.                             *)
THEOREM RowCorrectness == Spec => []ReplyMatchesRow
<1>1. IInv => ReplyMatchesRow
  BY DEF IInv
<1>. QED  BY <1>1, Invariance, PTL

-----------------------------------------------------------------------------
(* OrderService implements OrderLifecycle *)

Decided == {o \in Creates : create[o].outcome # None /\ create[o].pc # "settle"}

LEMMA HiddenStep ==
  ASSUME orders' = orders, Decided' = Decided
  PROVE  [Lifecycle!Next]_<<orders, Decided>>
OBVIOUS

(* A request that goes on without coming to or from its UpdateStatus       *)
(* decides nothing.                                                        *)
LEMMA Undecided ==
  ASSUME NEW r \in Creates, NEW pc, NEW code, NEW o, NEW s,
         Becomes(r, pc, create[r].outcome, code, o, s),
         create[r].pc # "settle", pc # "settle", orders' = orders
  PROVE  [Lifecycle!Next]_<<orders, Decided>>
<1>1. \A q \in Creates :
        /\ create'[q].outcome = create[q].outcome
        /\ create'[q].pc = "settle" <=> create[q].pc = "settle"
  BY DEF Becomes
<1>2. Decided' = Decided
  BY <1>1 DEF Decided
<1>. QED  BY <1>2, HiddenStep

LEMMA CreateShows ==
  ASSUME IInv, NEW r \in Creates, CreateStep(r)
  PROVE  [Lifecycle!Next]_<<orders, Decided>>
<1>0. TypeOK
  BY DEF IInv
<1>1. ASSUME NEW o \in Creates, LookupHit(r, o)
      PROVE  [Lifecycle!Next]_<<orders, Decided>>
  <2>1. orders[o] \in Status
    BY <1>0, <1>1 DEF LookupHit, Holds, TypeOK
  <2>2. Becomes(r, "done", create[r].outcome, "created", o, orders[o])
    BY <1>0, <1>1, <2>1, AfterRespond DEF LookupHit
  <2>. QED  BY <1>1, <2>2, Undecided DEF LookupHit, CreateAt
<1>2. CASE LookupMiss(r)
  BY <1>0, <1>2, AfterGoto, Undecided DEF LookupMiss, CreateAt, CreatePC
<1>3. CASE Insert(r)
  <2>1. create[r].pc = "insert" /\ orders[r] = "Absent" /\ orders' = [orders EXCEPT ![r] = "Pending"]
    BY <1>3 DEF Insert, CreateAt, IInv, RowsFollowRequests, OwnRow
  <2>2. /\ \A q \in Creates : create'[q].outcome = create[q].outcome
        /\ create'[r].pc # "settle"
        /\ \A q \in Creates : q # r => create'[q] = create[q]
    <3>1. CASE CreateGoto(r, "notify")
      BY <1>0, <3>1, AfterGoto DEF Becomes, CreatePC
    <3>2. CASE Respond(r, "error", None, None)
      BY <1>0, <3>2, AfterRespond DEF Becomes
    <3>. QED  BY <1>3, <3>1, <3>2 DEF Insert
  <2>3. Decided' = Decided
    BY <2>1, <2>2 DEF Decided
  <2>4. Lifecycle!Open(r)
    BY <2>1, <2>3 DEF Lifecycle!Open, Decided
  <2>. QED  BY <2>4 DEF Lifecycle!Next
<1>4. CASE InsertFails(r)
  BY <1>0, <1>4, AfterRespond, Undecided DEF InsertFails, CreateAt
<1>5. CASE NotifyPending(r)
  BY <1>0, <1>5, AfterGoto, Undecided DEF NotifyPending, CreateAt, CreatePC
<1>6. CASE Authorize(r)
  BY <1>0, <1>6, AfterGoto, Undecided DEF Authorize, CreateAt, CreatePC
<1>7. CASE Resume(r)
  <2>1. create[r].outcome = None /\ orders' = orders
    BY <1>7 DEF Resume, CreateAt, IInv, RowsFollowRequests, OwnRow
  <2>2. create'[r].pc = "settle" /\ \A q \in Creates : q # r => create'[q] = create[q]
    BY <1>0, <1>7, AfterResume DEF Becomes
  <2>3. Decided' = Decided
    BY <2>1, <2>2 DEF Decided
  <2>. QED  BY <2>1, <2>3, HiddenStep
<1>8. CASE Settle(r)
  <2>1. /\ create[r].pc = "settle" /\ create[r].outcome # None
        /\ orders[r] \in {"Pending", "Cancelled"}
    BY <1>8 DEF Settle, CreateAt, IInv, RowsFollowRequests, OwnRow
  <2>2. /\ create'[r].outcome = create[r].outcome /\ create'[r].pc # "settle"
        /\ \A q \in Creates : q # r => create'[q] = create[q]
    <3>1. CASE CreateGoto(r, "evict")
      BY <1>0, <3>1, AfterGoto DEF Becomes, CreatePC
    <3>2. CASE AfterSettle(r)
      BY <1>0, <3>2, AfterGoto, AfterRespond DEF AfterSettle, Becomes, CreatePC
    <3>. QED  BY <1>8, <3>1, <3>2 DEF Settle
  <2>3. r \notin Decided /\ Decided' = Decided \cup {r}
    BY <2>1, <2>2 DEF Decided
  <2>4. CASE orders' = orders
    <3>1. Lifecycle!Forfeit({r})
      BY <2>1, <2>3, <2>4 DEF Lifecycle!Forfeit, Decided
    <3>. QED  BY <3>1 DEF Lifecycle!Next
  <2>5. CASE orders' = Settled(r)
    <3>1. PICK outcome \in {"Paid", "Failed"} : orders' = [orders EXCEPT ![r] = outcome]
      BY <1>8, <2>5, SettledRow DEF Settle, Settled
    <3>2. Lifecycle!Settle(r, outcome)
      BY <2>1, <2>3, <3>1 DEF Lifecycle!Settle, Decided
    <3>. QED  BY <3>2 DEF Lifecycle!Next
  <2>. QED  BY <1>8, <2>4, <2>5 DEF Settle
<1>9. CASE CreateEvict(r)
  <2>1. create[r].pc = "evict" /\ orders' = orders
    BY <1>9 DEF CreateEvict, CreateAt
  <2>2. CASE Respond(r, "unavailable", None, None)
    BY <1>0, <2>1, <2>2, AfterRespond, Undecided
  <2>3. CASE CreateGoto(r, "announce")
    BY <1>0, <2>1, <2>3, AfterGoto, Undecided DEF CreatePC
  <2>. QED  BY <1>9, <2>2, <2>3 DEF CreateEvict, AfterSettle
<1>10. CASE Announce(r)
  <2>1. create[r].outcome = OutcomeOf(rpc[r]) /\ create[r].outcome # "Unavailable"
    BY <1>10 DEF Announce, CreateAt, IInv, RowsFollowRequests, OwnRow
  <2>2. create[r].outcome \in Status
    BY <2>1 DEF OutcomeOf, Status
  <2>3. Becomes(r, "done", create[r].outcome, "created", r, create[r].outcome)
    BY <1>0, <1>10, <2>2, AfterRespond DEF Announce
  <2>. QED  BY <1>10, <2>3, Undecided DEF Announce, CreateAt
<1>. QED
  BY <1>1, <1>2, <1>3, <1>4, <1>5, <1>6, <1>7, <1>8, <1>9, <1>10 DEF CreateStep

LEMMA CancelShows ==
  ASSUME IInv, NEW x \in Cancels, CancelStep(x)
  PROVE  [Lifecycle!Next]_<<orders, Decided>>
<1>1. Decided' = Decided
  BY DEF CancelStep, CancelLoadFails, CancelLoad, CancelWrite, CancelEvict, CancelAnnounce, Decided
<1>2. CASE orders' = orders
  BY <1>1, <1>2, HiddenStep
<1>3. CASE orders' # orders
  <2>1. /\ cancel[x].pc = "write"
        /\ orders' = [orders EXCEPT ![cancel[x].order] = "Cancelled"]
    BY <1>3 DEF CancelStep, CancelAt, CancelLoadFails, CancelLoad, CancelWrite, CancelEvict, CancelAnnounce
  <2>2. cancel[x].order \in Creates /\ orders[cancel[x].order] # "Absent"
    BY <2>1 DEF IInv, OthersHold
  <2>3. Lifecycle!Cancel(cancel[x].order)
    BY <1>1, <2>1, <2>2 DEF Lifecycle!Cancel, Decided
  <2>. QED  BY <2>2, <2>3 DEF Lifecycle!Next
<1>. QED  BY <1>2, <1>3

(* The requests that were about to write their outcome forfeit it. *)
Lost == {o \in Creates : create[o].pc = "settle"}

LEMMA CrashShows ==
  ASSUME IInv, Crash
  PROVE  [Lifecycle!Next]_<<orders, Decided>>
<1>1. ASSUME NEW o \in Creates
      PROVE  create'[o].outcome = create[o].outcome /\ create'[o].pc # "settle"
  <2>1. create[o] \in CreateState
    BY DEF IInv, TypeOK
  <2>2. create'[o] = IF create[o].pc \in {"done", "dead", "idle"} THEN create[o]
                     ELSE [create[o] EXCEPT !.pc = "dead"]
    BY DEF Crash, Killed, Over
  <2>. QED  BY <2>1, <2>2 DEF CreateState
<1>2. \A o \in Lost : create[o].outcome # None /\ orders[o] # "Absent"
  BY DEF Lost, IInv, RowsFollowRequests, OwnRow
<1>3. Decided' = Decided \cup Lost
  BY <1>1, <1>2 DEF Decided, Lost
<1>4. PICK S \in SUBSET Creates : S = Lost
  BY DEF Lost
<1>5. Lifecycle!Forfeit(S)
  BY <1>2, <1>3, <1>4 DEF Lifecycle!Forfeit, Decided, Crash
<1>. QED  BY <1>5 DEF Lifecycle!Next

(* Every step is one of the life cycle, or hidden from it. *)
LEMMA LifecycleStep == IInv /\ [Next]_vars => [Lifecycle!Next]_<<orders, Decided>>
<1>. SUFFICES ASSUME IInv, [Next]_vars PROVE [Lifecycle!Next]_<<orders, Decided>>
  OBVIOUS
<1>1. ASSUME NEW r \in Creates, NEW k \in Keys, NEW a \in Amounts, PostOrder(r, k, a)
      PROVE  [Lifecycle!Next]_<<orders, Decided>>
  <2>1. create[r] \in CreateState /\ create[r].outcome = None /\ orders' = orders
    BY <1>1 DEF PostOrder, CreateAt, IInv, TypeOK, RowsFollowRequests, OwnRow
  <2>2. /\ create'[r] = [create[r] EXCEPT !.pc = "lookup", !.key = k, !.amount = a]
        /\ \A q \in Creates : q # r => create'[q] = create[q]
    BY <1>1 DEF PostOrder, IInv, TypeOK
  <2>3. create'[r].outcome = None
    BY <2>1, <2>2 DEF CreateState
  <2>4. Decided' = Decided
    BY <2>1, <2>2, <2>3 DEF Decided
  <2>. QED  BY <2>1, <2>4, HiddenStep
<1>2. ASSUME NEW r \in Creates, CreateStep(r)
      PROVE  [Lifecycle!Next]_<<orders, Decided>>
  BY <1>2, CreateShows
<1>3. ASSUME NEW o \in Creates, NEW answer \in Answer, RpcEnds(o, answer)
      PROVE  [Lifecycle!Next]_<<orders, Decided>>
  BY <1>3, HiddenStep DEF RpcEnds, Decided
<1>4. ASSUME NEW x \in Cancels, NEW o \in Creates, PatchCancel(x, o)
      PROVE  [Lifecycle!Next]_<<orders, Decided>>
  BY <1>4, HiddenStep DEF PatchCancel, Decided
<1>5. ASSUME NEW x \in Cancels, CancelStep(x)
      PROVE  [Lifecycle!Next]_<<orders, Decided>>
  BY <1>5, CancelShows
<1>6. ASSUME NEW g \in Reads, NEW o \in Creates, StartRead(g, o)
      PROVE  [Lifecycle!Next]_<<orders, Decided>>
  BY <1>6, HiddenStep DEF StartRead, Decided
<1>7. ASSUME NEW g \in Reads, ReadStep(g)
      PROVE  [Lifecycle!Next]_<<orders, Decided>>
  BY <1>7, HiddenStep DEF ReadStep, CacheHit, CacheMiss, LoadRow, LoadFails, FillCache, Decided
<1>8. ASSUME NEW o \in Creates, CacheExpires(o)
      PROVE  [Lifecycle!Next]_<<orders, Decided>>
  BY <1>8, HiddenStep DEF CacheExpires, Decided
<1>9. CASE Crash
  BY <1>9, CrashShows
<1>10. CASE UNCHANGED vars
  BY <1>10, HiddenStep DEF vars, Decided
<1>. QED
  BY <1>1, <1>2, <1>3, <1>4, <1>5, <1>6, <1>7, <1>8, <1>9, <1>10 DEF Next, Finished

(* The status column follows the life cycle: opened once, its outcome      *)
(* written at most once and never revised, whoever cancels or crashes.     *)
THEOREM ImplementsLifecycle == Spec => LifecycleSpec
<1>1. Init => Lifecycle!Init
  <2>. SUFFICES ASSUME Init PROVE Lifecycle!Init
    OBVIOUS
  <2>1. Decided = {}
    BY DEF Init, Decided
  <2>. QED  BY <2>1 DEF Init, Lifecycle!Init, Decided
<1>2. [Lifecycle!Next]_<<orders, Decided>> => [Lifecycle!Next]_<<orders, {o \in Creates : create[o].outcome # None /\ create[o].pc # "settle"}>>
  BY DEF Decided
<1>. QED  BY <1>1, <1>2, LifecycleStep, Invariance, PTL DEF Spec, LifecycleSpec, Lifecycle!Spec

(* A row shows an outcome only when no other can be written any more. *)
OutcomesDecided == \A o \in Creates : orders[o] \in {"Paid", "Failed"} => o \in Decided

(* What a step can do to one row, read from the life cycle. *)
LEMMA RowMoves ==
  ASSUME IInv, [Next]_vars, NEW o \in Creates
  PROVE  /\ o \in Decided => o \in Decided'
         /\ \/ orders'[o] \in {orders[o], "Cancelled"}
            \/ orders[o] = "Absent" /\ o \notin Decided /\ orders'[o] = "Pending"
            \/ orders[o] # "Absent" /\ o \notin Decided /\ o \in Decided'
                 /\ orders'[o] \in {"Paid", "Failed"}
         /\ orders[o] # "Absent" => orders'[o] # "Absent"
<1>1. orders \in [Creates -> Status \cup {"Absent"}]
  BY DEF IInv, TypeOK
<1>2. o \in Decided => orders[o] # "Absent"
  <2>1. OwnRow(o)
    BY DEF IInv, RowsFollowRequests
  <2>. QED  BY <2>1 DEF OwnRow, Decided, Answer
<1>3. ASSUME NEW p \in Creates, Lifecycle!Open(p)
      PROVE  orders' = [orders EXCEPT ![p] = "Pending"] /\ orders[p] = "Absent" /\ Decided' = Decided
  BY <1>3 DEF Lifecycle!Open, Decided
<1>4. ASSUME NEW p \in Creates, Lifecycle!Cancel(p)
      PROVE  orders' = [orders EXCEPT ![p] = "Cancelled"] /\ Decided' = Decided
  BY <1>4 DEF Lifecycle!Cancel, Decided
<1>5. ASSUME NEW p \in Creates, NEW outcome \in {"Paid", "Failed"}, Lifecycle!Settle(p, outcome)
      PROVE  /\ p \notin Decided /\ Decided' = Decided \cup {p}
             /\ orders[p] # "Absent" /\ orders' = [orders EXCEPT ![p] = outcome]
  BY <1>5 DEF Lifecycle!Settle, Decided
<1>6. ASSUME NEW S \in SUBSET Creates, Lifecycle!Forfeit(S)
      PROVE  Decided' = Decided \cup S /\ orders' = orders
  BY <1>6 DEF Lifecycle!Forfeit, Decided
<1>7. CASE \E p \in Creates : Lifecycle!Open(p)
  BY <1>1, <1>2, <1>3, <1>7
<1>8. CASE \E p \in Creates : Lifecycle!Cancel(p)
  BY <1>1, <1>4, <1>8
<1>9. CASE \E p \in Creates, outcome \in {"Paid", "Failed"} : Lifecycle!Settle(p, outcome)
  BY <1>1, <1>5, <1>9
<1>10. CASE \E S \in SUBSET Creates : Lifecycle!Forfeit(S)
  BY <1>6, <1>10
<1>11. CASE UNCHANGED <<orders, Decided>>
  BY <1>11
<1>. QED  BY <1>7, <1>8, <1>9, <1>10, <1>11, LifecycleStep DEF Lifecycle!Next

(* An outcome is written once: a row that shows one, or whose outcome was  *)
(* lost, is changed by nothing but a cancellation, and no row goes away.   *)
OutcomesStand ==
  [][\A o \in Creates :
       /\ orders[o] # "Absent" => orders'[o] # "Absent"
       /\ orders[o] \in {"Paid", "Failed"} => o \in Decided
       /\ o \in Decided => o \in Decided' /\ orders'[o] \in {orders[o], "Cancelled"}]_vars

(* No second request, late answer or restart writes another outcome.       *)
THEOREM OutcomesCorrectness == Spec => OutcomesStand
<1>1. Init => OutcomesDecided
  BY DEF Init, OutcomesDecided
<1>2. IInv /\ OutcomesDecided /\ [Next]_vars => OutcomesDecided'
  <2>. SUFFICES ASSUME IInv, OutcomesDecided, [Next]_vars, NEW o \in Creates,
                       orders'[o] \in {"Paid", "Failed"}
                PROVE  o \in Decided'
    BY DEF OutcomesDecided
  <2>. QED  BY RowMoves DEF OutcomesDecided
<1>3. IInv /\ OutcomesDecided /\ [Next]_vars =>
        [\A o \in Creates :
           /\ orders[o] # "Absent" => orders'[o] # "Absent"
           /\ orders[o] \in {"Paid", "Failed"} => o \in Decided
           /\ o \in Decided => o \in Decided' /\ orders'[o] \in {orders[o], "Cancelled"}]_vars
  BY RowMoves DEF OutcomesDecided
<1>. QED  BY <1>1, <1>2, <1>3, Invariance, PTL DEF Spec, OutcomesStand

-----------------------------------------------------------------------------
(* Who leaves a stale status in the cache *)

(* An order whose row and entry stay as they are is left stale by no step  *)
(* that keeps the Deletes of it to come.                                   *)
LEMMA StaysAsItWas ==
  ASSUME NEW o \in Creates, orders'[o] = orders[o], cache'[o] = cache[o],
         DeleteDue(o) => DeleteDue(o)', LeftStale(o)'
  PROVE  LeftStale(o)
BY DEF LeftStale, Stale

(* A Delete of a cancellation stays due while the cancellation stands.     *)
LEMMA CancelsStand ==
  ASSUME NEW o \in Creates, UNCHANGED cancel,
         CreateAt(o, "evict") => CreateAt(o, "evict")'
  PROVE  DeleteDue(o) => DeleteDue(o)'
BY DEF DeleteDue, CancelAt

(* The step that leaves the entry of o stale is one of three.              *)
Excused(o) ==
  \/ \E g \in Reads : FillsStale(g, o)
  \/ faults \cap {"redis", "crash"} # {} /\ DeleteDue(o)
  \/ "db" \in faults /\ orders'[o] # orders[o]

LEMMA CreateLeaves ==
  ASSUME IInv, NEW r \in Creates, CreateStep(r), NEW o \in Creates, LeftStale(o)', ~LeftStale(o)
  PROVE  Excused(o)
<1>1. TypeOK /\ UNCHANGED cancel
  BY DEF IInv, CreateStep, LookupHit, LookupMiss, Insert, InsertFails, NotifyPending, Authorize, Resume,
     Settle, CreateEvict, Announce
<1>2. \A q \in Creates : q # r => create'[q] = create[q]
  BY <1>1 DEF TypeOK, CreateStep, LookupHit, LookupMiss, Insert, InsertFails, NotifyPending, Authorize,
     Resume, Settle, AfterSettle, CreateEvict, Announce, CreateGoto, Respond
<1>3. CASE Settle(r)
  <2>1. create[r].pc = "settle" /\ UNCHANGED cache
    BY <1>3 DEF Settle, CreateAt
  <2>2. DeleteDue(o) => DeleteDue(o)'
    BY <1>1, <1>2, <2>1, CancelsStand DEF CreateAt
  <2>3. CASE orders'[o] = orders[o]
    BY <2>1, <2>2, <2>3, StaysAsItWas
  <2>4. CASE orders'[o] # orders[o] /\ CreateGoto(r, "evict")
    <3>1. o = r
      BY <1>3, <2>4, SettledRow DEF Settle
    <3>2. DeleteDue(o)'
      BY <1>1, <2>4, <3>1, AfterGoto DEF Becomes, DeleteDue, CreateAt, CreatePC
    <3>. QED  BY <3>2 DEF LeftStale
  <2>. QED  BY <1>3, <2>3, <2>4 DEF Settle, Excused
<1>4. CASE CreateEvict(r)
  <2>1. create[r].pc = "evict" /\ UNCHANGED orders
    BY <1>4 DEF CreateEvict, CreateAt
  <2>2. CASE o = r
    <3>1. CASE cache' = [cache EXCEPT ![r] = "Absent"]
      BY <1>1, <2>2, <3>1 DEF TypeOK, LeftStale, Stale
    <3>2. CASE "redis" \in faults
      BY <2>1, <2>2, <3>2 DEF Excused, DeleteDue, CreateAt
    <3>. QED  BY <1>4, <3>1, <3>2 DEF CreateEvict, Evict
  <2>3. CASE o # r
    <3>1. cache'[o] = cache[o]
      BY <1>1, <1>4, <2>3 DEF CreateEvict, Evict, TypeOK
    <3>2. DeleteDue(o) => DeleteDue(o)'
      BY <1>1, <1>2, <2>3, CancelsStand DEF CreateAt
    <3>. QED  BY <2>1, <3>1, <3>2, StaysAsItWas
  <2>. QED  BY <2>2, <2>3
<1>5. CASE Insert(r)
  <2>1. /\ create[r].pc = "insert" /\ orders[r] = "Absent" /\ UNCHANGED cache
        /\ orders' = [orders EXCEPT ![r] = "Pending"]
    BY <1>5 DEF Insert, CreateAt, IInv, RowsFollowRequests, OwnRow
  <2>2. DeleteDue(o) => DeleteDue(o)'
    BY <1>1, <1>2, <2>1, CancelsStand DEF CreateAt
  <2>3. CASE o = r
    <3>1. ~DeleteDue(r)
      BY <2>1 DEF DeleteDue, CreateAt, CancelAt, IInv, OthersHold
    <3>. QED  BY <2>1, <2>3, <3>1 DEF LeftStale, Stale
  <2>4. CASE o # r
    <3>1. orders'[o] = orders[o] /\ cache'[o] = cache[o]
      BY <1>1, <2>1, <2>4 DEF TypeOK
    <3>. QED  BY <2>2, <3>1, StaysAsItWas
  <2>. QED  BY <2>3, <2>4
<1>6. CASE \/ \E q \in Creates : LookupHit(r, q)
           \/ LookupMiss(r) \/ InsertFails(r) \/ NotifyPending(r) \/ Authorize(r) \/ Resume(r) \/ Announce(r)
  <2>1. create[r].pc # "evict" /\ UNCHANGED <<orders, cache>>
    BY <1>6 DEF LookupHit, LookupMiss, InsertFails, NotifyPending, Authorize, Resume, Announce, CreateAt
  <2>2. DeleteDue(o) => DeleteDue(o)'
    BY <1>1, <1>2, <2>1, CancelsStand DEF CreateAt
  <2>. QED  BY <2>1, <2>2, StaysAsItWas
<1>. QED  BY <1>3, <1>4, <1>5, <1>6 DEF CreateStep

LEMMA CancelLeaves ==
  ASSUME IInv, NEW x \in Cancels, CancelStep(x), NEW o \in Creates, LeftStale(o)', ~LeftStale(o)
  PROVE  Excused(o)
<1>1. TypeOK /\ UNCHANGED create
  BY DEF IInv, CancelStep, CancelLoadFails, CancelLoad, CancelWrite, CancelEvict, CancelAnnounce
<1>2. \A y \in Cancels : y # x => cancel'[y] = cancel[y]
  BY <1>1 DEF TypeOK, CancelStep, CancelLoadFails, CancelLoad, CancelWrite, CancelEvict, CancelAnnounce,
     CancelGoto, CancelRespond
<1>3. ASSUME cancel[x].pc # "evict" \/ cancel[x].order # o
      PROVE  DeleteDue(o) => DeleteDue(o)'
  BY <1>1, <1>2, <1>3 DEF DeleteDue, CreateAt, CancelAt
<1>4. CASE CancelEvict(x)
  <2>1. cancel[x].pc = "evict" /\ UNCHANGED orders /\ Evict(cancel[x].order)
    BY <1>4 DEF CancelEvict, CancelAt
  <2>2. CASE o = cancel[x].order
    <3>1. CASE cache' = [cache EXCEPT ![cancel[x].order] = "Absent"]
      BY <1>1, <2>2, <3>1 DEF TypeOK, LeftStale, Stale
    <3>2. CASE "redis" \in faults
      BY <2>1, <2>2, <3>2 DEF Excused, DeleteDue, CancelAt
    <3>. QED  BY <2>1, <3>1, <3>2 DEF Evict
  <2>3. CASE o # cancel[x].order
    <3>1. cache'[o] = cache[o]
      BY <1>1, <2>1, <2>3 DEF Evict, TypeOK
    <3>. QED  BY <1>3, <2>1, <2>3, <3>1, StaysAsItWas
  <2>. QED  BY <2>2, <2>3
<1>5. CASE CancelWrite(x)
  <2>1. cancel[x].pc = "write" /\ UNCHANGED cache
    BY <1>5 DEF CancelWrite, CancelAt
  <2>2. CASE orders'[o] = orders[o]
    BY <1>3, <2>1, <2>2, StaysAsItWas
  <2>3. CASE orders'[o] # orders[o] /\ CancelGoto(x, "evict")
    <3>1. o = cancel[x].order
      BY <1>1, <1>5, <2>3 DEF CancelWrite, TypeOK
    <3>2. DeleteDue(o)'
      BY <1>1, <2>3, <3>1, AfterCancelGoto DEF CancelBecomes, DeleteDue, CancelAt
    <3>. QED  BY <3>2 DEF LeftStale
  <2>. QED  BY <1>5, <2>2, <2>3 DEF CancelWrite, Excused
<1>6. CASE CancelLoadFails(x) \/ CancelLoad(x) \/ CancelAnnounce(x)
  <2>1. cancel[x].pc # "evict" /\ UNCHANGED <<orders, cache>>
    BY <1>6 DEF CancelLoadFails, CancelLoad, CancelAnnounce, CancelAt
  <2>. QED  BY <1>3, <2>1, StaysAsItWas
<1>. QED  BY <1>4, <1>5, <1>6 DEF CancelStep

LEMMA ReadLeaves ==
  ASSUME IInv, NEW g \in Reads, ReadStep(g), NEW o \in Creates, LeftStale(o)', ~LeftStale(o)
  PROVE  Excused(o)
<1>1. TypeOK /\ UNCHANGED <<orders, create, cancel>>
  BY DEF IInv, ReadStep, CacheHit, CacheMiss, LoadRow, LoadFails, FillCache
<1>2. DeleteDue(o) => DeleteDue(o)'
  BY <1>1 DEF DeleteDue, CreateAt, CancelAt
<1>3. CASE cache'[o] = cache[o]
  BY <1>1, <1>2, <1>3, StaysAsItWas
<1>4. CASE cache'[o] # cache[o]
  <2>1. /\ read[g].pc = "fill"
        /\ cache' = [cache EXCEPT ![read[g].order] = read[g].seen]
    BY <1>4 DEF ReadStep, ReadAt, CacheHit, CacheMiss, LoadRow, LoadFails, FillCache
  <2>2. read[g].order = o /\ cache'[o] = read[g].seen
    BY <1>1, <1>4, <2>1 DEF TypeOK
  <2>3. read[g].seen # orders[o]
    BY <1>1, <2>2 DEF LeftStale, Stale
  <2>. QED  BY <2>1, <2>2, <2>3 DEF Excused, FillsStale, ReadAt
<1>. QED  BY <1>3, <1>4

LEMMA StepLeaves ==
  ASSUME IInv, [Next]_vars, NEW o \in Creates, LeftStale(o)', ~LeftStale(o)
  PROVE  Excused(o)
<1>1. ASSUME NEW r \in Creates, NEW k \in Keys, NEW a \in Amounts, PostOrder(r, k, a)
      PROVE  Excused(o)
  <2>1. /\ create[r].pc = "idle" /\ UNCHANGED <<orders, cache, cancel>>
        /\ \A q \in Creates : q # r => create'[q] = create[q]
    BY <1>1 DEF PostOrder, CreateAt, IInv, TypeOK
  <2>. QED  BY <2>1, CancelsStand, StaysAsItWas DEF CreateAt
<1>2. CASE \E r \in Creates : CreateStep(r)
  BY <1>2, CreateLeaves
<1>3. ASSUME NEW q \in Creates, NEW answer \in Answer, RpcEnds(q, answer) PROVE Excused(o)
  BY <1>3, CancelsStand, StaysAsItWas DEF RpcEnds, CreateAt
<1>4. ASSUME NEW x \in Cancels, NEW q \in Creates, PatchCancel(x, q) PROVE Excused(o)
  <2>1. /\ cancel[x].pc = "idle" /\ UNCHANGED <<orders, cache, create>>
        /\ \A y \in Cancels : y # x => cancel'[y] = cancel[y]
    BY <1>4 DEF PatchCancel, CancelAt, IInv, TypeOK
  <2>2. DeleteDue(o) => DeleteDue(o)'
    BY <2>1 DEF DeleteDue, CreateAt, CancelAt
  <2>. QED  BY <2>1, <2>2, StaysAsItWas
<1>5. CASE \E x \in Cancels : CancelStep(x)
  BY <1>5, CancelLeaves
<1>6. ASSUME NEW g \in Reads, NEW q \in Creates, StartRead(g, q) PROVE Excused(o)
  BY <1>6, CancelsStand, StaysAsItWas DEF StartRead, CreateAt
<1>7. CASE \E g \in Reads : ReadStep(g)
  BY <1>7, ReadLeaves
<1>8. ASSUME NEW q \in Creates, CacheExpires(q) PROVE Excused(o)
  <2>1. UNCHANGED <<orders, create, cancel>> /\ cache'[o] \in {cache[o], "Absent"}
    BY <1>8 DEF CacheExpires, IInv, TypeOK
  <2>2. DeleteDue(o) => DeleteDue(o)'
    BY <2>1, CancelsStand DEF CreateAt
  <2>3. CASE cache'[o] = "Absent"
    BY <2>3 DEF LeftStale, Stale
  <2>. QED  BY <2>1, <2>2, <2>3, StaysAsItWas
<1>9. CASE Crash
  <2>1. "crash" \in faults /\ UNCHANGED <<orders, cache>>
    BY <1>9 DEF Crash
  <2>2. CASE DeleteDue(o)
    BY <2>1, <2>2 DEF Excused
  <2>3. CASE ~DeleteDue(o)
    BY <2>1, <2>3, StaysAsItWas
  <2>. QED  BY <2>2, <2>3
<1>10. CASE UNCHANGED vars
  BY <1>10, CancelsStand, StaysAsItWas DEF vars, CreateAt
<1>. QED
  BY <1>1, <1>2, <1>3, <1>4, <1>5, <1>6, <1>7, <1>8, <1>9, <1>10 DEF Next, Finished

(* Every write of a status is followed by the Delete that clears the old   *)
(* one from the cache; a stale entry is left only by a reader that raced,  *)
(* by a Delete that failed or died, or by a write that reported an error.  *)
THEOREM StaleOnlyWhenExcused == Spec => DeletedOnWrite
<1>1. IInv /\ [Next]_vars =>
        [\A o \in Creates :
           LeftStale(o)' /\ ~LeftStale(o) =>
             \/ \E g \in Reads : FillsStale(g, o)
             \/ faults \cap {"redis", "crash"} # {} /\ DeleteDue(o)
             \/ "db" \in faults /\ orders'[o] # orders[o]]_vars
  BY StepLeaves DEF Excused
<1>. QED  BY <1>1, Invariance, PTL DEF Spec, DeletedOnWrite

-----------------------------------------------------------------------------
(* What is on record, and what others were shown of it *)

(* Somebody has asked for this order to be cancelled. *)
AskedFor(o) == \E x \in Cancels : cancel[x].pc # "idle" /\ cancel[x].order = o

(* Whoever holds a terminal status of an order - the cache, a read, a      *)
(* cancellation that has been written - holds it of an order whose row is  *)
(* terminal, if perhaps otherwise.                                         *)
Recorded ==
  /\ \A o \in Creates : cache[o] \in Terminal => orders[o] \in Terminal
  /\ \A g \in Reads : read[g].seen \in Terminal => orders[read[g].order] \in Terminal
  /\ \A x \in Cancels :
       cancel[x].pc \in {"evict", "announce"} => orders[cancel[x].order] \in Terminal

(* No order shows as Cancelled that nobody asked to cancel. *)
CancelledAsked ==
  /\ \A o \in Creates : "Cancelled" \in {orders[o], cache[o]} => AskedFor(o)
  /\ \A g \in Reads : read[g].seen = "Cancelled" => AskedFor(read[g].order)

RecordInv == Recorded /\ CancelledAsked

LEMMA InitRecord == Init => RecordInv
BY DEF Init, RecordInv, Recorded, CancelledAsked, Terminal, None

(* Where the statuses in a step come from. *)
Moves ==
  /\ \A o \in Creates :
       /\ \/ orders'[o] = orders[o]
          \/ orders'[o] \in {"Paid", "Failed"}
          \/ orders[o] = "Absent" /\ orders'[o] = "Pending"
          \/ /\ orders'[o] = "Cancelled"
             /\ \E x \in Cancels : cancel[x].pc = "write" /\ cancel[x].order = o
       /\ \/ cache'[o] \in {cache[o], "Absent"}
          \/ \E g \in Reads :
               read[g].pc = "fill" /\ read[g].order = o /\ cache'[o] = read[g].seen
       /\ rpc[o] \in Answer => rpc'[o] = rpc[o]
  /\ \A x \in Cancels :
       /\ cancel[x].pc # "idle" =>
            cancel'[x].pc # "idle" /\ cancel'[x].order = cancel[x].order
       /\ cancel'[x].pc \in {"evict", "announce"} =>
            /\ cancel[x].pc # "idle"
            /\ \/ cancel[x].pc \in {"evict", "announce"}
               \/ orders'[cancel[x].order] = "Cancelled"
  /\ \A g \in Reads :
       /\ read[g].pc # "idle" => read'[g].pc # "idle" /\ read'[g].order = read[g].order
       /\ \/ read'[g].seen \notin Status
          \/ /\ read[g].pc # "idle"
             /\ read'[g].seen \in {read[g].seen, cache[read[g].order], orders[read[g].order]}

LEMMA StillMoves ==
  ASSUME IInv, UNCHANGED <<orders, cache, cancel, read, rpc>>
  PROVE  Moves
BY DEF Moves, IInv, OthersHold, Status, None

LEMMA CreateMoves ==
  ASSUME IInv, NEW r \in Creates, CreateStep(r)
  PROVE  Moves
<1>1. UNCHANGED <<cancel, read>>
  BY DEF CreateStep, LookupHit, LookupMiss, Insert, InsertFails, NotifyPending, Authorize, Resume,
     Settle, CreateEvict, Announce
<1>2. cache' = cache \/ cache' = [cache EXCEPT ![r] = "Absent"]
  BY DEF CreateStep, LookupHit, LookupMiss, Insert, InsertFails, NotifyPending, Authorize, Resume,
     Settle, CreateEvict, Announce, Evict
<1>3. \/ orders' = orders
      \/ orders[r] = "Absent" /\ orders' = [orders EXCEPT ![r] = "Pending"]
      \/ CreateAt(r, "settle") /\ orders' = Settled(r)
  BY DEF CreateStep, LookupHit, LookupMiss, Insert, InsertFails, NotifyPending, Authorize, Resume,
     Settle, CreateEvict, Announce, CreateAt, IInv, RowsFollowRequests, OwnRow
<1>4. rpc' = rpc \/ (rpc[r] = "idle" /\ rpc' = [rpc EXCEPT ![r] = "sent"])
  BY DEF CreateStep, LookupHit, LookupMiss, Insert, InsertFails, NotifyPending, Authorize, Resume,
     Settle, CreateEvict, Announce, CreateAt, IInv, RowsFollowRequests, OwnRow
<1>5. ASSUME NEW o \in Creates
      PROVE  /\ \/ orders'[o] = orders[o]
                \/ orders'[o] \in {"Paid", "Failed"}
                \/ orders[o] = "Absent" /\ orders'[o] = "Pending"
             /\ cache'[o] \in {cache[o], "Absent"}
             /\ rpc[o] \in Answer => rpc'[o] = rpc[o]
  BY <1>2, <1>3, <1>4, SettledRow DEF IInv, TypeOK, Answer
<1>. QED  BY <1>1, <1>5 DEF Moves, IInv, OthersHold, Status, None

LEMMA CancelMoves ==
  ASSUME IInv, NEW x \in Cancels, CancelStep(x)
  PROVE  Moves
<1>. DEFINE o == cancel[x].order
<1>1. cancel[x].pc # "idle" /\ UNCHANGED <<read, rpc>>
  BY DEF CancelStep, CancelAt, CancelLoadFails, CancelLoad, CancelWrite, CancelEvict, CancelAnnounce
<1>2. o \in Creates
  BY <1>1 DEF IInv, OthersHold
<1>3. \/ orders' = orders
      \/ cancel[x].pc = "write" /\ orders' = [orders EXCEPT ![o] = "Cancelled"]
  BY DEF CancelStep, CancelAt, CancelLoadFails, CancelLoad, CancelWrite, CancelEvict, CancelAnnounce
<1>4. cache' = cache \/ cache' = [cache EXCEPT ![o] = "Absent"]
  BY DEF CancelStep, CancelLoadFails, CancelLoad, CancelWrite, CancelEvict, CancelAnnounce, Evict
<1>5. PICK pc \in {"write", "evict", "announce", "done"} :
        /\ CancelBecomes(x, pc)
        /\ pc \in {"evict", "announce"} =>
             cancel[x].pc = "evict" \/ orders' = [orders EXCEPT ![o] = "Cancelled"]
  BY AfterCancelGoto, AfterCancelRespond
  DEF IInv, CancelStep, CancelAt, CancelLoadFails, CancelLoad, CancelWrite, CancelEvict, CancelAnnounce
<1>6. orders \in [Creates -> Status \cup {"Absent"}] /\ cache \in [Creates -> Status \cup {"Absent"}]
  BY DEF IInv, TypeOK
<1>7. ASSUME NEW q \in Creates
      PROVE  /\ \/ orders'[q] = orders[q]
                \/ orders'[q] = "Cancelled" /\ cancel[x].pc = "write" /\ o = q
             /\ cache'[q] \in {cache[q], "Absent"}
  BY <1>2, <1>3, <1>4, <1>6
<1>8. ASSUME NEW y \in Cancels
      PROVE  /\ cancel[y].pc # "idle" =>
                  cancel'[y].pc # "idle" /\ cancel'[y].order = cancel[y].order
             /\ cancel'[y].pc \in {"evict", "announce"} =>
                  /\ cancel[y].pc # "idle"
                  /\ \/ cancel[y].pc \in {"evict", "announce"}
                     \/ orders'[cancel[y].order] = "Cancelled"
  BY <1>1, <1>2, <1>5, <1>6 DEF CancelBecomes
<1>. QED  BY <1>1, <1>7, <1>8 DEF Moves, IInv, OthersHold, Status, None

LEMMA PatchCancelMoves ==
  ASSUME IInv, NEW x \in Cancels, NEW o \in Creates, PatchCancel(x, o)
  PROVE  Moves
<1>1. /\ cancel[x].pc = "idle" /\ cancel'[x].pc = "load"
      /\ \A y \in Cancels : y # x => cancel'[y] = cancel[y]
  BY DEF PatchCancel, CancelAt, IInv, TypeOK, CancelState
<1>. QED  BY <1>1 DEF PatchCancel, Moves, IInv, OthersHold, Status, None

LEMMA StartReadMoves ==
  ASSUME IInv, NEW g \in Reads, NEW o \in Creates, StartRead(g, o)
  PROVE  Moves
<1>1. read[g].pc = "idle" /\ read[g].seen = None
  BY DEF StartRead, ReadAt, IInv, OthersHold
<1>2. /\ read'[g].seen = read[g].seen
      /\ \A h \in Reads : h # g => read'[h] = read[h]
  BY DEF StartRead, IInv, TypeOK, ReadState
<1>. QED  BY <1>1, <1>2 DEF StartRead, Moves, IInv, OthersHold, Status, None

LEMMA ReadMoves ==
  ASSUME IInv, NEW g \in Reads, ReadStep(g)
  PROVE  Moves
<1>. DEFINE o == read[g].order
<1>1. read[g].pc # "idle" /\ UNCHANGED <<orders, cancel, rpc>>
  BY DEF ReadStep, ReadAt, CacheHit, CacheMiss, LoadRow, LoadFails, FillCache
<1>2. o \in Creates
  BY <1>1 DEF IInv, OthersHold
<1>3. PICK pc \in {"db", "fill", "done"}, seen \in Status \cup {"not found", None} :
        /\ ReadBecomes(g, pc, seen)
        /\ seen \in {read[g].seen, cache[o], orders[o], "not found"}
  <2>1. CASE CacheHit(g)
    BY <2>1, AfterReadReturn DEF CacheHit, ReadReturn, IInv
  <2>2. CASE CacheMiss(g)
    BY <2>2, AfterReadGoto DEF CacheMiss, IInv, TypeOK, ReadState
  <2>3. CASE LoadRow(g)
    BY <2>3, AfterReadReturn DEF LoadRow, IInv
  <2>4. CASE LoadFails(g)
    BY <2>4, AfterReadReturn DEF LoadFails, ReadReturn, IInv
  <2>5. CASE FillCache(g)
    <3>1. read[g].seen \in Status
      BY <2>5 DEF FillCache, ReadAt, IInv, OthersHold
    <3>. QED  BY <2>5, <3>1, AfterFill
  <2>. QED  BY <2>1, <2>2, <2>3, <2>4, <2>5 DEF ReadStep
<1>4. cache' = cache \/ (read[g].pc = "fill" /\ cache' = [cache EXCEPT ![o] = read[g].seen])
  BY DEF ReadStep, ReadAt, CacheHit, CacheMiss, LoadRow, LoadFails, FillCache
<1>5. \A q \in Creates :
        \/ cache'[q] = cache[q]
        \/ read[g].pc = "fill" /\ o = q /\ cache'[q] = read[g].seen
  BY <1>2, <1>4 DEF IInv, TypeOK
<1>6. ASSUME NEW h \in Reads
      PROVE  /\ read[h].pc # "idle" => read'[h].pc # "idle" /\ read'[h].order = read[h].order
             /\ \/ read'[h].seen \notin Status
                \/ /\ read[h].pc # "idle"
                   /\ read'[h].seen \in {read[h].seen, cache[read[h].order], orders[read[h].order]}
  <2>1. CASE h = g
    BY <1>1, <1>3, <2>1 DEF ReadBecomes, Status
  <2>2. CASE h # g
    BY <1>3, <2>2 DEF ReadBecomes, IInv, OthersHold, Status, None
  <2>. QED  BY <2>1, <2>2
<1>. QED  BY <1>1, <1>5, <1>6 DEF Moves

LEMMA CrashMoves ==
  ASSUME IInv, Crash
  PROVE  Moves
<1>1. ASSUME NEW x \in Cancels
      PROVE  /\ cancel'[x].order = cancel[x].order
             /\ cancel'[x].pc = cancel[x].pc \/ (cancel[x].pc # "idle" /\ cancel'[x].pc = "dead")
  <2>1. cancel[x] \in CancelState
    BY DEF IInv, TypeOK
  <2>2. cancel'[x] = cancel[x] \/ (cancel[x].pc # "idle" /\ cancel'[x] = [cancel[x] EXCEPT !.pc = "dead"])
    BY DEF Crash, Killed, Over
  <2>. QED  BY <2>1, <2>2 DEF CancelState
<1>2. ASSUME NEW g \in Reads
      PROVE  /\ read'[g].order = read[g].order /\ read'[g].seen = read[g].seen
             /\ read'[g].pc = read[g].pc \/ (read[g].pc # "idle" /\ read'[g].pc = "dead")
  <2>1. read[g] \in ReadState
    BY DEF IInv, TypeOK
  <2>2. read'[g] = read[g] \/ (read[g].pc # "idle" /\ read'[g] = [read[g] EXCEPT !.pc = "dead"])
    BY DEF Crash, Killed, Over
  <2>. QED  BY <2>1, <2>2 DEF ReadState
<1>3. UNCHANGED <<orders, cache, rpc>>
  BY DEF Crash
<1>. QED  BY <1>1, <1>2, <1>3 DEF Moves, IInv, OthersHold, Status, None

LEMMA StepMoves ==
  ASSUME IInv, [Next]_vars
  PROVE  Moves
<1>1. CASE \E r \in Creates, k \in Keys, a \in Amounts : PostOrder(r, k, a)
  BY <1>1, StillMoves DEF PostOrder
<1>2. CASE \E r \in Creates : CreateStep(r)
  BY <1>2, CreateMoves
<1>3. ASSUME NEW o \in Creates, NEW answer \in Answer, RpcEnds(o, answer) PROVE Moves
  <2>1. \A q \in Creates : rpc[q] \in Answer => rpc'[q] = rpc[q]
    BY <1>3 DEF RpcEnds, IInv, TypeOK, Answer
  <2>2. UNCHANGED <<orders, cache, cancel, read>>
    BY <1>3 DEF RpcEnds
  <2>. QED  BY <2>1, <2>2 DEF Moves, IInv, OthersHold, Status, None
<1>4. CASE \E x \in Cancels, o \in Creates : PatchCancel(x, o)
  BY <1>4, PatchCancelMoves
<1>5. CASE \E x \in Cancels : CancelStep(x)
  BY <1>5, CancelMoves
<1>6. CASE \E g \in Reads, o \in Creates : StartRead(g, o)
  BY <1>6, StartReadMoves
<1>7. CASE \E g \in Reads : ReadStep(g)
  BY <1>7, ReadMoves
<1>8. ASSUME NEW o \in Creates, CacheExpires(o) PROVE Moves
  <2>1. \A q \in Creates : cache'[q] \in {cache[q], "Absent"}
    BY <1>8 DEF CacheExpires, IInv, TypeOK
  <2>2. UNCHANGED <<orders, cancel, read, rpc>>
    BY <1>8 DEF CacheExpires
  <2>. QED  BY <2>1, <2>2 DEF Moves, IInv, OthersHold, Status, None
<1>9. CASE Crash
  BY <1>9, CrashMoves
<1>10. CASE UNCHANGED vars
  BY <1>10, StillMoves DEF vars
<1>. QED
  BY <1>1, <1>2, <1>3, <1>4, <1>5, <1>6, <1>7, <1>8, <1>9, <1>10 DEF Next, Finished

(* What others may rely on from one step to the next. *)
Abiding ==
  \A o \in Creates :
    /\ orders[o] \in Terminal => orders'[o] \in Terminal
    /\ AskedFor(o) => AskedFor(o)'
    /\ rpc[o] = "Authorized" => rpc'[o] = "Authorized"

LEMMA MovesAbide ==
  ASSUME IInv, Moves
  PROVE  Abiding
<1>. SUFFICES ASSUME NEW o \in Creates
              PROVE  /\ orders[o] \in Terminal => orders'[o] \in Terminal
                     /\ AskedFor(o) => AskedFor(o)'
                     /\ rpc[o] = "Authorized" => rpc'[o] = "Authorized"
  BY DEF Abiding
<1>1. orders[o] \in Terminal => orders'[o] \in Terminal
  BY DEF Moves, Terminal
<1>2. AskedFor(o) => AskedFor(o)'
  BY DEF Moves, AskedFor
<1>. QED  BY <1>1, <1>2 DEF Moves, Answer

LEMMA RecordStep ==
  ASSUME IInv, RecordInv, Moves
  PROVE  RecordInv'
<1>1. Abiding
  BY MovesAbide
<1>2. \A g \in Reads : read[g].seen \in Status => read[g].order \in Creates
  BY DEF IInv, OthersHold, Status, None
<1>3. Recorded'
  <2>1. ASSUME NEW o \in Creates, cache'[o] \in Terminal PROVE orders'[o] \in Terminal
    BY <1>1, <2>1 DEF Moves, Abiding, RecordInv, Recorded, Terminal
  <2>2. ASSUME NEW g \in Reads, read'[g].seen \in Terminal PROVE orders'[read'[g].order] \in Terminal
    <3>1. /\ read[g].order \in Creates /\ read'[g].order = read[g].order
          /\ read'[g].seen \in {read[g].seen, cache[read[g].order], orders[read[g].order]}
      BY <2>2 DEF Moves, Terminal, Status, IInv, OthersHold
    <3>2. orders[read[g].order] \in Terminal
      BY <2>2, <3>1 DEF RecordInv, Recorded
    <3>. QED  BY <1>1, <3>1, <3>2 DEF Abiding
  <2>3. ASSUME NEW x \in Cancels, cancel'[x].pc \in {"evict", "announce"}
        PROVE  orders'[cancel'[x].order] \in Terminal
    <3>1. cancel[x].order \in Creates /\ cancel'[x].order = cancel[x].order
      BY <2>3 DEF Moves, IInv, OthersHold
    <3>2. CASE cancel[x].pc \in {"evict", "announce"}
      BY <1>1, <3>1, <3>2 DEF RecordInv, Recorded, Abiding
    <3>3. CASE orders'[cancel[x].order] = "Cancelled"
      BY <3>1, <3>3 DEF Terminal
    <3>. QED  BY <2>3, <3>2, <3>3 DEF Moves
  <2>. QED  BY <2>1, <2>2, <2>3 DEF Recorded
<1>4. CancelledAsked'
  <2>1. ASSUME NEW o \in Creates, orders'[o] = "Cancelled" PROVE AskedFor(o)'
    <3>1. AskedFor(o)
      BY <2>1 DEF Moves, RecordInv, CancelledAsked, AskedFor
    <3>. QED  BY <1>1, <3>1 DEF Abiding
  <2>2. ASSUME NEW o \in Creates, cache'[o] = "Cancelled" PROVE AskedFor(o)'
    <3>1. AskedFor(o)
      BY <2>2 DEF Moves, RecordInv, CancelledAsked
    <3>. QED  BY <1>1, <3>1 DEF Abiding
  <2>3. ASSUME NEW g \in Reads, read'[g].seen = "Cancelled" PROVE AskedFor(read[g].order)'
    <3>1. /\ read[g].order \in Creates /\ read'[g].order = read[g].order
          /\ read'[g].seen \in {read[g].seen, cache[read[g].order], orders[read[g].order]}
      BY <2>3 DEF Moves, Status, IInv, OthersHold
    <3>2. AskedFor(read[g].order)
      BY <2>3, <3>1 DEF RecordInv, CancelledAsked
    <3>3. AskedFor(read[g].order)' <=> \E x \in Cancels : cancel'[x].pc # "idle" /\ cancel'[x].order = read[g].order
      BY <3>1 DEF AskedFor
    <3>4. PICK x \in Cancels : cancel[x].pc # "idle" /\ cancel[x].order = read[g].order
      BY <3>2 DEF AskedFor
    <3>. QED  BY <3>1, <3>3, <3>4 DEF Moves
  <2>. QED  BY <2>1, <2>2, <2>3 DEF CancelledAsked
<1>. QED  BY <1>3, <1>4 DEF RecordInv

LEMMA RecordInductive == IInv /\ RecordInv /\ [Next]_vars => RecordInv' /\ Moves /\ Abiding
BY StepMoves, MovesAbide, RecordStep

(* A terminal status that is cached, read or announced is that of an order *)
(* whose row is terminal, and nothing shows as Cancelled without a request *)
(* to cancel it, whatever is stale, lost or overwritten on the way.        *)
THEOREM RecordCorrectness == Spec => []RecordInv
BY InitRecord, RecordInductive, Invariance, PTL DEF Spec
=============================================================================
