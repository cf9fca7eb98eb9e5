---------------------------- MODULE OrderService ----------------------------
(***************************************************************************)
(* The order service: concurrent CreateOrder, CancelOrder and GetOrder     *)
(* requests against the orders table and the Redis cache, and the payment  *)
(* RPC as its caller sees it.  Every database, Redis and RPC operation is  *)
(* a step of its own, as it is in the code, so requests interleave between *)
(* any two of them.                                                        *)
(*                                                                         *)
(* The ID of an order is the create request whose uuid it is.  Of a row    *)
(* only the status ever changes; its other columns are the request's.      *)
(* A context that is cancelled because the client left shows as failures   *)
(* of the calls it is passed to.                                           *)
(***************************************************************************)
EXTENDS Naturals

CONSTANTS Creates,    \* POST /orders requests, and the order IDs they mint
          Cancels,    \* PATCH /orders/:id/cancel requests
          Reads,      \* GetOrder calls
          Keys,       \* Idempotency-Key values, never empty
          Amounts,    \* amounts the handler lets through
          Environments \* sets of failures: "db", "redis", "crash"

ASSUME OrderAssumption == Amounts \subseteq Nat \ {0}

VARIABLES orders,     \* status column of table orders, "Absent" for no row
          cache,      \* status in the Redis entry order:{id}, "Absent" for none
          create, cancel, read,   \* the state of each request
          rpc,        \* ProcessPayment as its caller sees it, per order
          faults      \* the failures this behaviour may meet, chosen once

vars == <<orders, cache, create, cancel, read, rpc, faults>>

Status == {"Pending", "Paid", "Failed", "Cancelled"}
Terminal == {"Paid", "Failed", "Cancelled"}
Answer == {"Authorized", "Declined", "Error"}
None == "none"

CreateState ==
  [pc : {"idle", "lookup", "insert", "notify", "authorize", "await", "settle", "evict",
         "announce", "done", "dead"},
   key : Keys \cup {None},
   amount : Amounts \cup {0},
   outcome : {None, "Paid", "Failed", "Unavailable"},
   code : {None, "created", "error", "unavailable"},
   order : Creates \cup {None},
   status : Status \cup {None}]

CancelState ==
  [pc : {"idle", "load", "write", "evict", "announce", "done", "dead"},
   order : Creates \cup {None},
   code : {None, "not found", "paid", "invalid", "error", "cancelled"}]

ReadState ==
  [pc : {"idle", "cache", "db", "fill", "done", "dead"},
   order : Creates \cup {None},
   seen : Status \cup {None, "not found"}]

Init ==
  /\ orders = [o \in Creates |-> "Absent"]
  /\ cache = [o \in Creates |-> "Absent"]
  /\ create = [r \in Creates |-> [pc |-> "idle", key |-> None, amount |-> 0, outcome |-> None,
                                  code |-> None, order |-> None, status |-> None]]
  /\ cancel = [x \in Cancels |-> [pc |-> "idle", order |-> None, code |-> None]]
  /\ read = [g \in Reads |-> [pc |-> "idle", order |-> None, seen |-> None]]
  /\ rpc = [o \in Creates |-> "idle"]
  /\ faults \in Environments

-----------------------------------------------------------------------------
(* CreateOrder *)

CreateAt(r, from) == create[r].pc = from
CreateGoto(r, to) == create' = [create EXCEPT ![r].pc = to]

Respond(r, code, o, s) ==
  create' = [create EXCEPT ![r].pc = "done", ![r].code = code, ![r].order = o, ![r].status = s]

(* The order holding an idempotency key is the row a request with that key *)
(* inserted.                                                               *)
Holds(o, k) == orders[o] # "Absent" /\ create[o].key = k

(* The handler has checked the header and the body. *)
PostOrder(r, k, a) ==
  /\ CreateAt(r, "idle")
  /\ create' = [create EXCEPT ![r].pc = "lookup", ![r].key = k, ![r].amount = a]
  /\ UNCHANGED <<orders, cache, cancel, read, rpc, faults>>

(* GetByIdempotencyKey finds an order: it is returned as it stands. *)
LookupHit(r, o) ==
  /\ CreateAt(r, "lookup")
  /\ Holds(o, create[r].key)
  /\ Respond(r, "created", o, orders[o])
  /\ UNCHANGED <<orders, cache, cancel, read, rpc, faults>>

(* No such order, or any error of the query. *)
LookupMiss(r) ==
  /\ CreateAt(r, "lookup")
  /\ "db" \in faults \/ \A o \in Creates : ~Holds(o, create[r].key)
  /\ CreateGoto(r, "insert")
  /\ UNCHANGED <<orders, cache, cancel, read, rpc, faults>>

(* Mutant: idempotency_key is not UNIQUE. *)
InsertWithoutUnique(r) ==
  /\ CreateAt(r, "insert")
  /\ orders' = [orders EXCEPT ![r] = "Pending"]
  /\ CreateGoto(r, "notify")
  /\ UNCHANGED <<cache, cancel, read, rpc, faults>>

(* The row commits; its acknowledgement may be lost, and then the request  *)
(* ends with an error although the order exists.                           *)
Insert(r) ==
  /\ CreateAt(r, "insert")
  /\ \A o \in Creates : ~Holds(o, create[r].key)
  /\ orders' = [orders EXCEPT ![r] = "Pending"]
  /\ \/ CreateGoto(r, "notify")
     \/ "db" \in faults /\ Respond(r, "error", None, None)
  /\ UNCHANGED <<cache, cancel, read, rpc, faults>>

(* Mutant: the error of repo.Create is dropped and payment goes ahead. *)
InsertFailsUnnoticed(r) ==
  /\ CreateAt(r, "insert")
  /\ "db" \in faults \/ \E o \in Creates : Holds(o, create[r].key)
  /\ CreateGoto(r, "authorize")
  /\ UNCHANGED <<orders, cache, cancel, read, rpc, faults>>

(* The UNIQUE idempotency_key refuses the row, or the insert fails. *)
InsertFails(r) ==
  /\ CreateAt(r, "insert")
  /\ "db" \in faults \/ \E o \in Creates : Holds(o, create[r].key)
  /\ Respond(r, "error", None, None)
  /\ UNCHANGED <<orders, cache, cancel, read, rpc, faults>>

(* Mutant: notify waits for room in the channel of a slow subscriber. *)
NotifyPendingWaits(r) ==
  /\ CreateAt(r, "notify")
  /\ UNCHANGED vars

(* notify(order): subscribers are told the order is Pending. *)
NotifyPending(r) ==
  /\ CreateAt(r, "notify")
  /\ CreateGoto(r, "authorize")
  /\ UNCHANGED <<orders, cache, cancel, read, rpc, faults>>

(* AuthorizePayment issues the RPC; it has no deadline of its own. *)
Authorize(r) ==
  /\ CreateAt(r, "authorize")
  /\ rpc' = [rpc EXCEPT ![r] = "sent"]
  /\ CreateGoto(r, "await")
  /\ UNCHANGED <<orders, cache, cancel, read, faults>>

(* The payment service, the network or the client's departure ends the RPC. *)
RpcEnds(o, answer) ==
  /\ rpc[o] = "sent"
  /\ rpc' = [rpc EXCEPT ![o] = answer]
  /\ UNCHANGED <<orders, cache, create, cancel, read, faults>>

(* Mutant: a failed RPC is taken for an authorization. *)
OutcomeOptimistic(answer) == IF answer = "Declined" THEN "Failed" ELSE "Paid"

(* Mutant: the order takes over the status of the payment as it is. *)
OutcomeVerbatim(answer) == IF answer = "Error" THEN "Unavailable" ELSE answer

OutcomeOf(answer) ==
  CASE answer = "Authorized" -> "Paid"
    [] answer = "Declined" -> "Failed"
    [] OTHER -> "Unavailable"

Resume(r) ==
  /\ CreateAt(r, "await")
  /\ rpc[r] \in Answer
  /\ create' = [create EXCEPT ![r].pc = "settle", ![r].outcome = OutcomeOf(rpc[r])]
  /\ UNCHANGED <<orders, cache, cancel, read, rpc, faults>>

(* A request whose payment failed answers 503 and notifies nobody. *)
AfterSettle(r) ==
  IF create[r].outcome = "Unavailable"
  THEN Respond(r, "unavailable", None, None)
  ELSE CreateGoto(r, "announce")

(* Mutant: UpdateStatus is passed order.Status, which is still Pending. *)
SettledPending(r) ==
  [orders EXCEPT ![r] = IF create[r].outcome = "Unavailable" THEN "Failed" ELSE "Pending"]

Settled(r) ==
  [orders EXCEPT ![r] = IF create[r].outcome = "Unavailable" THEN "Failed" ELSE create[r].outcome]

(* Mutant: the error path of CreateOrder leaves the order as it is. *)
SettleOnlyAnswers(r) ==
  /\ CreateAt(r, "settle")
  /\ orders' = IF create[r].outcome = "Unavailable" THEN orders ELSE Settled(r)
  /\ CreateGoto(r, "evict")
  /\ UNCHANGED <<cache, cancel, read, rpc, faults>>

(* Mutant: UpdateStatus is repeated until it reports success. *)
SettleRetries(r) ==
  /\ CreateAt(r, "settle")
  /\ orders' = Settled(r)
  /\ \/ CreateGoto(r, "evict")
     \/ "db" \in faults /\ UNCHANGED create
  /\ UNCHANGED <<cache, cancel, read, rpc, faults>>

(* Mutant: UpdateStatus leaves the cache alone. *)
SettleLeavesCache(r) ==
  /\ CreateAt(r, "settle")
  /\ orders' = Settled(r)
  /\ AfterSettle(r)
  /\ UNCHANGED <<cache, cancel, read, rpc, faults>>

(* UpdateStatus writes the outcome over whatever status the row has.  When *)
(* it reports an error, committed or not, the cache is left alone.         *)
Settle(r) ==
  /\ CreateAt(r, "settle")
  /\ \/ orders' = Settled(r) /\ CreateGoto(r, "evict")
     \/ "db" \in faults /\ orders' \in {orders, Settled(r)} /\ AfterSettle(r)
  /\ UNCHANGED <<cache, cancel, read, rpc, faults>>

(* cache.Delete: a failure of Redis is logged and forgotten. *)
Evict(o) ==
  \/ cache' = [cache EXCEPT ![o] = "Absent"]
  \/ "redis" \in faults /\ UNCHANGED cache

CreateEvict(r) ==
  /\ CreateAt(r, "evict")
  /\ Evict(r)
  /\ AfterSettle(r)
  /\ UNCHANGED <<orders, cancel, read, rpc, faults>>

(* notify(order) with the outcome, then 201 with the outcome in the body,  *)
(* whether or not the row could be updated.                                *)
Announce(r) ==
  /\ CreateAt(r, "announce")
  /\ Respond(r, "created", r, create[r].outcome)
  /\ UNCHANGED <<orders, cache, cancel, read, rpc, faults>>

CreateStep(r) ==
  \/ \E o \in Creates : LookupHit(r, o)
  \/ LookupMiss(r)
  \/ Insert(r)
  \/ InsertFails(r)
  \/ NotifyPending(r)
  \/ Authorize(r)
  \/ Resume(r)
  \/ Settle(r)
  \/ CreateEvict(r)
  \/ Announce(r)

-----------------------------------------------------------------------------
(* CancelOrder *)

CancelAt(x, from) == cancel[x].pc = from
CancelGoto(x, to) == cancel' = [cancel EXCEPT ![x].pc = to]
CancelRespond(x, code) == cancel' = [cancel EXCEPT ![x].pc = "done", ![x].code = code]

PatchCancel(x, o) ==
  /\ CancelAt(x, "idle")
  /\ cancel' = [cancel EXCEPT ![x].pc = "load", ![x].order = o]
  /\ UNCHANGED <<orders, cache, create, read, rpc, faults>>

(* GetByID finds no row, or fails in any other way. *)
CancelLoadFails(x) ==
  /\ CancelAt(x, "load")
  /\ "db" \in faults \/ orders[cancel[x].order] = "Absent"
  /\ CancelRespond(x, "not found")
  /\ UNCHANGED <<orders, cache, create, read, rpc, faults>>

(* Only an order read as Pending goes on to be cancelled. *)
CancelLoad(x) ==
  LET s == orders[cancel[x].order] IN
  /\ CancelAt(x, "load")
  /\ s \in Status
  /\ CASE s = "Pending" -> CancelGoto(x, "write")
       [] s = "Paid" -> CancelRespond(x, "paid")
       [] OTHER -> CancelRespond(x, "invalid")
  /\ UNCHANGED <<orders, cache, create, read, rpc, faults>>

(* UpdateStatus writes Cancelled over whatever status the row has by now. *)
CancelWrite(x) ==
  LET cancelled == [orders EXCEPT ![cancel[x].order] = "Cancelled"] IN
  /\ CancelAt(x, "write")
  /\ \/ orders' = cancelled /\ CancelGoto(x, "evict")
     \/ "db" \in faults /\ orders' \in {orders, cancelled} /\ CancelRespond(x, "error")
  /\ UNCHANGED <<cache, create, read, rpc, faults>>

CancelEvict(x) ==
  /\ CancelAt(x, "evict")
  /\ Evict(cancel[x].order)
  /\ CancelGoto(x, "announce")
  /\ UNCHANGED <<orders, create, read, rpc, faults>>

(* notify(order), then 200. *)
CancelAnnounce(x) ==
  /\ CancelAt(x, "announce")
  /\ CancelRespond(x, "cancelled")
  /\ UNCHANGED <<orders, cache, create, read, rpc, faults>>

CancelStep(x) ==
  \/ CancelLoadFails(x)
  \/ CancelLoad(x)
  \/ CancelWrite(x)
  \/ CancelEvict(x)
  \/ CancelAnnounce(x)

-----------------------------------------------------------------------------
(* GetOrder, cache-aside *)

ReadAt(g, from) == read[g].pc = from
ReadGoto(g, to) == read' = [read EXCEPT ![g].pc = to]
ReadReturn(g, s) == read' = [read EXCEPT ![g].pc = "done", ![g].seen = s]

StartRead(g, o) ==
  /\ ReadAt(g, "idle")
  /\ read' = [read EXCEPT ![g].pc = "cache", ![g].order = o]
  /\ UNCHANGED <<orders, cache, create, cancel, rpc, faults>>

CacheHit(g) ==
  /\ ReadAt(g, "cache")
  /\ cache[read[g].order] \in Status
  /\ ReadReturn(g, cache[read[g].order])
  /\ UNCHANGED <<orders, cache, create, cancel, rpc, faults>>

(* redis.Nil, or any error of Redis: both count as a miss. *)
CacheMiss(g) ==
  /\ ReadAt(g, "cache")
  /\ "redis" \in faults \/ cache[read[g].order] = "Absent"
  /\ ReadGoto(g, "db")
  /\ UNCHANGED <<orders, cache, create, cancel, rpc, faults>>

LoadRow(g) ==
  /\ ReadAt(g, "db")
  /\ orders[read[g].order] \in Status
  /\ read' = [read EXCEPT ![g].pc = "fill", ![g].seen = orders[read[g].order]]
  /\ UNCHANGED <<orders, cache, create, cancel, rpc, faults>>

LoadFails(g) ==
  /\ ReadAt(g, "db")
  /\ "db" \in faults \/ orders[read[g].order] = "Absent"
  /\ ReadReturn(g, "not found")
  /\ UNCHANGED <<orders, cache, create, cancel, rpc, faults>>

(* cache.Set with what the query returned; a failure of Redis is ignored,  *)
(* and the client repeats a Set whose answer it did not get.               *)
FillCache(g) ==
  LET filled == [cache EXCEPT ![read[g].order] = read[g].seen] IN
  /\ ReadAt(g, "fill")
  /\ \/ cache' = filled /\ ReadGoto(g, "done")
     \/ "redis" \in faults /\ UNCHANGED cache /\ ReadGoto(g, "done")
     \/ "redis" \in faults /\ cache' = filled /\ UNCHANGED read
  /\ UNCHANGED <<orders, create, cancel, rpc, faults>>

ReadStep(g) ==
  \/ CacheHit(g)
  \/ CacheMiss(g)
  \/ LoadRow(g)
  \/ LoadFails(g)
  \/ FillCache(g)

(* The TTL the entry was set with runs out, or a Delete is repeated. *)
CacheExpires(o) ==
  /\ cache[o] # "Absent"
  /\ cache' = [cache EXCEPT ![o] = "Absent"]
  /\ UNCHANGED <<orders, create, cancel, read, rpc, faults>>

-----------------------------------------------------------------------------
(* A request ends for good when it is answered or its process dies. *)
Over == {"done", "dead"}

Killed(req) == IF req.pc \in Over \cup {"idle"} THEN req ELSE [req EXCEPT !.pc = "dead"]

(* The process crashes and is started again: the requests it was serving   *)
(* are gone, the table and Redis are not.                                  *)
Crash ==
  /\ "crash" \in faults
  /\ create' = [r \in Creates |-> Killed(create[r])]
  /\ cancel' = [x \in Cancels |-> Killed(cancel[x])]
  /\ read' = [g \in Reads |-> Killed(read[g])]
  /\ UNCHANGED <<orders, cache, rpc, faults>>

AllAt(pcs) ==
  /\ \A r \in Creates : create[r].pc \in pcs
  /\ \A x \in Cancels : cancel[x].pc \in pcs
  /\ \A g \in Reads : read[g].pc \in pcs

(* Every request of the instance has been served: nothing is left to do. *)
Finished == AllAt(Over) /\ UNCHANGED vars

Next ==
  \/ \E r \in Creates, k \in Keys, a \in Amounts : PostOrder(r, k, a)
  \/ \E r \in Creates : CreateStep(r)
  \/ \E o \in Creates, answer \in Answer : RpcEnds(o, answer)
  \/ \E x \in Cancels, o \in Creates : PatchCancel(x, o)
  \/ \E x \in Cancels : CancelStep(x)
  \/ \E g \in Reads, o \in Creates : StartRead(g, o)
  \/ \E g \in Reads : ReadStep(g)
  \/ \E o \in Creates : CacheExpires(o)
  \/ Crash
  \/ Finished

Spec == Init /\ [][Next]_vars

-----------------------------------------------------------------------------
(* Type correctness of the table, the cache, the requests and the RPCs. *)
TypeOK ==
  /\ orders \in [Creates -> Status \cup {"Absent"}]
  /\ cache \in [Creates -> Status \cup {"Absent"}]
  /\ create \in [Creates -> CreateState]
  /\ cancel \in [Cancels -> CancelState]
  /\ read \in [Reads -> ReadState]
  /\ rpc \in [Creates -> Answer \cup {"idle", "sent"}]
  /\ faults \in Environments

(* Concurrent POSTs with one Idempotency-Key never make two orders, even   *)
(* when all of them look the key up before any of them inserts.            *)
OneOrderPerKey ==
  \A o, p \in Creates : \A k \in Keys : Holds(o, k) /\ Holds(p, k) => o = p

(* ... nor two payment calls: a key is charged for at most once, whatever  *)
(* fails and whoever retries.                                              *)
OneChargePerKey ==
  \A r, s \in Creates :
    rpc[r] # "idle" /\ rpc[s] # "idle" /\ create[r].key = create[s].key => r = s

(* Two clients that POST with one key and are both answered 201 are given  *)
(* the same order, of that key.                                            *)
RepliesAgreeOnOrder ==
  \A r, s \in Creates :
    create[r].code = "created" /\ create[s].code = "created" /\ create[r].key = create[s].key
      => create[r].order = create[s].order

(* Wherever an order shows as Paid - row, cache, a read, a reply - its     *)
(* payment RPC came back Authorized.                                       *)
PaidIsBacked ==
  /\ \A o \in Creates : "Paid" \in {orders[o], cache[o]} => rpc[o] = "Authorized"
  /\ \A r \in Creates : create[r].status = "Paid" => rpc[create[r].order] = "Authorized"
  /\ \A g \in Reads : read[g].seen = "Paid" => rpc[read[g].order] = "Authorized"

(* With a database that answers and a process that stays up, a request     *)
(* answered 201 for its own order leaves the row at the outcome it was     *)
(* given, unless a cancellation wrote over it.                             *)
ReplyMatchesRow ==
  faults \cap {"db", "crash"} = {} =>
    \A r \in Creates :
      create[r].code = "created" /\ create[r].order = r
        => orders[r] \in {create[r].status, "Cancelled"}

(* An order does not stay Pending: the outcome of its payment, or a        *)
(* cancellation, reaches the row.                                          *)
PendingEnds == \A o \in Creates : orders[o] = "Pending" ~> orders[o] \in Terminal

(* Every POST is answered. *)
CreatesAnswered == \A r \in Creates : create[r].pc = "lookup" ~> create[r].pc = "done"

(* The cache holds a status that the row no longer has, and no request has *)
(* a Delete of it still to come: only its TTL will end it.                 *)
Stale(o) == cache[o] \notin {"Absent", orders[o]}

DeleteDue(o) ==
  \/ CreateAt(o, "evict")
  \/ \E x \in Cancels : CancelAt(x, "evict") /\ cancel[x].order = o

LeftStale(o) == Stale(o) /\ ~DeleteDue(o)

FillsStale(g, o) ==
  /\ ReadAt(g, "fill") /\ read[g].order = o
  /\ cache'[o] = read[g].seen /\ read[g].seen # orders[o]

(* Every write of a status is followed by a Delete that makes the cache    *)
(* forget the old one, also when two requests write and delete in turns.   *)
(* A cached status is left stale only by a reader that fills in what it    *)
(* loaded before the write, by a Delete that Redis or a crash prevents, or *)
(* by an UpdateStatus that committed and reported an error.                *)
DeletedOnWrite ==
  [][\A o \in Creates :
       LeftStale(o)' /\ ~LeftStale(o) =>
         \/ \E g \in Reads : FillsStale(g, o)
         \/ faults \cap {"redis", "crash"} # {} /\ DeleteDue(o)
         \/ "db" \in faults /\ orders'[o] # orders[o]]_vars

(* ErrCannotCancelPaid: a paid order does not become a cancelled one. *)
PaidNeverCancelled ==
  [][\A o \in Creates : orders[o] = "Paid" => orders'[o] # "Cancelled"]_vars

(* The status column follows the life cycle; an outcome is decided once    *)
(* its one UpdateStatus is behind the request, or died with it.            *)
Lifecycle == INSTANCE OrderLifecycle WITH
               Orders <- Creates,
               status <- orders,
               decided <- {o \in Creates : create[o].outcome # None /\ create[o].pc # "settle"}

LifecycleSpec == Lifecycle!Spec
=============================================================================
