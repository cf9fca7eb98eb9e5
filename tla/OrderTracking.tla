--------------------------- MODULE OrderTracking ---------------------------
(***************************************************************************)
(* Order tracking: the gRPC streams of SubscribeToOrderUpdates, the map of *)
(* subscribers with one channel of capacity one per stream, and notify, in *)
(* the company of the order service, whose requests announce the changes.  *)
(*                                                                         *)
(* What CreateOrder hands to notify is a pointer to the Order it goes on   *)
(* to write, without a lock: a channel may hold the pointer ("object"),    *)
(* and a read during the write finds neither the old nor the new status.   *)
(* The other orders in a channel are copies nobody writes any more.        *)
(***************************************************************************)
EXTENDS Naturals

CONSTANTS Creates, Cancels, Keys, Amounts,   \* as in OrderService
          Streams,      \* calls of SubscribeToOrderUpdates
          Environments  \* as in OrderService; also "leave", clients hang up

VARIABLES orders, cache, create, cancel, read, rpc, faults,
          object,   \* Status of the Order in the memory of each create request
          subs,     \* the streams whose channel is in u.subscribers
          slot,     \* what the channel of each stream holds
          stream    \* the state of each stream handler

(* Each handler calls GetOrder twice: for itself, then in SubscribeToOrder. *)
Lookups == Streams \X {"first", "current"}
First(s) == <<s, "first">>
Current(s) == <<s, "current">>

Ord == INSTANCE OrderService WITH Reads <- Lookups

ASSUME TrackingAssumption == Ord!OrderAssumption

orderVars == <<orders, cache, create, cancel, read, rpc, faults>>
vars == <<orderVars, object, subs, slot, stream>>

Torn == "torn"
Unspecified == "Unspecified"

StreamState ==
  [pc : {"idle", "lookup", "subscribe", "loop", "tell", "check", "over"},
   order : Creates \cup {Ord!None},
   held : Ord!Status \cup {"object", Ord!None},
   told : Ord!Status \cup {Unspecified, Ord!None},
   end : {Ord!None, "not found", "terminal", "left", "crashed"}]

Init ==
  /\ Ord!Init
  /\ object = [o \in Creates |-> "Pending"]
  /\ subs = {}
  /\ slot = [s \in Streams |-> "empty"]
  /\ stream = [s \in Streams |-> [pc |-> "idle", order |-> Ord!None, held |-> Ord!None,
                                  told |-> Ord!None, end |-> Ord!None]]

-----------------------------------------------------------------------------
(* notify, under the read lock: a channel that is full misses the update. *)
Notify(o, content) ==
  slot' = [s \in Streams |->
    IF s \in subs /\ stream[s].order = o /\ slot[s] = "empty" THEN content ELSE slot[s]]

(* The order service, with what its requests do to objects and channels.   *)
AnnouncePending(r) ==
  /\ Ord!NotifyPending(r)
  /\ Notify(r, "object")
  /\ UNCHANGED <<object, subs, stream>>

(* order.Status = newStatus: the two words of a string. *)
Assign(r) ==
  /\ create[r].pc = "announce"
  /\ \/ object[r] = "Pending" /\ object' = [object EXCEPT ![r] = Torn]
     \/ object[r] = Torn /\ object' = [object EXCEPT ![r] = create[r].outcome]
  /\ UNCHANGED <<orderVars, subs, slot, stream>>

AnnounceOutcome(r) ==
  /\ object[r] = create[r].outcome
  /\ Ord!Announce(r)
  /\ Notify(r, "object")
  /\ UNCHANGED <<object, subs, stream>>

AnnounceCancelled(x) ==
  /\ Ord!CancelAnnounce(x)
  /\ Notify(cancel[x].order, "Cancelled")
  /\ UNCHANGED <<object, subs, stream>>

QuietStep ==
  /\ \/ \E r \in Creates, k \in Keys, a \in Amounts : Ord!PostOrder(r, k, a)
     \/ \E r \in Creates : create[r].pc \notin {"notify", "announce"} /\ Ord!CreateStep(r)
     \/ \E o \in Creates, answer \in Ord!Answer : Ord!RpcEnds(o, answer)
     \/ \E x \in Cancels, o \in Creates : Ord!PatchCancel(x, o)
     \/ \E x \in Cancels : cancel[x].pc # "announce" /\ Ord!CancelStep(x)
     \/ \E g \in Lookups : Ord!ReadStep(g)
     \/ \E o \in Creates : Ord!CacheExpires(o)
  /\ UNCHANGED <<object, subs, slot, stream>>

-----------------------------------------------------------------------------
(* SubscribeToOrderUpdates *)

At(s, pc) == stream[s].pc = pc
Goto(s, pc) == stream' = [stream EXCEPT ![s].pc = pc]

OpenStream(s, o) ==
  /\ At(s, "idle")
  /\ stream' = [stream EXCEPT ![s].pc = "lookup", ![s].order = o]
  /\ Ord!StartRead(First(s), o)
  /\ UNCHANGED <<object, subs, slot>>

NotFound(s) ==
  /\ At(s, "lookup")
  /\ read[First(s)].pc = "done"
  /\ read[First(s)].seen = "not found"
  /\ stream' = [stream EXCEPT ![s].pc = "over", ![s].end = "not found"]
  /\ UNCHANGED <<orderVars, object, subs, slot>>

(* The channel is registered first, then the order is looked up again. *)
Register(s) ==
  /\ At(s, "lookup")
  /\ read[First(s)].pc = "done"
  /\ read[First(s)].seen \in Ord!Status
  /\ subs' = subs \cup {s}
  /\ Goto(s, "subscribe")
  /\ Ord!StartRead(Current(s), stream[s].order)
  /\ UNCHANGED <<object, slot>>

(* ch <- order waits for room, but its only reader is the handler itself:  *)
(* after an update that came first it waits for ever.                      *)
PushCurrent(s) ==
  /\ At(s, "subscribe")
  /\ read[Current(s)].pc = "done"
  /\ \/ /\ read[Current(s)].seen \in Ord!Status
        /\ slot[s] = "empty"
        /\ slot' = [slot EXCEPT ![s] = read[Current(s)].seen]
     \/ read[Current(s)].seen = "not found" /\ UNCHANGED slot
  /\ Goto(s, "loop")
  /\ UNCHANGED <<orderVars, object, subs>>

Receive(s) ==
  /\ At(s, "loop")
  /\ slot[s] # "empty"
  /\ stream' = [stream EXCEPT ![s].pc = "tell", ![s].held = slot[s]]
  /\ slot' = [slot EXCEPT ![s] = "empty"]
  /\ UNCHANGED <<orderVars, object, subs>>

(* order.Status, as it reads at this moment. *)
StatusNow(s, content) == IF content = "object" THEN object[stream[s].order] ELSE content

(* Mutant: the switch has no default. *)
PbStatusVerbatim(v) == v

PbStatus(v) == IF v \in Ord!Status THEN v ELSE Unspecified

Tell(s) ==
  /\ At(s, "tell")
  /\ stream' = [stream EXCEPT ![s].pc = "check",
                              ![s].told = PbStatus(StatusNow(s, stream[s].held))]
  /\ UNCHANGED <<orderVars, object, subs, slot>>

(* Mutant: cleanup closes the channel and leaves it in the map. *)
SubsWithoutStays(s) == subs

SubsWithout(s) == subs \ {s}

(* A return, with the deferred cleanup: unregister and close, under the lock. *)
EndStream(s, end) ==
  /\ stream' = [stream EXCEPT ![s].pc = "over", ![s].end = end]
  /\ subs' = SubsWithout(s)
  /\ slot' = [slot EXCEPT ![s] = "closed"]
  /\ UNCHANGED <<orderVars, object>>

(* Mutants: only Paid ends a stream; anything but Pending does. *)
EndsAtPaid(v) == v = "Paid"
EndsUnlessPending(v) == v # "Pending"

Ends(v) == v \in {"Paid", "Failed", "Cancelled"}

(* The status is read a second time: the object may have changed. *)
CheckTerminal(s) ==
  /\ At(s, "check")
  /\ Ends(StatusNow(s, stream[s].held))
  /\ EndStream(s, "terminal")

CheckGoesOn(s) ==
  /\ At(s, "check")
  /\ ~Ends(StatusNow(s, stream[s].held))
  /\ Goto(s, "loop")
  /\ UNCHANGED <<orderVars, object, subs, slot>>

(* The client hangs up: the loop sees the context done, or Send fails. *)
ClientLeaves(s) ==
  /\ "leave" \in faults
  /\ At(s, "loop") \/ At(s, "tell")
  /\ EndStream(s, "left")

StreamStep(s) ==
  \/ NotFound(s)
  \/ Register(s)
  \/ PushCurrent(s)
  \/ Receive(s)
  \/ Tell(s)
  \/ CheckTerminal(s)
  \/ CheckGoesOn(s)

(* The process crashes: streams, channels and the map go with it. *)
Crash ==
  /\ Ord!Crash
  /\ stream' = [s \in Streams |->
       IF At(s, "idle") \/ At(s, "over") THEN stream[s]
       ELSE [stream[s] EXCEPT !.pc = "over", !.end = "crashed"]]
  /\ subs' = {}
  /\ slot' = [s \in Streams |-> IF At(s, "idle") THEN slot[s] ELSE "closed"]
  /\ UNCHANGED object

(* Every request is served and no stream can go on by itself: its client   *)
(* is left waiting.                                                        *)
Finished ==
  /\ \A r \in Creates : create[r].pc \in Ord!Over
  /\ \A x \in Cancels : cancel[x].pc \in Ord!Over
  /\ \A s \in Streams : ~At(s, "idle")
  /\ UNCHANGED vars

Next ==
  \/ QuietStep
  \/ \E r \in Creates : AnnouncePending(r) \/ Assign(r) \/ AnnounceOutcome(r)
  \/ \E x \in Cancels : AnnounceCancelled(x)
  \/ \E s \in Streams, o \in Creates : OpenStream(s, o)
  \/ \E s \in Streams : StreamStep(s) \/ ClientLeaves(s)
  \/ Crash
  \/ Finished

Spec == Init /\ [][Next]_vars

(* Every handler is a goroutine of its own; requests in hand go on. *)
Fairness ==
  /\ \A r \in Creates :
       /\ WF_vars(AnnouncePending(r) \/ Assign(r) \/ AnnounceOutcome(r))
       /\ WF_vars(create[r].pc \notin {"notify", "announce"} /\ Ord!CreateStep(r)
                    /\ UNCHANGED <<object, subs, slot, stream>>)
  /\ \A g \in Lookups : WF_vars(Ord!ReadStep(g) /\ UNCHANGED <<object, subs, slot, stream>>)
  /\ \A s \in Streams : WF_vars(StreamStep(s))

FairSpec == Spec /\ Fairness

-----------------------------------------------------------------------------
(* Type correctness of the objects, the channels and the streams. *)
TypeOK ==
  /\ object \in [Creates -> Ord!Status \cup {Torn}]
  /\ subs \subseteq Streams
  /\ slot \in [Streams -> Ord!Status \cup {"empty", "object", "closed"}]
  /\ stream \in [Streams -> StreamState]

(* notify never meets a closed channel, on which a send would panic, with  *)
(* cleanups, hang-ups and notifications in any order.                      *)
SubscribersOpen == \A s \in subs : slot[s] # "closed"

(* No client is shown a payment that was not made, or a cancellation that  *)
(* nobody has asked for, by whichever way - copy, cache or shared object - *)
(* the status came.                                                        *)
ToldIsTrue ==
  \A s \in Streams :
    /\ stream[s].told = "Paid" => rpc[stream[s].order] = "Authorized"
    /\ stream[s].told = "Cancelled" => \E x \in Cancels : cancel[x].order = stream[s].order

(* A stream that closes cleanly was on an order whose outcome is decided,  *)
(* in the table or in the request that decides it, although the handler    *)
(* reads the status twice while it may be being written.                   *)
EndsDecided ==
  \A s \in Streams :
    stream[s].end = "terminal" =>
      \E v \in {orders[stream[s].order], object[stream[s].order]} : v \in Ord!Terminal

(* A client that was told a terminal status is told nothing after it.      *)
NothingAfterTerminal ==
  [][\A s \in Streams : stream[s].told \in Ord!Terminal => stream'[s].told = stream[s].told]_vars

(* A terminal status that has reached the channel of a stream in its loop  *)
(* ends the stream.                                                        *)
DeliveredIsTold ==
  \A s \in Streams :
    At(s, "loop") /\ StatusNow(s, slot[s]) \in Ord!Terminal ~> At(s, "over")

(* order_handler.go: "If the order reached a terminal state, we should     *)
(* cleanly terminate the stream".                                          *)
StreamsEnd ==
  \A s \in Streams, o \in Creates :
    s \in subs /\ stream[s].order = o /\ orders[o] \in Ord!Terminal ~> At(s, "over")
=============================================================================
