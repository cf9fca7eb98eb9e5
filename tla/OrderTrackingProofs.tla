------------------------- MODULE OrderTrackingProofs -------------------------
(***************************************************************************)
(* Proofs about order tracking, for any streams, requests and failures: its *)
(* type invariant, that the map of subscribers holds open channels only,   *)
(* that what a client is told is true and what ends a stream is decided,   *)
(* that nothing is told after a terminal status, and that the order service *)
(* underneath still is what its own module specifies.                      *)
(*                                                                         *)
(* What is proved of the order service alone is taken over; what is added  *)
(* is how the channels and the streams follow the rows they tell of.       *)
(***************************************************************************)
EXTENDS OrderTracking, TLAPS

OrdP == INSTANCE OrderServiceProofs WITH Reads <- Lookups

-----------------------------------------------------------------------------
(* The inductive invariant *)

(* The Order in the memory of a request ends at the outcome it was given. *)
ObjectsFollow ==
  \A o \in Creates :
    /\ object[o] \in {"Pending", Torn, "Paid", "Failed"}
    /\ object[o] = "Paid" => rpc[o] = "Authorized"

(* A stream is subscribed from Register to its return, with a channel that *)
(* is open meanwhile.                                                      *)
Placed(s) ==
  LET pc == stream[s].pc IN
  /\ s \in subs <=> pc \in {"subscribe", "loop", "tell", "check"}
  /\ s \in subs => slot[s] # "closed"
  /\ pc \in {"idle", "lookup"} => slot[s] = "empty"
  /\ pc # "idle" => stream[s].order \in Creates
  /\ pc = "idle" => stream[s].held = Ord!None /\ stream[s].told = Ord!None /\ stream[s].end = Ord!None
  /\ pc \in {"tell", "check"} => stream[s].held \in Ord!Status \cup {"object"}
  /\ pc = "subscribe" =>
       read[Current(s)].pc # "idle" /\ read[Current(s)].order = stream[s].order

(* Showing v as the status of order o is no lie. *)
Backed(o, v) ==
  /\ v = "Paid" => rpc[o] = "Authorized"
  /\ v = "Cancelled" => OrdP!AskedFor(o)

(* A copy is backed; one with a terminal status has a terminal row behind *)
(* it.  What was told may also have come from the object.                 *)
Truthful(s) ==
  /\ \A v \in {slot[s], stream[s].held, stream[s].told} : Backed(stream[s].order, v)
  /\ \A v \in {slot[s], stream[s].held} :
       v \in Ord!Terminal => orders[stream[s].order] \in Ord!Terminal

(* A stream that told a terminal status is about to see that it ends: the  *)
(* second reading finds a terminal status as well.                         *)
ToldLast(s) ==
  stream[s].told \in Ord!Terminal =>
    /\ stream[s].pc \in {"check", "over"}
    /\ stream[s].pc = "check" => StatusNow(s, stream[s].held) \in Ord!Terminal

Ended(s) ==
  stream[s].end = "terminal" =>
    \E v \in {orders[stream[s].order], object[stream[s].order]} : v \in Ord!Terminal

StreamOK(s) == Placed(s) /\ Truthful(s) /\ ToldLast(s) /\ Ended(s)

TInv ==
  /\ OrdP!IInv
  /\ OrdP!RecordInv
  /\ TypeOK
  /\ ObjectsFollow
  /\ \A s \in Streams : StreamOK(s)

-----------------------------------------------------------------------------
(* The order service underneath *)

(* Both ways to the module, with and without its proofs, lead to the same  *)
(* actions.                                                                *)
LEMMA SameNext == [Ord!Next]_(Ord!vars) => [OrdP!Next]_(OrdP!vars)
BY DEF Ord!vars, OrdP!vars, Ord!Status, OrdP!Status, Ord!Terminal, OrdP!Terminal,
      Ord!Answer, OrdP!Answer, Ord!None, OrdP!None, Ord!Init, OrdP!Init, Ord!CreateAt,
      OrdP!CreateAt, Ord!CreateGoto, OrdP!CreateGoto, Ord!Respond, OrdP!Respond,
      Ord!Holds, OrdP!Holds, Ord!PostOrder, OrdP!PostOrder, Ord!LookupHit, OrdP!LookupHit,
      Ord!LookupMiss, OrdP!LookupMiss, Ord!Insert, OrdP!Insert, Ord!InsertFails,
      OrdP!InsertFails, Ord!NotifyPending, OrdP!NotifyPending, Ord!Authorize,
      OrdP!Authorize, Ord!RpcEnds, OrdP!RpcEnds, Ord!OutcomeOf, OrdP!OutcomeOf,
      Ord!Resume, OrdP!Resume, Ord!AfterSettle, OrdP!AfterSettle, Ord!Settled,
      OrdP!Settled, Ord!Settle, OrdP!Settle, Ord!Evict, OrdP!Evict, Ord!CreateEvict,
      OrdP!CreateEvict, Ord!Announce, OrdP!Announce, Ord!CreateStep, OrdP!CreateStep,
      Ord!CancelAt, OrdP!CancelAt, Ord!CancelGoto, OrdP!CancelGoto, Ord!CancelRespond,
      OrdP!CancelRespond, Ord!PatchCancel, OrdP!PatchCancel, Ord!CancelLoadFails,
      OrdP!CancelLoadFails, Ord!CancelLoad, OrdP!CancelLoad, Ord!CancelWrite,
      OrdP!CancelWrite, Ord!CancelEvict, OrdP!CancelEvict, Ord!CancelAnnounce,
      OrdP!CancelAnnounce, Ord!CancelStep, OrdP!CancelStep, Ord!ReadAt, OrdP!ReadAt,
      Ord!ReadGoto, OrdP!ReadGoto, Ord!ReadReturn, OrdP!ReadReturn, Ord!StartRead,
      OrdP!StartRead, Ord!CacheHit, OrdP!CacheHit, Ord!CacheMiss, OrdP!CacheMiss,
      Ord!LoadRow, OrdP!LoadRow, Ord!LoadFails, OrdP!LoadFails, Ord!FillCache,
      OrdP!FillCache, Ord!ReadStep, OrdP!ReadStep, Ord!CacheExpires, OrdP!CacheExpires,
      Ord!Over, OrdP!Over, Ord!Killed, OrdP!Killed, Ord!Crash, OrdP!Crash, Ord!AllAt,
      OrdP!AllAt, Ord!Finished, OrdP!Finished, Ord!Next, OrdP!Next

LEMMA SameInit == Ord!Init => OrdP!Init
BY DEF Ord!Init, OrdP!Init, Ord!None, OrdP!None

LEMMA SameWords ==
  /\ Ord!Status = OrdP!Status /\ Ord!Terminal = OrdP!Terminal /\ Ord!None = OrdP!None
  /\ Ord!Status = {"Pending", "Paid", "Failed", "Cancelled"}
  /\ Ord!Terminal = {"Paid", "Failed", "Cancelled"}
  /\ Ord!None = "none"
BY DEF Ord!Status, OrdP!Status, Ord!Terminal, OrdP!Terminal, Ord!None, OrdP!None

LEMMA OrdersTyped ==
  ASSUME TInv
  PROVE  /\ read \in [Lookups -> OrdP!ReadState]
         /\ \A s \in Streams : First(s) \in Lookups /\ Current(s) \in Lookups /\ First(s) # Current(s)
BY DEF TInv, OrdP!IInv, OrdP!TypeOK, First, Current, Lookups

(* Each step here is a step of the order service, or nothing to it. *)
LEMMA OrderPart ==
  ASSUME TInv, [Next]_vars
  PROVE  [Ord!Next]_(Ord!vars)
<1>1. CASE QuietStep
  BY <1>1 DEF QuietStep, Ord!Next
<1>2. ASSUME NEW r \in Creates, AnnouncePending(r) \/ Assign(r) \/ AnnounceOutcome(r)
      PROVE  [Ord!Next]_(Ord!vars)
  <2>1. Ord!CreateStep(r) \/ UNCHANGED Ord!vars
    BY <1>2 DEF AnnouncePending, Assign, AnnounceOutcome, Ord!CreateStep, orderVars, Ord!vars
  <2>. QED  BY <2>1 DEF Ord!Next
<1>3. ASSUME NEW x \in Cancels, AnnounceCancelled(x)
      PROVE  [Ord!Next]_(Ord!vars)
  <2>1. Ord!CancelStep(x)
    BY <1>3 DEF AnnounceCancelled, Ord!CancelStep
  <2>. QED  BY <2>1 DEF Ord!Next
<1>4. ASSUME NEW s \in Streams, NEW o \in Creates, OpenStream(s, o)
      PROVE  [Ord!Next]_(Ord!vars)
  BY <1>4, OrdersTyped DEF OpenStream, Ord!Next
<1>5. ASSUME NEW s \in Streams, StreamStep(s) \/ ClientLeaves(s)
      PROVE  [Ord!Next]_(Ord!vars)
  <2>1. CASE Register(s)
    <3>1. stream[s].order \in Creates
      BY <2>1 DEF Register, At, TInv, StreamOK, Placed
    <3>. QED  BY <2>1, <3>1, OrdersTyped DEF Register, Ord!Next
  <2>2. CASE ~Register(s)
    <3>1. UNCHANGED orderVars
      BY <1>5, <2>2 DEF StreamStep, NotFound, PushCurrent, Receive, Tell, CheckTerminal, CheckGoesOn,
         ClientLeaves, EndStream
    <3>. QED  BY <3>1 DEF orderVars, Ord!vars
  <2>. QED  BY <2>1, <2>2
<1>6. CASE Crash
  BY <1>6 DEF Crash, Ord!Next
<1>7. CASE UNCHANGED vars
  BY <1>7 DEF vars, orderVars, Ord!vars
<1>. QED  BY <1>1, <1>2, <1>3, <1>4, <1>5, <1>6, <1>7 DEF Next, Finished

(* What the proofs of the order service give of a step. *)
Carried ==
  /\ OrdP!Moves
  /\ OrdP!Abiding
  /\ OrdP!IInv'
  /\ OrdP!RecordInv'

LEMMA OrderCarries ==
  ASSUME TInv, [Next]_vars
  PROVE  Carried
<1>1. [OrdP!Next]_(OrdP!vars)
  BY OrderPart, SameNext
<1>2. OrdP!OrderAssumption
  BY TrackingAssumption DEF Ord!OrderAssumption, OrdP!OrderAssumption
<1>3. OrdP!IInv'
  BY <1>1, <1>2, OrdP!InductiveStep DEF TInv
<1>4. OrdP!RecordInv' /\ OrdP!Moves /\ OrdP!Abiding
  BY <1>1, <1>2, OrdP!RecordInductive DEF TInv
<1>. QED  BY <1>3, <1>4 DEF Carried

-----------------------------------------------------------------------------
(* What a step leaves alone *)

LEMMA BackedStays ==
  ASSUME Carried, NEW o \in Creates, NEW v, Backed(o, v)
  PROVE  /\ v = "Paid" => rpc'[o] = "Authorized"
         /\ v = "Cancelled" => OrdP!AskedFor(o)'
BY DEF Carried, OrdP!Abiding, Backed

(* A stream that a step does not touch, whose object keeps a terminal      *)
(* status if it has one, is as well off after the step.                    *)
LEMMA Untouched ==
  ASSUME TInv, Carried, NEW s \in Streams,
         stream'[s] = stream[s], slot'[s] = slot[s], s \in subs' <=> s \in subs,
         \A o \in Creates : object[o] \in Ord!Terminal => object'[o] \in Ord!Terminal
  PROVE  StreamOK(s)'
<1>. DEFINE o == stream[s].order
<1>1. StreamOK(s)
  BY DEF TInv
<1>2. Placed(s)'
  <2>1. Current(s) \in Lookups
    BY OrdersTyped
  <2>2. stream[s].pc = "subscribe" =>
          read'[Current(s)].pc # "idle" /\ read'[Current(s)].order = o
    BY <1>1, <2>1 DEF StreamOK, Placed, Carried, OrdP!Moves
  <2>. QED  BY <1>1, <2>2 DEF StreamOK, Placed, Current
<1>3. CASE stream[s].pc = "idle"
  BY <1>1, <1>2, <1>3, SameWords DEF StreamOK, Placed, Truthful, ToldLast, Ended, Backed
<1>4. CASE o \in Creates
  <2>1. orders[o] \in Ord!Terminal => orders'[o] \in Ord!Terminal
    BY <1>4, SameWords DEF Carried, OrdP!Abiding
  <2>2. Truthful(s)'
    <3>1. ASSUME NEW v \in {slot[s], stream[s].held, stream[s].told}
          PROVE  /\ v = "Paid" => rpc'[o] = "Authorized"
                 /\ v = "Cancelled" => OrdP!AskedFor(o)'
      BY <1>1, <1>4, BackedStays DEF StreamOK, Truthful
    <3>2. OrdP!AskedFor(o)' <=> OrdP!AskedFor(stream[s].order)'
      BY DEF OrdP!AskedFor
    <3>3. \A v \in {slot'[s], stream'[s].held, stream'[s].told} : Backed(stream[s].order, v)'
      BY <3>1, <3>2 DEF Backed
    <3>. QED  BY <1>1, <2>1, <3>3 DEF StreamOK, Truthful
  <2>3. ToldLast(s)'
    BY <1>1, <1>4 DEF StreamOK, ToldLast, StatusNow
  <2>4. Ended(s)'
    BY <1>1, <1>4, <2>1 DEF StreamOK, Ended
  <2>. QED  BY <1>2, <2>2, <2>3, <2>4 DEF StreamOK
<1>. QED  BY <1>1, <1>3, <1>4 DEF StreamOK, Placed

LEMMA ObjectsStay ==
  ASSUME TInv, Carried, object' = object
  PROVE  ObjectsFollow'
BY DEF TInv, ObjectsFollow, Carried, OrdP!Abiding

(* A step of stream s need only be looked at there. *)
LEMMA OneStream ==
  ASSUME TInv, Carried, NEW s \in Streams, object' = object, TypeOK', StreamOK(s)',
         \A t \in Streams : t # s =>
           stream'[t] = stream[t] /\ slot'[t] = slot[t] /\ (t \in subs' <=> t \in subs)
  PROVE  TInv'
<1>1. ASSUME NEW t \in Streams PROVE StreamOK(t)'
  <2>1. CASE t = s
    BY <2>1
  <2>2. CASE t # s
    BY <2>2, Untouched
  <2>. QED  BY <2>1, <2>2
<1>. QED  BY <1>1, ObjectsStay DEF TInv, Carried

LEMMA NoStream ==
  ASSUME TInv, Carried, UNCHANGED <<object, subs, slot, stream>>
  PROVE  TInv'
<1>1. TypeOK'
  BY DEF TInv, TypeOK
<1>2. \A s \in Streams : StreamOK(s)'
  BY Untouched
<1>. QED  BY <1>1, <1>2, ObjectsStay DEF TInv, Carried

-----------------------------------------------------------------------------
(* The announcements *)

(* What notify puts into the channels is the object, or a copy that is     *)
(* backed by the row it tells of.                                          *)
LEMMA NotifyStep ==
  ASSUME TInv, Carried, NEW o \in Creates, NEW content \in {"object", "Cancelled"},
         Notify(o, content), UNCHANGED <<object, subs, stream>>,
         content = "Cancelled" => OrdP!AskedFor(o) /\ orders[o] \in Ord!Terminal
  PROVE  TInv'
<1>1. TypeOK'
  <2>1. content \in Ord!Status \cup {"empty", "object", "closed"}
    BY SameWords
  <2>. QED  BY <2>1 DEF TInv, TypeOK, Notify
<1>2. ASSUME NEW s \in Streams PROVE StreamOK(s)'
  <2>1. CASE slot'[s] = slot[s]
    BY <2>1, Untouched
  <2>2. CASE slot'[s] # slot[s]
    <3>1. s \in subs /\ stream[s].order = o /\ slot'[s] = content
      BY <2>2 DEF Notify
    <3>2. StreamOK(s)
      BY DEF TInv
    <3>3. Placed(s)'
      <4>1. Current(s) \in Lookups
        BY OrdersTyped
      <4>2. stream[s].pc = "subscribe" =>
              read'[Current(s)].pc # "idle" /\ read'[Current(s)].order = o
        BY <3>1, <3>2, <4>1 DEF StreamOK, Placed, Carried, OrdP!Moves
      <4>. QED  BY <3>1, <3>2, <4>2 DEF StreamOK, Placed, Current
    <3>4. orders[o] \in Ord!Terminal => orders'[o] \in Ord!Terminal
      BY SameWords DEF Carried, OrdP!Abiding
    <3>5. Truthful(s)'
      <4>1. ASSUME NEW v \in {content, stream[s].held, stream[s].told}
            PROVE  /\ v = "Paid" => rpc'[o] = "Authorized"
                   /\ v = "Cancelled" => OrdP!AskedFor(o)'
        <5>1. Backed(o, v)
          BY <3>1, <3>2 DEF StreamOK, Truthful, Backed
        <5>. QED  BY <5>1, BackedStays
      <4>2. OrdP!AskedFor(o)' <=> OrdP!AskedFor(stream[s].order)'
        BY <3>1 DEF OrdP!AskedFor
      <4>3. \A v \in {slot'[s], stream'[s].held, stream'[s].told} : Backed(stream[s].order, v)'
        BY <3>1, <4>1, <4>2 DEF Backed
      <4>4. \A v \in {slot'[s], stream'[s].held} :
              v \in Ord!Terminal => orders'[stream'[s].order] \in Ord!Terminal
        BY <3>1, <3>2, <3>4, SameWords DEF StreamOK, Truthful
      <4>. QED  BY <4>3, <4>4 DEF Truthful
    <3>6. ToldLast(s)'
      BY <3>2 DEF StreamOK, ToldLast, StatusNow
    <3>7. Ended(s)'
      BY <3>1, <3>2, <3>4 DEF StreamOK, Ended
    <3>. QED  BY <3>3, <3>5, <3>6, <3>7 DEF StreamOK
  <2>. QED  BY <2>1, <2>2
<1>. QED  BY <1>1, <1>2, ObjectsStay DEF TInv, Carried

LEMMA AnnounceCancelledStep ==
  ASSUME TInv, Carried, NEW x \in Cancels, AnnounceCancelled(x)
  PROVE  TInv'
<1>1. cancel[x].pc = "announce"
  BY DEF AnnounceCancelled, Ord!CancelAnnounce, Ord!CancelAt
<1>2. cancel[x].order \in Creates /\ OrdP!AskedFor(cancel[x].order)
  BY <1>1 DEF TInv, OrdP!IInv, OrdP!OthersHold, OrdP!AskedFor
<1>3. orders[cancel[x].order] \in Ord!Terminal
  BY <1>1, SameWords DEF TInv, OrdP!RecordInv, OrdP!Recorded
<1>. QED  BY <1>2, <1>3, NotifyStep DEF AnnounceCancelled

(* The write of the outcome: the old status, neither, the new one. *)
LEMMA AssignStep ==
  ASSUME TInv, Carried, NEW r \in Creates, Assign(r)
  PROVE  TInv'
<1>1. /\ create[r].outcome \in {"Paid", "Failed"}
      /\ create[r].outcome = "Paid" => rpc[r] = "Authorized"
  <2>1. /\ create[r].pc = "announce" => create[r].outcome # "Unavailable" /\ create[r].outcome # OrdP!None
        /\ create[r].outcome # OrdP!None => create[r].outcome = OrdP!OutcomeOf(rpc[r])
    BY DEF TInv, OrdP!IInv, OrdP!RowsFollowRequests, OrdP!OwnRow
  <2>. QED  BY <2>1 DEF Assign, OrdP!OutcomeOf
<1>2. \/ object[r] = "Pending" /\ object' = [object EXCEPT ![r] = Torn]
      \/ object[r] = Torn /\ object' = [object EXCEPT ![r] = create[r].outcome]
  BY DEF Assign
<1>3. UNCHANGED <<orders, cache, create, cancel, read, rpc, faults, subs, slot, stream>>
  BY DEF Assign, orderVars
<1>4. object \in [Creates -> Ord!Status \cup {Torn}]
  BY DEF TInv, TypeOK
<1>5. ObjectsFollow'
  BY <1>1, <1>2, <1>3, <1>4 DEF TInv, ObjectsFollow, Torn
<1>6. TypeOK'
  BY <1>1, <1>2, <1>3, SameWords DEF TInv, TypeOK
<1>7. \A o \in Creates : object[o] \in Ord!Terminal => object'[o] \in Ord!Terminal
  BY <1>2, <1>4, SameWords DEF Torn
<1>8. \A s \in Streams : StreamOK(s)'
  BY <1>3, <1>7, Untouched
<1>. QED  BY <1>5, <1>6, <1>8 DEF TInv, Carried

-----------------------------------------------------------------------------
(* The streams *)

(* Stream s is now there, for the order it was for; the others stay.       *)
Becomes(s, pc, held, told, end) ==
  /\ stream' \in [Streams -> StreamState]
  /\ \A t \in Streams : t # s => stream'[t] = stream[t]
  /\ stream'[s].pc = pc
  /\ stream'[s].order = stream[s].order
  /\ stream'[s].held = held
  /\ stream'[s].told = told
  /\ stream'[s].end = end

LEMMA AfterGoto ==
  ASSUME TypeOK, NEW s \in Streams, NEW to \in {"subscribe", "loop"}, Goto(s, to)
  PROVE  Becomes(s, to, stream[s].held, stream[s].told, stream[s].end)
<1>. DEFINE c == [stream[s] EXCEPT !.pc = to]
<1>1. stream \in [Streams -> StreamState] /\ stream[s] \in StreamState
  BY DEF TypeOK
<1>2. stream' = [stream EXCEPT ![s] = c]
  BY <1>1 DEF Goto
<1>3. /\ c \in StreamState /\ c.pc = to /\ c.order = stream[s].order
      /\ c.held = stream[s].held /\ c.told = stream[s].told /\ c.end = stream[s].end
  BY <1>1 DEF StreamState
<1>. HIDE DEF c
<1>. QED  BY <1>1, <1>2, <1>3 DEF Becomes

LEMMA AfterReceive ==
  ASSUME TypeOK, NEW s \in Streams, NEW v \in Ord!Status \cup {"object"},
         stream' = [stream EXCEPT ![s].pc = "tell", ![s].held = v]
  PROVE  Becomes(s, "tell", v, stream[s].told, stream[s].end)
<1>. DEFINE c == [stream[s] EXCEPT !.pc = "tell", !.held = v]
<1>1. stream \in [Streams -> StreamState] /\ stream[s] \in StreamState
  BY DEF TypeOK
<1>2. stream' = [stream EXCEPT ![s] = c]
  BY <1>1
<1>3. /\ c \in StreamState /\ c.pc = "tell" /\ c.order = stream[s].order
      /\ c.held = v /\ c.told = stream[s].told /\ c.end = stream[s].end
  BY <1>1 DEF StreamState
<1>. HIDE DEF c
<1>. QED  BY <1>1, <1>2, <1>3 DEF Becomes

LEMMA AfterTell ==
  ASSUME TypeOK, NEW s \in Streams, NEW v \in Ord!Status \cup {Unspecified},
         stream' = [stream EXCEPT ![s].pc = "check", ![s].told = v]
  PROVE  Becomes(s, "check", stream[s].held, v, stream[s].end)
<1>. DEFINE c == [stream[s] EXCEPT !.pc = "check", !.told = v]
<1>1. stream \in [Streams -> StreamState] /\ stream[s] \in StreamState
  BY DEF TypeOK
<1>2. stream' = [stream EXCEPT ![s] = c]
  BY <1>1
<1>3. /\ c \in StreamState /\ c.pc = "check" /\ c.order = stream[s].order
      /\ c.held = stream[s].held /\ c.told = v /\ c.end = stream[s].end
  BY <1>1 DEF StreamState
<1>. HIDE DEF c
<1>. QED  BY <1>1, <1>2, <1>3 DEF Becomes

LEMMA AfterEnd ==
  ASSUME TypeOK, NEW s \in Streams, NEW end \in {"not found", "terminal", "left"},
         stream' = [stream EXCEPT ![s].pc = "over", ![s].end = end]
  PROVE  Becomes(s, "over", stream[s].held, stream[s].told, end)
<1>. DEFINE c == [stream[s] EXCEPT !.pc = "over", !.end = end]
<1>1. stream \in [Streams -> StreamState] /\ stream[s] \in StreamState
  BY DEF TypeOK
<1>2. stream' = [stream EXCEPT ![s] = c]
  BY <1>1
<1>3. /\ c \in StreamState /\ c.pc = "over" /\ c.order = stream[s].order
      /\ c.held = stream[s].held /\ c.told = stream[s].told /\ c.end = end
  BY <1>1 DEF StreamState
<1>. HIDE DEF c
<1>. QED  BY <1>1, <1>2, <1>3 DEF Becomes

(* A step of a stream that changes nothing the order service has, or only  *)
(* starts a read: what was backed and decided still is.                    *)
LEMMA StreamMoves ==
  ASSUME TInv, Carried, NEW s \in Streams, object' = object, subs' \subseteq Streams,
         \A t \in Streams : t # s => slot'[t] = slot[t] /\ (t \in subs' <=> t \in subs),
         slot' \in [Streams -> Ord!Status \cup {"empty", "object", "closed"}],
         NEW pc, NEW held, NEW told, NEW end, Becomes(s, pc, held, told, end),
         stream[s].order \in Creates,
         Placed(s)', ToldLast(s)', Ended(s)',
         \A v \in {slot'[s], held, told} : Backed(stream[s].order, v),
         \A v \in {slot'[s], held} :
           v \in Ord!Terminal => orders[stream[s].order] \in Ord!Terminal
  PROVE  TInv'
<1>. DEFINE o == stream[s].order
<1>1. TypeOK'
  BY DEF TInv, TypeOK, Becomes
<1>2. Truthful(s)'
  <2>1. ASSUME NEW v \in {slot'[s], held, told}
        PROVE  /\ v = "Paid" => rpc'[o] = "Authorized"
               /\ v = "Cancelled" => OrdP!AskedFor(o)'
    <3>1. o \in Creates /\ Backed(o, v)
      OBVIOUS
    <3>2. /\ v = "Paid" => rpc'[o] = "Authorized"
          /\ v = "Cancelled" => \E x \in Cancels : cancel'[x].pc # "idle" /\ cancel'[x].order = o
      BY <3>1 DEF Carried, OrdP!Moves, OrdP!Abiding, Backed, OrdP!AskedFor
    <3>. QED  BY <3>2 DEF OrdP!AskedFor, Becomes
  <2>2. stream'[s].order = o /\ stream'[s].held = held /\ stream'[s].told = told
    BY DEF Becomes
  <2>3. \A v \in {slot'[s], stream'[s].held, stream'[s].told} : Backed(stream[s].order, v)'
    BY <2>1, <2>2 DEF Backed
  <2>4. orders[o] \in Ord!Terminal => orders'[o] \in Ord!Terminal
    BY SameWords DEF Carried, OrdP!Abiding
  <2>. QED  BY <2>2, <2>3, <2>4 DEF Truthful
<1>3. StreamOK(s)'
  BY <1>2 DEF StreamOK
<1>. QED  BY <1>1, <1>3, OneStream DEF Becomes

LEMMA OpenStreamStep ==
  ASSUME TInv, Carried, NEW s \in Streams, NEW o \in Creates, OpenStream(s, o)
  PROVE  TInv'
<1>. DEFINE c == [stream[s] EXCEPT !.pc = "lookup", !.order = o]
<1>1. stream \in [Streams -> StreamState] /\ stream[s] \in StreamState
  BY DEF TInv, TypeOK
<1>2. stream' = [stream EXCEPT ![s] = c]
  BY <1>1 DEF OpenStream
<1>3. /\ c \in StreamState /\ c.pc = "lookup" /\ c.order = o
      /\ c.held = stream[s].held /\ c.told = stream[s].told /\ c.end = stream[s].end
  BY <1>1 DEF StreamState
<1>. HIDE DEF c
<1>4. /\ stream' \in [Streams -> StreamState]
      /\ stream'[s].pc = "lookup" /\ stream'[s].order = o /\ stream'[s].held = stream[s].held
      /\ stream'[s].told = stream[s].told /\ stream'[s].end = stream[s].end
      /\ \A t \in Streams : t # s => stream'[t] = stream[t]
  BY <1>1, <1>2, <1>3
<1>5. /\ stream[s].pc = "idle" /\ slot[s] = "empty" /\ s \notin subs
      /\ stream[s].held = "none" /\ stream[s].told = "none" /\ stream[s].end = "none"
  BY SameWords DEF OpenStream, At, TInv, StreamOK, Placed
<1>6. UNCHANGED <<object, subs, slot>>
  BY DEF OpenStream
<1>7. TypeOK'
  BY <1>4, <1>6 DEF TInv, TypeOK
<1>8. StreamOK(s)'
  BY <1>4, <1>5, <1>6, SameWords DEF StreamOK, Placed, Truthful, Backed, ToldLast, Ended
<1>. QED  BY <1>4, <1>6, <1>7, <1>8, OneStream

(* The first lookup found no order, or failed. *)
LEMMA NotFoundStep ==
  ASSUME TInv, Carried, NEW s \in Streams, NotFound(s)
  PROVE  TInv'
<1>1. stream[s].pc = "lookup" /\ UNCHANGED <<object, subs, slot>>
  BY DEF NotFound, At
<1>2. Becomes(s, "over", stream[s].held, stream[s].told, "not found")
  BY AfterEnd DEF NotFound, TInv
<1>3. StreamOK(s) /\ stream[s].order \in Creates
  BY <1>1 DEF TInv, StreamOK, Placed
<1>4. "not found" # "terminal"
  OBVIOUS
<1>5. PICK end : Becomes(s, "over", stream[s].held, stream[s].told, end) /\ end # "terminal"
  BY <1>2, <1>4
<1>6. Placed(s)' /\ ToldLast(s)' /\ Ended(s)'
  BY <1>1, <1>3, <1>5 DEF StreamOK, Placed, ToldLast, Ended, Becomes
<1>. QED  BY <1>1, <1>3, <1>5, <1>6, StreamMoves DEF TInv, TypeOK, StreamOK, Truthful

LEMMA RegisterStep ==
  ASSUME TInv, Carried, NEW s \in Streams, Register(s)
  PROVE  TInv'
<1>1. /\ stream[s].pc = "lookup" /\ UNCHANGED <<object, slot>> /\ subs' = subs \cup {s}
      /\ Ord!StartRead(Current(s), stream[s].order)
  BY DEF Register, At
<1>2. Becomes(s, "subscribe", stream[s].held, stream[s].told, stream[s].end)
  BY AfterGoto DEF Register, TInv
<1>3. StreamOK(s) /\ stream[s].order \in Creates /\ slot[s] = "empty"
  BY <1>1 DEF TInv, StreamOK, Placed
<1>4. read'[Current(s)].pc = "cache" /\ read'[Current(s)].order = stream[s].order
  BY <1>1, OrdersTyped DEF Ord!StartRead, OrdP!ReadState
<1>5. Placed(s)'
  BY <1>1, <1>2, <1>3, <1>4 DEF Placed, Becomes, Current
<1>6. ToldLast(s)' /\ Ended(s)'
  BY <1>1, <1>2, <1>3 DEF StreamOK, ToldLast, Ended, Becomes, Ord!StartRead
<1>7. subs' \subseteq Streams /\ \A t \in Streams : t # s => (t \in subs' <=> t \in subs)
  BY <1>1 DEF TInv, TypeOK
<1>. QED  BY <1>1, <1>2, <1>3, <1>5, <1>6, <1>7, StreamMoves DEF TInv, TypeOK, StreamOK, Truthful

(* The order looked up again is what the row or the cache said. *)
LEMMA PushCurrentStep ==
  ASSUME TInv, Carried, NEW s \in Streams, PushCurrent(s)
  PROVE  TInv'
<1>. DEFINE o == stream[s].order
            v == read[Current(s)].seen
<1>1. /\ stream[s].pc = "subscribe"
      /\ \/ v \in Ord!Status /\ slot[s] = "empty" /\ slot' = [slot EXCEPT ![s] = v]
         \/ slot' = slot
      /\ UNCHANGED <<orders, object, subs>>
  BY DEF PushCurrent, At, orderVars
<1>2. Becomes(s, "loop", stream[s].held, stream[s].told, stream[s].end)
  BY AfterGoto DEF PushCurrent, TInv
<1>3. /\ StreamOK(s) /\ o \in Creates /\ slot[s] # "closed" /\ s \in subs
      /\ read[Current(s)].order = o /\ Current(s) \in Lookups
  BY <1>1, OrdersTyped DEF TInv, StreamOK, Placed
<1>4. /\ v = "Paid" => rpc[o] = "Authorized"
      /\ v = "Cancelled" => OrdP!AskedFor(o)
      /\ v \in Ord!Terminal => orders[o] \in Ord!Terminal
  <2>1. v = "Paid" => rpc[o] = "Authorized"
    BY <1>3 DEF TInv, OrdP!IInv, OrdP!PaidIsBacked
  <2>2. v = "Cancelled" => OrdP!AskedFor(o)
    BY <1>3 DEF TInv, OrdP!RecordInv, OrdP!CancelledAsked
  <2>3. v \in Ord!Terminal => orders[o] \in Ord!Terminal
    BY <1>3, SameWords DEF TInv, OrdP!RecordInv, OrdP!Recorded
  <2>. QED  BY <2>1, <2>2, <2>3
<1>5. /\ slot \in [Streams -> Ord!Status \cup {"empty", "object", "closed"}]
      /\ slot' \in [Streams -> Ord!Status \cup {"empty", "object", "closed"}]
      /\ \A t \in Streams : t # s => slot'[t] = slot[t]
      /\ slot'[s] = slot[s] \/ (v \in Ord!Status /\ slot'[s] = v)
  BY <1>1 DEF TInv, TypeOK
<1>6. Placed(s)'
  BY <1>1, <1>2, <1>3, <1>5, SameWords DEF Placed, Becomes
<1>7. ToldLast(s)' /\ Ended(s)'
  BY <1>1, <1>2, <1>3 DEF StreamOK, ToldLast, Ended, Becomes
<1>8. \A w \in {slot'[s], stream[s].held, stream[s].told} : Backed(o, w)
  BY <1>3, <1>4, <1>5 DEF StreamOK, Truthful, Backed
<1>9. \A w \in {slot'[s], stream[s].held} : w \in Ord!Terminal => orders[o] \in Ord!Terminal
  BY <1>3, <1>4, <1>5 DEF StreamOK, Truthful
<1>10. subs' \subseteq Streams
  BY <1>1 DEF TInv, TypeOK
<1>. QED  BY <1>1, <1>2, <1>3, <1>5, <1>6, <1>7, <1>8, <1>9, <1>10, StreamMoves

LEMMA ReceiveStep ==
  ASSUME TInv, Carried, NEW s \in Streams, Receive(s)
  PROVE  TInv'
<1>1. /\ stream[s].pc = "loop" /\ slot[s] # "empty" /\ slot' = [slot EXCEPT ![s] = "empty"]
      /\ stream' = [stream EXCEPT ![s].pc = "tell", ![s].held = slot[s]]
      /\ UNCHANGED <<orders, object, subs>>
  BY DEF Receive, At, orderVars
<1>2. StreamOK(s) /\ stream[s].order \in Creates /\ slot[s] # "closed" /\ s \in subs
  BY <1>1 DEF TInv, StreamOK, Placed
<1>3. /\ slot \in [Streams -> Ord!Status \cup {"empty", "object", "closed"}]
      /\ slot' \in [Streams -> Ord!Status \cup {"empty", "object", "closed"}]
      /\ slot[s] \in Ord!Status \cup {"object"} /\ slot'[s] = "empty"
      /\ \A t \in Streams : t # s => slot'[t] = slot[t]
  BY <1>1, <1>2 DEF TInv, TypeOK
<1>4. Becomes(s, "tell", slot[s], stream[s].told, stream[s].end)
  BY <1>1, <1>3, AfterReceive DEF TInv
<1>5. Placed(s)'
  BY <1>1, <1>2, <1>3, <1>4 DEF Placed, Becomes
<1>6. ToldLast(s)' /\ Ended(s)'
  BY <1>1, <1>2, <1>4 DEF StreamOK, ToldLast, Ended, Becomes
<1>7. \A w \in {slot'[s], slot[s], stream[s].told} : Backed(stream[s].order, w)
  BY <1>2, <1>3 DEF StreamOK, Truthful, Backed
<1>8. \A w \in {slot'[s], slot[s]} :
        w \in Ord!Terminal => orders[stream[s].order] \in Ord!Terminal
  BY <1>2, <1>3, SameWords DEF StreamOK, Truthful
<1>9. subs' \subseteq Streams
  BY <1>1 DEF TInv, TypeOK
<1>. QED  BY <1>1, <1>2, <1>3, <1>4, <1>5, <1>6, <1>7, <1>8, <1>9, StreamMoves

(* What the handler reads, from the object or from its copy. *)
LEMMA StatusRead ==
  ASSUME TInv, NEW s \in Streams, stream[s].pc \in {"tell", "check"}
  PROVE  LET v == StatusNow(s, stream[s].held) IN
         /\ stream[s].order \in Creates
         /\ Backed(stream[s].order, v)
         /\ v \in Ord!Terminal =>
              orders[stream[s].order] \in Ord!Terminal \/ object[stream[s].order] \in Ord!Terminal
<1>. DEFINE o == stream[s].order
<1>1. o \in Creates /\ stream[s].held \in Ord!Status \cup {"object"}
  BY DEF TInv, StreamOK, Placed
<1>2. CASE stream[s].held = "object"
  <2>1. StatusNow(s, stream[s].held) = object[o]
    BY <1>2 DEF StatusNow
  <2>2. Backed(o, object[o])
    BY <1>1 DEF TInv, ObjectsFollow, Backed, Torn
  <2>. QED  BY <1>1, <2>1, <2>2
<1>3. CASE stream[s].held # "object"
  <2>1. StatusNow(s, stream[s].held) = stream[s].held
    BY <1>3 DEF StatusNow
  <2>. QED  BY <1>1, <2>1 DEF TInv, StreamOK, Truthful
<1>. QED  BY <1>2, <1>3

LEMMA TellStep ==
  ASSUME TInv, Carried, NEW s \in Streams, Tell(s)
  PROVE  TInv'
<1>. DEFINE v == StatusNow(s, stream[s].held)
<1>1. /\ stream[s].pc = "tell"
      /\ stream' = [stream EXCEPT ![s].pc = "check", ![s].told = PbStatus(v)]
      /\ UNCHANGED <<orders, object, subs, slot>>
  BY DEF Tell, At, orderVars
<1>2. StreamOK(s) /\ stream[s].order \in Creates /\ Backed(stream[s].order, v)
  BY <1>1, StatusRead DEF TInv
<1>3. /\ PbStatus(v) \in Ord!Status \cup {Unspecified}
      /\ PbStatus(v) \in Ord!Status => PbStatus(v) = v
  BY SameWords DEF PbStatus, Unspecified
<1>4. Becomes(s, "check", stream[s].held, PbStatus(v), stream[s].end)
  BY <1>1, <1>3, AfterTell DEF TInv
<1>5. Placed(s)' /\ Ended(s)'
  BY <1>1, <1>2, <1>4 DEF StreamOK, Placed, Ended, Becomes
<1>6. v' = v
  BY <1>1, <1>4 DEF StatusNow, Becomes
<1>7. ToldLast(s)'
  BY <1>3, <1>4, <1>6, SameWords DEF ToldLast, Becomes
<1>8. Backed(stream[s].order, PbStatus(v))
  BY <1>2, <1>3, SameWords DEF Backed
<1>. QED
  BY <1>1, <1>2, <1>4, <1>5, <1>7, <1>8, StreamMoves DEF TInv, TypeOK, StreamOK, Truthful

(* Any return: the stream leaves the map and its channel is closed. *)
LEMMA EndStep ==
  ASSUME TInv, Carried, NEW s \in Streams, NEW end \in {"terminal", "left"}, EndStream(s, end),
         stream[s].pc \in {"loop", "tell", "check"},
         end = "terminal" => \E v \in {orders[stream[s].order], object[stream[s].order]} : v \in Ord!Terminal
  PROVE  TInv'
<1>1. /\ stream' = [stream EXCEPT ![s].pc = "over", ![s].end = end]
      /\ subs' = subs \ {s} /\ slot' = [slot EXCEPT ![s] = "closed"]
      /\ UNCHANGED <<orders, object>>
  BY DEF EndStream, SubsWithout, orderVars
<1>2. Becomes(s, "over", stream[s].held, stream[s].told, end)
  BY <1>1, AfterEnd DEF TInv
<1>3. StreamOK(s) /\ stream[s].order \in Creates
  BY DEF TInv, StreamOK, Placed
<1>4. /\ slot' \in [Streams -> Ord!Status \cup {"empty", "object", "closed"}]
      /\ slot'[s] = "closed"
      /\ subs' \subseteq Streams
      /\ \A t \in Streams : t # s => slot'[t] = slot[t] /\ (t \in subs' <=> t \in subs)
  BY <1>1 DEF TInv, TypeOK
<1>5. Placed(s)' /\ ToldLast(s)'
  BY <1>1, <1>2, <1>3, <1>4 DEF StreamOK, Placed, ToldLast, Becomes
<1>6. Ended(s)'
  BY <1>1, <1>2 DEF Ended, Becomes
<1>7. \A w \in {slot'[s], stream[s].held, stream[s].told} : Backed(stream[s].order, w)
  BY <1>3, <1>4 DEF StreamOK, Truthful, Backed
<1>8. \A w \in {slot'[s], stream[s].held} :
        w \in Ord!Terminal => orders[stream[s].order] \in Ord!Terminal
  BY <1>3, <1>4, SameWords DEF StreamOK, Truthful
<1>. QED  BY <1>1, <1>2, <1>3, <1>4, <1>5, <1>6, <1>7, <1>8, StreamMoves

LEMMA CheckTerminalStep ==
  ASSUME TInv, Carried, NEW s \in Streams, CheckTerminal(s)
  PROVE  TInv'
<1>1. stream[s].pc = "check" /\ StatusNow(s, stream[s].held) \in Ord!Terminal /\ EndStream(s, "terminal")
  BY SameWords DEF CheckTerminal, At, Ends
<1>2. \E v \in {orders[stream[s].order], object[stream[s].order]} : v \in Ord!Terminal
  BY <1>1, StatusRead
<1>. QED  BY <1>1, <1>2, EndStep

(* The stream goes on only when it has told nothing terminal. *)
LEMMA CheckGoesOnStep ==
  ASSUME TInv, Carried, NEW s \in Streams, CheckGoesOn(s)
  PROVE  TInv'
<1>1. /\ stream[s].pc = "check" /\ StatusNow(s, stream[s].held) \notin Ord!Terminal
      /\ UNCHANGED <<orders, object, subs, slot>>
  BY SameWords DEF CheckGoesOn, At, Ends, orderVars
<1>2. Becomes(s, "loop", stream[s].held, stream[s].told, stream[s].end)
  BY AfterGoto DEF CheckGoesOn, TInv
<1>3. StreamOK(s) /\ stream[s].order \in Creates /\ stream[s].told \notin Ord!Terminal
  BY <1>1 DEF TInv, StreamOK, Placed, ToldLast
<1>4. Placed(s)' /\ ToldLast(s)' /\ Ended(s)'
  BY <1>1, <1>2, <1>3 DEF StreamOK, Placed, ToldLast, Ended, Becomes
<1>. QED  BY <1>1, <1>2, <1>3, <1>4, StreamMoves DEF TInv, TypeOK, StreamOK, Truthful

LEMMA ClientLeavesStep ==
  ASSUME TInv, Carried, NEW s \in Streams, ClientLeaves(s)
  PROVE  TInv'
<1>1. stream[s].pc \in {"loop", "tell"} /\ EndStream(s, "left")
  BY DEF ClientLeaves, At
<1>. QED  BY <1>1, EndStep

(* A crash ends the streams as it finds them; rows and objects stay. *)
LEMMA CrashStep ==
  ASSUME TInv, Carried, Crash
  PROVE  TInv'
<1>1. ASSUME NEW s \in Streams
      PROVE  /\ stream'[s] \in StreamState
             /\ stream'[s].order = stream[s].order
             /\ stream'[s].held = stream[s].held /\ stream'[s].told = stream[s].told
             /\ \/ /\ stream[s].pc \in {"idle", "over"}
                   /\ stream'[s].pc = stream[s].pc /\ stream'[s].end = stream[s].end
                \/ /\ stream[s].pc # "idle"
                   /\ stream'[s].pc = "over" /\ stream'[s].end = "crashed"
  <2>1. stream[s] \in StreamState
    BY DEF TInv, TypeOK
  <2>2. CASE stream[s].pc \in {"idle", "over"}
    <3>1. stream'[s] = stream[s]
      BY <2>2 DEF Crash, At
    <3>. QED  BY <2>1, <2>2, <3>1
  <2>3. CASE stream[s].pc \notin {"idle", "over"}
    <3>1. stream'[s] = [stream[s] EXCEPT !.pc = "over", !.end = "crashed"]
      BY <2>3 DEF Crash, At
    <3>. QED  BY <2>1, <2>3, <3>1 DEF StreamState
  <2>. QED  BY <2>2, <2>3
<1>2. /\ subs' = {} /\ object' = object /\ UNCHANGED orders
      /\ \A s \in Streams : slot'[s] = IF stream[s].pc = "idle" THEN slot[s] ELSE "closed"
  BY DEF Crash, At, Ord!Crash
<1>3. TypeOK'
  <2>1. stream' \in [Streams -> StreamState]
    BY <1>1 DEF Crash
  <2>2. slot' \in [Streams -> Ord!Status \cup {"empty", "object", "closed"}]
    BY DEF Crash, TInv, TypeOK
  <2>. QED  BY <1>2, <2>1, <2>2 DEF TInv, TypeOK
<1>4. ASSUME NEW s \in Streams PROVE StreamOK(s)'
  <2>. DEFINE o == stream[s].order
  <2>1. StreamOK(s)
    BY DEF TInv
  <2>2. Placed(s)'
    BY <1>1, <1>2, <2>1 DEF StreamOK, Placed
  <2>3. ToldLast(s)'
    BY <1>1, <2>1, SameWords DEF StreamOK, ToldLast, Placed
  <2>4. Ended(s)'
    BY <1>1, <1>2, <2>1 DEF StreamOK, Ended
  <2>5. Truthful(s)'
    <3>1. CASE stream[s].pc = "idle"
      <4>1. /\ slot'[s] = "empty" /\ stream'[s].held = "none" /\ stream'[s].told = "none"
        BY <1>1, <1>2, <2>1, <3>1, SameWords DEF StreamOK, Placed
      <4>. QED  BY <4>1, SameWords DEF Truthful, Backed
    <3>2. CASE stream[s].pc # "idle"
      <4>1. o \in Creates /\ slot'[s] = "closed"
        BY <1>2, <2>1, <3>2 DEF StreamOK, Placed
      <4>2. ASSUME NEW v \in {"closed", stream[s].held, stream[s].told}
            PROVE  /\ v = "Paid" => rpc'[o] = "Authorized"
                   /\ v = "Cancelled" => \E x \in Cancels : cancel'[x].pc # "idle" /\ cancel'[x].order = o
        BY <2>1, <4>1 DEF StreamOK, Truthful, Backed, Carried, OrdP!Abiding, OrdP!Moves, OrdP!AskedFor
      <4>3. \A v \in {slot'[s], stream'[s].held, stream'[s].told} : Backed(stream[s].order, v)'
        BY <1>1, <4>1, <4>2 DEF Backed, OrdP!AskedFor
      <4>. QED  BY <1>1, <1>2, <2>1, <4>1, <4>3, SameWords DEF StreamOK, Truthful
    <3>. QED  BY <3>1, <3>2
  <2>. QED  BY <2>2, <2>3, <2>4, <2>5 DEF StreamOK
<1>. QED  BY <1>2, <1>3, <1>4, ObjectsStay DEF TInv, Carried

-----------------------------------------------------------------------------
(* The theorems *)

LEMMA InitTInv == Init => TInv
<1>. SUFFICES ASSUME Init PROVE TInv
  OBVIOUS
<1>1. OrdP!Init
  BY SameInit DEF Init
<1>2. OrdP!IInv /\ OrdP!RecordInv
  BY <1>1, TrackingAssumption, OrdP!InitIInv, OrdP!InitRecord DEF Ord!OrderAssumption, OrdP!OrderAssumption
<1>3. /\ object = [o \in Creates |-> "Pending"] /\ subs = {} /\ slot = [s \in Streams |-> "empty"]
      /\ stream = [s \in Streams |-> [pc |-> "idle", order |-> Ord!None, held |-> Ord!None,
                                      told |-> Ord!None, end |-> Ord!None]]
  BY DEF Init
<1>4. TypeOK
  <2>1. stream \in [Streams -> StreamState]
    BY <1>3 DEF StreamState
  <2>. QED  BY <1>3, <2>1, SameWords DEF TypeOK
<1>5. ObjectsFollow
  BY <1>3 DEF ObjectsFollow
<1>6. \A s \in Streams : StreamOK(s)
  BY <1>3, SameWords DEF StreamOK, Placed, Truthful, Backed, ToldLast, Ended
<1>. QED  BY <1>2, <1>4, <1>5, <1>6 DEF TInv

LEMMA InductiveStep == TInv /\ [Next]_vars => TInv'
<1>. SUFFICES ASSUME TInv, [Next]_vars PROVE TInv'
  OBVIOUS
<1>1. Carried
  BY OrderCarries
<1>2. CASE QuietStep
  BY <1>1, <1>2, NoStream DEF QuietStep
<1>3. ASSUME NEW r \in Creates, AnnouncePending(r) PROVE TInv'
  BY <1>1, <1>3, NotifyStep DEF AnnouncePending
<1>4. ASSUME NEW r \in Creates, Assign(r) PROVE TInv'
  BY <1>1, <1>4, AssignStep
<1>5. ASSUME NEW r \in Creates, AnnounceOutcome(r) PROVE TInv'
  BY <1>1, <1>5, NotifyStep DEF AnnounceOutcome
<1>6. ASSUME NEW x \in Cancels, AnnounceCancelled(x) PROVE TInv'
  BY <1>1, <1>6, AnnounceCancelledStep
<1>7. ASSUME NEW s \in Streams, NEW o \in Creates, OpenStream(s, o) PROVE TInv'
  BY <1>1, <1>7, OpenStreamStep
<1>8. ASSUME NEW s \in Streams, StreamStep(s) PROVE TInv'
  BY <1>1, <1>8, NotFoundStep, RegisterStep, PushCurrentStep, ReceiveStep, TellStep,
     CheckTerminalStep, CheckGoesOnStep DEF StreamStep
<1>9. ASSUME NEW s \in Streams, ClientLeaves(s) PROVE TInv'
  BY <1>1, <1>9, ClientLeavesStep
<1>10. CASE Crash
  BY <1>1, <1>10, CrashStep
<1>11. CASE UNCHANGED vars
  BY <1>1, <1>11, NoStream DEF vars
<1>. QED
  BY <1>2, <1>3, <1>4, <1>5, <1>6, <1>7, <1>8, <1>9, <1>10, <1>11 DEF Next, Finished

(* The inductive invariant holds through every interleaving of requests,   *)
(* streams, hang-ups, failures and crashes.                                *)
THEOREM Invariance == Spec => []TInv
BY InitTInv, InductiveStep, PTL DEF Spec

(* The objects, the channels and the streams keep their types. *)
THEOREM TypeCorrectness == Spec => []TypeOK
<1>1. TInv => TypeOK
  BY DEF TInv
<1>. QED  BY <1>1, Invariance, PTL

(* notify never meets a closed channel, however clean-ups, hang-ups and    *)
(* announcements follow each other.                                        *)
THEOREM SubscribersCorrectness == Spec => []SubscribersOpen
<1>1. TInv => SubscribersOpen
  BY DEF TInv, TypeOK, StreamOK, Placed, SubscribersOpen
<1>. QED  BY <1>1, Invariance, PTL

(* No client is shown a payment that was not made or a cancellation nobody *)
(* asked for, be it by copy, cache or shared object.                       *)
THEOREM ToldCorrectness == Spec => []ToldIsTrue
<1>1. ASSUME TInv, NEW s \in Streams
      PROVE  /\ stream[s].told = "Paid" => rpc[stream[s].order] = "Authorized"
             /\ stream[s].told = "Cancelled" => \E x \in Cancels : cancel[x].order = stream[s].order
  BY <1>1 DEF TInv, StreamOK, Truthful, Backed, OrdP!AskedFor
<1>2. TInv => ToldIsTrue
  BY <1>1 DEF ToldIsTrue
<1>. QED  BY <1>2, Invariance, PTL

(* A stream that closes cleanly was on an order whose outcome is decided.  *)
THEOREM EndsCorrectness == Spec => []EndsDecided
<1>1. TInv => EndsDecided
  BY DEF TInv, StreamOK, Ended, EndsDecided
<1>. QED  BY <1>1, Invariance, PTL

(* A client that was told a terminal status is told nothing after it,      *)
(* although the handler reads the status a second time before it stops.    *)
THEOREM LastWordCorrectness == Spec => NothingAfterTerminal
<1>1. ASSUME TInv, [Next]_vars, NEW s \in Streams, stream[s].told \in Ord!Terminal
      PROVE  stream'[s].told = stream[s].told
  <2>1. stream \in [Streams -> StreamState] /\ stream[s].pc \in {"check", "over"}
    BY <1>1 DEF TInv, TypeOK, StreamOK, ToldLast
  <2>2. CASE stream' = stream
    BY <2>2
  <2>3. ASSUME NEW t \in Streams, NEW o \in Creates, OpenStream(t, o)
        PROVE  stream'[s].told = stream[s].told
    BY <2>1, <2>3 DEF OpenStream, At
  <2>4. ASSUME NEW t \in Streams, StreamStep(t) \/ ClientLeaves(t), t # s
        PROVE  stream'[s].told = stream[s].told
    BY <2>1, <2>4 DEF StreamStep, ClientLeaves, NotFound, Register, PushCurrent, Receive, Tell,
       CheckTerminal, CheckGoesOn, EndStream, Goto
  <2>5. CASE CheckTerminal(s)
    <3>1. stream' = [stream EXCEPT ![s].pc = "over", ![s].end = "terminal"]
      BY <2>5 DEF CheckTerminal, EndStream
    <3>2. stream'[s] = [stream[s] EXCEPT !.pc = "over", !.end = "terminal"] /\ stream[s] \in StreamState
      BY <2>1, <3>1
    <3>. QED  BY <3>2 DEF StreamState
  <2>6. CASE CheckGoesOn(s)
    <3>1. stream'[s] = [stream[s] EXCEPT !.pc = "loop"] /\ stream[s] \in StreamState
      BY <2>1, <2>6 DEF CheckGoesOn, Goto
    <3>. QED  BY <3>1 DEF StreamState
  <2>7. CASE NotFound(s) \/ Register(s) \/ PushCurrent(s) \/ Receive(s) \/ Tell(s) \/ ClientLeaves(s)
    BY <2>1, <2>7 DEF NotFound, Register, PushCurrent, Receive, Tell, ClientLeaves, At
  <2>8. CASE Crash
    <3>1. stream'[s] = stream[s] \/ stream'[s] = [stream[s] EXCEPT !.pc = "over", !.end = "crashed"]
      BY <2>8 DEF Crash
    <3>2. stream[s] \in StreamState
      BY <2>1
    <3>. QED  BY <3>1, <3>2 DEF StreamState
  <2>9. CASE \/ QuietStep
             \/ \E r \in Creates : AnnouncePending(r) \/ Assign(r) \/ AnnounceOutcome(r)
             \/ \E x \in Cancels : AnnounceCancelled(x)
             \/ UNCHANGED vars
    BY <2>2, <2>9 DEF QuietStep, AnnouncePending, Assign, AnnounceOutcome, AnnounceCancelled, vars
  <2>. QED
    BY <1>1, <2>3, <2>4, <2>5, <2>6, <2>7, <2>8, <2>9 DEF Next, StreamStep, Finished
<1>2. TInv /\ [Next]_vars =>
        [\A s \in Streams : stream[s].told \in Ord!Terminal => stream'[s].told = stream[s].told]_vars
  BY <1>1
<1>. QED  BY <1>2, Invariance, PTL DEF Spec, NothingAfterTerminal

(* In the company of its streams the order service still is what its own   *)
(* module specifies, so all that is proved of it alone holds of it here.   *)
THEOREM OrdersCorrectness == Spec => Ord!Spec
<1>1. Init => Ord!Init
  BY DEF Init
<1>2. TInv /\ [Next]_vars => [Ord!Next]_(Ord!vars)
  BY OrderPart
<1>. QED  BY <1>1, <1>2, Invariance, PTL DEF Spec, Ord!Spec
=============================================================================
