------------------------- MODULE RateLimiterProofs -------------------------
(***************************************************************************)
(* Proofs about the rate limiter, for any number of requests, any limit    *)
(* and any failures: its type invariant, that it keeps the limit, and that *)
(* it refuses nobody early while Redis answers.                            *)
(***************************************************************************)
EXTENDS RateLimiter, FiniteSetTheorems, TLAPS

InWindow(v) == {r \in Requests : req[r].window = v}

(* A request belongs to no window before it is counted, and to none to     *)
(* come; its count is 0 unless it learnt one.                              *)
WindowsKnown ==
  \A r \in Requests :
    /\ req[r].window <= window
    /\ At(r, "new") => req[r].window = 0
    /\ req[r].window = 0 => req[r].count = 0

(* The INCRs carried out so far, each the n-th of its request: the key     *)
(* counts no more than these.                                              *)
Applied == {p \in Requests \X (1..(MaxRetries + 1)) : p[2] <= req[p[1]].incrs}

IncrsCounted == counter <= Cardinality(Applied)

(* While Redis answers, the key counts no more than the requests of its    *)
(* window, and a request has learnt no more than its window has requests.  *)
CountsBacked ==
  "redis" \notin faults =>
    /\ counter <= Cardinality(InWindow(window))
    /\ \A r \in Requests :
         req[r].count > 0 => req[r].count <= Cardinality(InWindow(req[r].window))

(* INCR is atomic: counts learnt in one window differ, and the key is at   *)
(* least as high as each of them.                                          *)
CountsDiffer ==
  /\ \A r \in Requests : req[r].window = window => req[r].count <= counter
  /\ \A r, s \in Requests :
       req[r].count > 0 /\ req[r].count = req[s].count /\ req[r].window = req[s].window => r = s

(* Decisions follow the counts. *)
DecidedByCount ==
  \A r \in Requests :
    /\ At(r, "passed") => req[r].count <= Limit
    /\ At(r, "refused") => req[r].count > Limit

(* A request whose INCR is still to come has not used up its attempts.     *)
IncrsLeft == \A r \in Requests : At(r, "new") => req[r].incrs <= MaxRetries

(* The inductive invariant. *)
IInv ==
  /\ TypeOK
  /\ WindowsKnown
  /\ IncrsLeft
  /\ IncrsCounted
  /\ CountsBacked
  /\ CountsDiffer
  /\ DecidedByCount

LEMMA InWindowFinite ==
  \A v : IsFiniteSet(InWindow(v)) /\ Cardinality(InWindow(v)) \in Nat
           /\ Cardinality(InWindow(v)) <= Cardinality(Requests)
<1>1. IsFiniteSet(Requests)
  BY RateLimiterAssumption
<1>2. TAKE v
<1>3. InWindow(v) \in SUBSET Requests
  BY DEF InWindow
<1>. QED  BY <1>1, <1>3, FS_Subset, FS_CardinalityType

LEMMA CountsInNat ==
  /\ Cardinality(Requests) \in Nat
  /\ MaxCount \in Nat
  /\ Limit \in Nat /\ MaxRetries \in Nat /\ MaxWindows \in Nat
<1>1. Cardinality(Requests) \in Nat
  BY RateLimiterAssumption, FS_CardinalityType
<1>2. \A m, n \in Nat : m * (n + 1) \in Nat
  OBVIOUS
<1>. QED  BY <1>1, <1>2, RateLimiterAssumption DEF MaxCount

LEMMA IncrsFinite ==
  /\ IsFiniteSet(Requests \X (1..(MaxRetries + 1)))
  /\ Cardinality(Requests \X (1..(MaxRetries + 1))) = MaxCount
<1>1. IsFiniteSet(1..(MaxRetries + 1)) /\ Cardinality(1..(MaxRetries + 1)) = MaxRetries + 1
  <2>1. MaxRetries + 1 \in Int /\ 1 \in Int /\ MaxRetries + 1 >= 1
    BY CountsInNat
  <2>. QED  BY <2>1, CountsInNat, FS_Interval
<1>. QED  BY <1>1, RateLimiterAssumption, FS_Product DEF MaxCount

LEMMA InitIInv == Init => IInv
<1>1. 0 <= Cardinality(InWindow(window))
  BY InWindowFinite
<1>2. 0 <= Cardinality(Applied)
  <2>1. Applied \in SUBSET (Requests \X (1..(MaxRetries + 1)))
    BY DEF Applied
  <2>. QED  BY <2>1, IncrsFinite, FS_Subset, FS_CardinalityType
<1>3. ASSUME Init PROVE CountsBacked /\ IncrsCounted
  BY <1>1, <1>2, <1>3 DEF Init, CountsBacked, IncrsCounted
<1>4. ASSUME Init PROVE TypeOK
  <2>1. counter \in 0..MaxCount /\ window \in 1..MaxWindows
    BY CountsInNat, <1>4, RateLimiterAssumption DEF Init
  <2>2. ttl \in BOOLEAN
    BY <1>4 DEF Init
  <2>3. [pc |-> "new", count |-> 0, window |-> 0, incrs |-> 0] \in ReqState
    BY CountsInNat DEF ReqState
  <2>. QED  BY <1>4, <2>1, <2>2, <2>3 DEF Init, TypeOK
<1>5. ASSUME Init PROVE WindowsKnown /\ IncrsLeft /\ CountsDiffer /\ DecidedByCount
  BY <1>5, CountsInNat DEF Init, WindowsKnown, IncrsLeft, CountsDiffer, DecidedByCount, At
<1>. QED  BY <1>3, <1>4, <1>5 DEF IInv

(* The requests of window v, and the INCRs, of the next state.             *)
NextInWindow(v) == {s \in Requests : req'[s].window = v}
NextApplied == {p \in Requests \X (1..(MaxRetries + 1)) : p[2] <= req'[p[1]].incrs}

(* An INCR carried out for r makes room for what it adds to the key.       *)
LEMMA OneMoreIncr ==
  ASSUME IInv, NEW r \in Requests, req[r].incrs <= MaxRetries,
         counter' = counter + 1,
         req'[r].incrs = req[r].incrs + 1,
         \A s \in Requests : s # r => req'[s].incrs = req[s].incrs
  PROVE  IncrsCounted' /\ counter' \in 0..MaxCount
<1>. DEFINE p == <<r, req[r].incrs + 1>>
            Pairs == Requests \X (1..(MaxRetries + 1))
<1>1. /\ counter \in Nat /\ req[r].incrs \in Nat
      /\ \A s \in Requests : req[s].incrs \in Nat
  BY CountsInNat DEF IInv, TypeOK, ReqState
<1>2. p \in Pairs /\ p \notin Applied
  BY <1>1, CountsInNat DEF Applied
<1>3. NextApplied = Applied \cup {p}
  <2>1. ASSUME NEW q \in Pairs
        PROVE  q \in NextApplied <=> q \in Applied \cup {p}
    <3>1. PICK s \in Requests, n \in 1..(MaxRetries + 1) : q = <<s, n>>
      OBVIOUS
    <3>2. q \in NextApplied <=> n <= req'[s].incrs
      BY <3>1 DEF NextApplied
    <3>3. q \in Applied <=> n <= req[s].incrs
      BY <3>1 DEF Applied
    <3>4. q = p <=> s = r /\ n = req[r].incrs + 1
      BY <3>1
    <3>5. n \in Nat
      BY <3>1, CountsInNat
    <3>6. CASE s = r
      BY <3>2, <3>3, <3>4, <3>5, <3>6, <1>1
    <3>7. CASE s # r
      BY <3>2, <3>3, <3>4, <3>7
    <3>. QED  BY <3>6, <3>7
  <2>2. NextApplied \subseteq Pairs /\ Applied \cup {p} \subseteq Pairs
    BY <1>2 DEF NextApplied, Applied
  <2>. HIDE DEF p, Pairs
  <2>. QED  BY <2>1, <2>2
<1>4. /\ IsFiniteSet(Applied) /\ Cardinality(Applied) \in Nat
      /\ Cardinality(NextApplied) \in Nat /\ Cardinality(NextApplied) <= MaxCount
  <2>1. Applied \in SUBSET Pairs /\ NextApplied \in SUBSET Pairs
    BY DEF Applied, NextApplied
  <2>. QED  BY <2>1, IncrsFinite, FS_Subset, FS_CardinalityType
<1>5. Cardinality(NextApplied) = Cardinality(Applied) + 1
  BY <1>2, <1>3, <1>4, FS_AddElement
<1>6. counter + 1 <= Cardinality(NextApplied)
  BY <1>1, <1>4, <1>5 DEF IInv, IncrsCounted
<1>7. Applied' = NextApplied
  BY DEF Applied, NextApplied
<1>8. counter' \in 0..MaxCount
  BY <1>1, <1>4, <1>6, CountsInNat
<1>. QED  BY <1>6, <1>7, <1>8 DEF IncrsCounted

(* A new request joins the window that lasts, with the count n it learnt.  *)
LEMMA Joins ==
  ASSUME IInv, NEW r \in Requests, At(r, "new"), req[r].incrs <= MaxRetries,
         NEW pc \in {"expire", "decide", "passed"},
         NEW n \in {0, counter + 1}, n = 0 <=> pc = "passed",
         Counted(r, pc, n),
         counter' = counter + 1,
         UNCHANGED <<ttl, window, faults>>
  PROVE  IInv'
<1>. USE DEF IInv
<1>1. /\ counter \in Nat /\ window \in Nat /\ window >= 1 /\ window <= MaxWindows
      /\ req[r].window = 0 /\ req[r].count = 0 /\ req[r].incrs \in Nat
      /\ \A s \in Requests : req[s] \in ReqState
      /\ Limit \in Nat /\ MaxWindows \in Nat /\ MaxRetries \in Nat
  BY CountsInNat DEF TypeOK, WindowsKnown, ReqState
<1>2. /\ req'[r] = [pc |-> pc, count |-> n, window |-> window, incrs |-> req[r].incrs + 1]
      /\ \A s \in Requests : s # r => req'[s] = req[s]
  BY DEF TypeOK, Counted
<1>3. NextInWindow(window) = InWindow(window) \cup {r}
  BY <1>1, <1>2 DEF InWindow, NextInWindow
<1>4. Cardinality(NextInWindow(window)) = Cardinality(InWindow(window)) + 1
  <2>1. r \notin InWindow(window)
    BY <1>1 DEF InWindow
  <2>. QED  BY <1>3, <2>1, InWindowFinite, FS_AddElement
<1>5. \A v : IsFiniteSet(NextInWindow(v)) /\ Cardinality(NextInWindow(v)) \in Nat
  <2>. SUFFICES ASSUME NEW v
                PROVE  IsFiniteSet(NextInWindow(v)) /\ Cardinality(NextInWindow(v)) \in Nat
    OBVIOUS
  <2>1. NextInWindow(v) \in SUBSET Requests
    BY DEF NextInWindow
  <2>. QED  BY <2>1, RateLimiterAssumption, FS_Subset, FS_CardinalityType
<1>6. "redis" \notin faults => counter + 1 <= Cardinality(NextInWindow(window))
  BY <1>1, <1>4, <1>5, InWindowFinite DEF CountsBacked
<1>7. IncrsCounted' /\ counter + 1 \in 0..MaxCount
  BY <1>2, OneMoreIncr
<1>8. TypeOK'
  <2>1. req'[r] \in ReqState
    BY <1>1, <1>2, <1>7, CountsInNat DEF ReqState
  <2>2. req' \in [Requests -> ReqState]
    BY <1>2, <2>1 DEF TypeOK, Counted
  <2>. QED  BY <1>1, <1>7, <2>2 DEF TypeOK
<1>9. WindowsKnown'
  BY <1>1, <1>2 DEF WindowsKnown, At
<1>10. CountsBacked'
  <2>1. ASSUME "redis" \notin faults, NEW s \in Requests, req'[s].count > 0
        PROVE  req'[s].count <= Cardinality(NextInWindow(req'[s].window))
    <3>1. CASE s = r
      BY <1>1, <1>2, <1>6, <2>1, <3>1
    <3>2. CASE s # r
      <4>1. req'[s] = req[s]
        BY <1>2, <3>2
      <4>2. req[s].count <= Cardinality(InWindow(req[s].window))
        BY <2>1, <4>1 DEF CountsBacked
      <4>3. req[s].window # 0
        BY <2>1, <4>1, <1>1 DEF WindowsKnown, ReqState
      <4>4. InWindow(req[s].window) \in SUBSET NextInWindow(req[s].window)
        BY <1>1, <1>2, <4>1, <4>3 DEF InWindow, NextInWindow
      <4>5. Cardinality(InWindow(req[s].window)) <= Cardinality(NextInWindow(req[s].window))
        BY <1>5, <4>4, FS_Subset
      <4>6. req[s].count \in Nat
        BY <1>1, CountsInNat DEF ReqState
      <4>. QED
        BY <1>5, <4>1, <4>2, <4>5, <4>6, InWindowFinite
    <3>. QED  BY <3>1, <3>2
  <2>. QED  BY <1>6, <2>1 DEF CountsBacked, InWindow, NextInWindow
<1>11. CountsDiffer'
  BY <1>1, <1>2, CountsInNat DEF CountsDiffer, ReqState
<1>12. DecidedByCount' /\ IncrsLeft'
  BY <1>1, <1>2 DEF DecidedByCount, IncrsLeft, At
<1>. QED  BY <1>7, <1>8, <1>9, <1>10, <1>11, <1>12

(* A step that moves requests on, with their counts and windows as they    *)
(* are, and decides nothing against the counts.                            *)
LEMMA MovesOn ==
  ASSUME IInv, req' \in [Requests -> ReqState],
         \A r \in Requests :
           /\ req'[r].count = req[r].count /\ req'[r].window = req[r].window
           /\ req'[r].incrs = req[r].incrs
           /\ req'[r].pc # "new" \/ req[r].pc = "new"
           /\ req'[r].pc = "passed" => req[r].count <= Limit
           /\ req'[r].pc = "refused" => req[r].count > Limit,
         ttl' \in BOOLEAN,
         UNCHANGED <<counter, window, faults>>
  PROVE  IInv'
<1>1. \A v : InWindow(v)' = InWindow(v)
  BY DEF InWindow
<1>2. Applied' = Applied
  BY DEF Applied
<1>3. IncrsCounted' /\ CountsBacked'
  BY <1>1, <1>2 DEF IInv, IncrsCounted, CountsBacked
<1>. QED
  BY <1>3 DEF IInv, TypeOK, WindowsKnown, IncrsLeft, CountsDiffer, DecidedByCount, At

LEMMA GotoStep ==
  ASSUME IInv, NEW r \in Requests,
         NEW pc \in {"decide", "passed", "refused"}, Goto(r, pc),
         pc = "passed" => req[r].count <= Limit,
         pc = "refused" => req[r].count > Limit,
         ttl' \in BOOLEAN,
         UNCHANGED <<counter, window, faults>>
  PROVE  IInv'
<1>1. req[r] \in ReqState
  BY DEF IInv, TypeOK
<1>2. req'[r] = [req[r] EXCEPT !.pc = pc] /\ \A s \in Requests : s # r => req'[s] = req[s]
  BY DEF Goto, IInv, TypeOK
<1>3. req' \in [Requests -> ReqState]
  BY <1>1 DEF Goto, IInv, TypeOK, ReqState
<1>. QED
  BY <1>1, <1>2, <1>3, MovesOn DEF IInv, ReqState, DecidedByCount, At

(* A request that is new has INCRs left to send: one, or one and retries.  *)
LEMMA IncrStep ==
  ASSUME IInv, NEW r \in Requests, Incr(r)
  PROVE  IInv'
<1>1. counter \in Nat /\ req[r].incrs <= MaxRetries
  BY CountsInNat DEF IInv, TypeOK, IncrsLeft, Incr
<1>2. counter + 1 # 0 /\ counter + 1 \in {0, counter + 1}
  BY <1>1
<1>3. AfterIncr \in {"expire", "decide"}
  BY DEF AfterIncr
<1>. QED  BY <1>1, <1>2, <1>3, Joins DEF Incr

(* INCR without an answer adds to the key and to the INCRs of its request; *)
(* nobody learns anything from it.                                         *)
LEMMA IncrUnheardStep ==
  ASSUME IInv, NEW r \in Requests, IncrUnheard(r)
  PROVE  IInv'
<1>1. /\ counter \in Nat /\ req[r] \in ReqState /\ req[r].incrs \in Nat
      /\ req[r].incrs < MaxRetries /\ "redis" \in faults
      /\ \A s \in Requests : req[s].count \in Nat
  BY CountsInNat DEF IInv, TypeOK, ReqState, IncrUnheard
<1>2. /\ req'[r] = [req[r] EXCEPT !.incrs = @ + 1]
      /\ \A s \in Requests : s # r => req'[s] = req[s]
  BY DEF IncrUnheard, IInv, TypeOK
<1>3. /\ req'[r] \in ReqState
      /\ req'[r].incrs = req[r].incrs + 1
      /\ \A s \in Requests :
           /\ req'[s].pc = req[s].pc /\ req'[s].count = req[s].count
           /\ req'[s].window = req[s].window
  BY <1>1, <1>2, CountsInNat DEF ReqState
<1>4. IncrsCounted' /\ counter' \in 0..MaxCount
  BY <1>1, <1>2, <1>3, CountsInNat, OneMoreIncr DEF IncrUnheard
<1>5. TypeOK'
  <2>1. req' \in [Requests -> ReqState]
    BY <1>2, <1>3 DEF IncrUnheard, IInv, TypeOK
  <2>. QED  BY <1>4, <2>1 DEF IncrUnheard, IInv, TypeOK
<1>6. IncrsLeft'
  <2>1. req'[r].incrs <= MaxRetries
    BY <1>1, <1>3, CountsInNat
  <2>2. \A s \in Requests : s # r /\ req[s].pc = "new" => req'[s].incrs <= MaxRetries
    BY <1>2 DEF IInv, IncrsLeft, At
  <2>. QED  BY <1>3, <2>1, <2>2 DEF IncrsLeft, At
<1>7. WindowsKnown' /\ DecidedByCount'
  BY <1>3 DEF IncrUnheard, IInv, WindowsKnown, DecidedByCount, At
<1>8. CountsDiffer'
  BY <1>1, <1>3 DEF IncrUnheard, IInv, CountsDiffer
<1>9. CountsBacked'
  BY <1>1 DEF IncrUnheard, CountsBacked
<1>. QED  BY <1>4, <1>5, <1>6, <1>7, <1>8, <1>9 DEF IInv

LEMMA IncrFailsStep ==
  ASSUME IInv, NEW r \in Requests, IncrFails(r)
  PROVE  IInv'
<1>1. /\ req[r] \in ReqState /\ req[r].count = 0 /\ At(r, "new")
      /\ req[r].incrs <= MaxRetries /\ Limit \in Nat
  BY CountsInNat DEF IInv, TypeOK, WindowsKnown, IncrsLeft, IncrFails
<1>2. CASE counter' = counter + 1 /\ Counted(r, "passed", 0)
  BY <1>1, <1>2, Joins DEF IncrFails
<1>3. CASE counter' = counter /\ Goto(r, "passed")
  <2>1. ttl' \in BOOLEAN
    BY DEF IInv, TypeOK, IncrFails
  <2>2. req[r].count <= Limit
    BY <1>1
  <2>. QED  BY <1>3, <2>1, <2>2, GotoStep DEF IncrFails
<1>. QED  BY <1>2, <1>3 DEF IncrFails

LEMMA ExpireStep ==
  ASSUME IInv, NEW r \in Requests, Expire(r)
  PROVE  IInv'
<1>1. ttl' \in BOOLEAN
  <2>1. (counter > 0) \in BOOLEAN
    OBVIOUS
  <2>2. CASE ttl' = (counter > 0)
    BY <2>1, <2>2, Zenon
  <2>3. CASE ttl' = ttl
    BY <2>3 DEF IInv, TypeOK
  <2>. QED  BY <2>2, <2>3 DEF Expire
<1>2. CASE Goto(r, "decide")
  BY <1>1, <1>2, GotoStep DEF Expire
<1>3. CASE req' = req
  <2>1. req \in [Requests -> ReqState]
    BY DEF IInv, TypeOK
  <2>2. \A s \in Requests :
          (req[s].pc = "passed" => req[s].count <= Limit) /\ (req[s].pc = "refused" => req[s].count > Limit)
    BY DEF IInv, DecidedByCount, At
  <2>. QED  BY <1>1, <1>3, <2>1, <2>2, MovesOn DEF Expire
<1>. QED  BY <1>2, <1>3 DEF Expire

LEMMA DecideStep ==
  ASSUME IInv, NEW r \in Requests, Decide(r)
  PROVE  IInv'
<1>1. req[r].count \in Nat /\ Limit \in Nat /\ ttl \in BOOLEAN
  BY RateLimiterAssumption, FS_CardinalityType DEF IInv, TypeOK, ReqState
<1>2. CASE req[r].count > Limit
  BY <1>1, <1>2, GotoStep DEF Decide
<1>3. CASE ~(req[r].count > Limit)
  BY <1>1, <1>3, GotoStep DEF Decide
<1>. QED  BY <1>2, <1>3

LEMMA WindowEndsStep ==
  ASSUME IInv, WindowEnds
  PROVE  IInv'
<1>1. /\ window \in Nat /\ window >= 1 /\ window < MaxWindows /\ MaxWindows \in Nat
      /\ \A r \in Requests : req[r] \in ReqState
      /\ Cardinality(Requests) \in Nat
  BY RateLimiterAssumption, FS_CardinalityType DEF IInv, TypeOK, WindowEnds
<1>2. \A v : InWindow(v)' = InWindow(v)
  BY DEF InWindow, WindowEnds
<1>3. \A r \in Requests : req[r].window # window + 1
  BY <1>1 DEF IInv, WindowsKnown, ReqState
<1>4. TypeOK'
  <2>1. ttl' \in BOOLEAN
    BY DEF WindowEnds
  <2>2. counter' \in 0..MaxCount /\ window' \in 1..MaxWindows
    BY <1>1, CountsInNat DEF WindowEnds
  <2>. QED  BY <2>1, <2>2 DEF IInv, TypeOK, WindowEnds
<1>7. WindowsKnown'
  BY <1>1 DEF IInv, WindowsKnown, WindowEnds, ReqState, At
<1>5. CountsBacked'
  BY <1>2, InWindowFinite DEF IInv, CountsBacked, WindowEnds
<1>6. CountsDiffer' /\ DecidedByCount' /\ IncrsLeft'
  BY <1>3 DEF IInv, CountsDiffer, DecidedByCount, IncrsLeft, WindowEnds, At
<1>8. IncrsCounted'
  <2>1. Applied' = Applied
    BY DEF Applied, WindowEnds
  <2>2. Applied \in SUBSET (Requests \X (1..(MaxRetries + 1)))
    BY DEF Applied
  <2>3. Cardinality(Applied) \in Nat
    BY <2>2, IncrsFinite, FS_Subset, FS_CardinalityType
  <2>. QED  BY <2>1, <2>3 DEF IncrsCounted, WindowEnds
<1>. QED  BY <1>4, <1>5, <1>6, <1>7, <1>8 DEF IInv

LEMMA CrashStep ==
  ASSUME IInv, Crash
  PROVE  IInv'
<1>1. ttl' \in BOOLEAN
  BY DEF IInv, TypeOK, Crash
<1>2. \A r \in Requests : req[r] \in ReqState
  BY DEF IInv, TypeOK
<1>3. \A r \in Requests :
        req'[r] = IF InHand(r) THEN [req[r] EXCEPT !.pc = "dead"] ELSE req[r]
  BY DEF Crash
<1>4. \A r \in Requests :
        /\ req'[r] \in ReqState
        /\ req'[r].count = req[r].count /\ req'[r].window = req[r].window
        /\ req'[r].incrs = req[r].incrs
        /\ req'[r].pc = req[r].pc \/ req'[r].pc = "dead"
  BY <1>2, <1>3 DEF ReqState
<1>5. req' \in [Requests -> ReqState]
  BY <1>4 DEF Crash
<1>. QED
  BY <1>1, <1>4, <1>5, MovesOn DEF Crash, IInv, DecidedByCount, At

(* The counts and the windows of the requests fit together in every state. *)
THEOREM Invariance == Spec => []IInv
<1>1. IInv /\ [Next]_vars => IInv'
  <2>. SUFFICES ASSUME IInv, [Next]_vars PROVE IInv'
    OBVIOUS
  <2>1. ASSUME NEW r \in Requests, Step(r) PROVE IInv'
    BY <2>1, IncrStep, IncrUnheardStep, IncrFailsStep, ExpireStep, DecideStep DEF Step
  <2>2. CASE UNCHANGED vars
    BY <2>2 DEF vars, IInv, TypeOK, WindowsKnown, IncrsLeft, IncrsCounted, Applied, CountsBacked,
                CountsDiffer, DecidedByCount, At, InWindow
  <2>. QED  BY <2>1, <2>2, WindowEndsStep, CrashStep DEF Next, Finished
<1>. QED  BY InitIInv, <1>1, PTL DEF Spec

(* The key and the requests keep their types; in particular the key counts *)
(* no request more than MaxRetries + 1 times, whatever answers are lost.   *)
THEOREM TypeCorrectness == Spec => []TypeOK
<1>1. IInv => TypeOK
  BY DEF IInv
<1>. QED  BY Invariance, <1>1, PTL

(* In one window no more than Limit of the counted requests pass: their    *)
(* counts differ and none is above Limit, lost answers or not.             *)
THEOREM LimitCorrectness == Spec => []LimitKept
<1>1. ASSUME IInv, NEW v \in 1..MaxWindows
      PROVE  Cardinality({r \in Requests : At(r, "passed") /\ req[r].window = v /\ req[r].count > 0})
               <= Limit
  <2>. DEFINE S == {r \in Requests : At(r, "passed") /\ req[r].window = v /\ req[r].count > 0}
              f == [r \in S |-> req[r].count]
  <2>1. Limit \in Nat /\ \A r \in S : req[r].count \in Nat
    BY <1>1, RateLimiterAssumption, FS_CardinalityType DEF IInv, TypeOK, ReqState
  <2>2. \A r \in S : req[r].count \in 1..Limit
    BY <1>1, <2>1 DEF IInv, DecidedByCount
  <2>3. \A r, s \in S : req[r].count = req[s].count => r = s
    BY <1>1 DEF IInv, CountsDiffer
  <2>4. f \in Injection(S, 1..Limit)
    BY <2>2, <2>3 DEF Injection, IsInjective
  <2>5. IsFiniteSet(1..Limit) /\ Cardinality(1..Limit) = Limit
    BY <2>1, FS_Interval
  <2>. QED  BY <2>4, <2>5, FS_Injection
<1>2. IInv => LimitKept
  BY <1>1 DEF LimitKept
<1>. QED  BY Invariance, <1>2, PTL

(* While Redis answers, a refused request has learnt a count above Limit,  *)
(* and that many requests belong to its window, those the process died     *)
(* with among them.                                                        *)
THEOREM RefusalCorrectness == Spec => []RefusedOnlyWhenFull
<1>1. ASSUME IInv, "redis" \notin faults, NEW r \in Requests, At(r, "refused")
      PROVE  Cardinality({s \in Requests : s # r /\ req[s].window = req[r].window}) >= Limit
  <2>. DEFINE Others == {s \in Requests : s # r /\ req[s].window = req[r].window}
  <2>1. req[r].count \in Nat /\ Limit \in Nat /\ req[r].count > Limit
    BY <1>1, RateLimiterAssumption, FS_CardinalityType DEF IInv, TypeOK, ReqState, DecidedByCount
  <2>2. Cardinality(InWindow(req[r].window)) > Limit
    BY <1>1, <2>1, InWindowFinite DEF IInv, CountsBacked
  <2>3. Others = InWindow(req[r].window) \ {r}
    BY DEF InWindow
  <2>4. r \in InWindow(req[r].window)
    BY DEF InWindow
  <2>5. Cardinality(Others) = Cardinality(InWindow(req[r].window)) - 1
    BY <2>3, <2>4, InWindowFinite, FS_RemoveElement
  <2>6. Cardinality(InWindow(req[r].window)) \in Nat
    BY InWindowFinite
  <2>. HIDE DEF Others
  <2>7. Cardinality(Others) >= Limit
    BY <2>1, <2>2, <2>5, <2>6
  <2>. QED  BY <2>7 DEF Others
<1>2. IInv => RefusedOnlyWhenFull
  BY <1>1 DEF RefusedOnlyWhenFull
<1>. QED  BY Invariance, <1>2, PTL
=============================================================================
