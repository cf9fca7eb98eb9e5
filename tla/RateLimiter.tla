----------------------------- MODULE RateLimiter -----------------------------
(***************************************************************************)
(* The fixed-window rate limiter of the order service's HTTP layer, for    *)
(* the requests of one client address: a counter in Redis that every       *)
(* request increments and the first of a window gives its time to live.    *)
(* INCR and EXPIRE are two commands, and other requests, failures and a    *)
(* crash of the process come between them.  The Redis client repeats a     *)
(* command whose answer it did not get, up to MaxRetries times, whether or *)
(* not Redis carried it out.                                               *)
(***************************************************************************)
EXTENDS Naturals, FiniteSets

CONSTANTS Requests,    \* requests from one address
          Limit,       \* requests per window, 10 in main
          MaxRetries,  \* times the Redis client repeats a command, 3 by default
          MaxWindows,  \* bound: windows a run may count
          Environments \* sets of failures: "redis", "crash"

ASSUME RateLimiterAssumption ==
  /\ IsFiniteSet(Requests)
  /\ Limit \in Nat \ {0}
  /\ MaxRetries \in Nat
  /\ MaxWindows \in Nat \ {0}

VARIABLES counter,  \* value of rate_limit:{ip}, 0 for no key
          ttl,      \* whether the key has a time to live
          window,   \* number of the present window, for the properties
          req,      \* the state of each request
          faults    \* the failures this behaviour may meet, chosen once

vars == <<counter, ttl, window, req, faults>>

(* Redis carries out a command once, and once more for every repetition. *)
MaxCount == Cardinality(Requests) * (MaxRetries + 1)

ReqState ==
  [pc : {"new", "expire", "decide", "passed", "refused", "dead"},
   count : 0..MaxCount,
   window : 0..MaxWindows,
   incrs : 0..(MaxRetries + 1)]   \* INCRs Redis carried out for it

Init ==
  /\ counter = 0
  /\ ttl = FALSE
  /\ window = 1
  /\ req = [r \in Requests |-> [pc |-> "new", count |-> 0, window |-> 0, incrs |-> 0]]
  /\ faults \in Environments

At(r, pc) == req[r].pc = pc
Goto(r, pc) == req' = [req EXCEPT ![r].pc = pc]

(* Request r is counted in the present window and learns that it is the    *)
(* n-th, or 0 when it learns nothing.                                      *)
Counted(r, pc, n) ==
  req' = [req EXCEPT ![r] = [pc |-> pc, count |-> n, window |-> window, incrs |-> @.incrs + 1]]

AfterIncr == IF counter = 0 THEN "expire" ELSE "decide"

(* Mutant: every request is counted twice. *)
IncrTwice(r) ==
  /\ At(r, "new")
  /\ counter' = counter + 2
  /\ Counted(r, AfterIncr, counter + 2)
  /\ UNCHANGED <<ttl, window, faults>>

(* Mutant: the counter is read before it is written back. *)
IncrReadsOnly(r) ==
  /\ At(r, "new")
  /\ Counted(r, AfterIncr, counter + 1)
  /\ counter' = IF counter = 0 THEN 1 ELSE counter
  /\ UNCHANGED <<ttl, window, faults>>

(* INCR makes the key if there is none; its result is the count. *)
Incr(r) ==
  /\ At(r, "new")
  /\ counter' = counter + 1
  /\ Counted(r, AfterIncr, counter + 1)
  /\ UNCHANGED <<ttl, window, faults>>

(* INCR is carried out, its answer is lost, and the client repeats it: the *)
(* request will be counted again, perhaps in the next window.              *)
IncrUnheard(r) ==
  /\ At(r, "new")
  /\ "redis" \in faults
  /\ req[r].incrs < MaxRetries
  /\ counter' = counter + 1
  /\ req' = [req EXCEPT ![r].incrs = @ + 1]
  /\ UNCHANGED <<ttl, window, faults>>

(* The last attempt fails too, carried out or not: the request passes. *)
IncrFails(r) ==
  /\ At(r, "new")
  /\ "redis" \in faults
  /\ \/ counter' = counter + 1 /\ Counted(r, "passed", 0)
     \/ counter' = counter /\ Goto(r, "passed")
  /\ UNCHANGED <<ttl, window, faults>>

(* Mutant: EXPIRE is left out. *)
ExpireSkipped(r) ==
  /\ At(r, "expire")
  /\ Goto(r, "decide")
  /\ UNCHANGED <<counter, ttl, window, faults>>

(* EXPIRE for the first request of a window; its error is ignored.  It too *)
(* is repeated when its answer is lost, and may meet a later key then.     *)
Expire(r) ==
  /\ At(r, "expire")
  /\ \/ ttl' = (counter > 0) /\ Goto(r, "decide")
     \/ "redis" \in faults /\ UNCHANGED ttl /\ Goto(r, "decide")
     \/ "redis" \in faults /\ ttl' = (counter > 0) /\ UNCHANGED req
  /\ UNCHANGED <<counter, window, faults>>

(* Mutant: the last place of a window is not given away. *)
DecideEarly(r) ==
  /\ At(r, "decide")
  /\ Goto(r, IF req[r].count >= Limit THEN "refused" ELSE "passed")
  /\ UNCHANGED <<counter, ttl, window, faults>>

Decide(r) ==
  /\ At(r, "decide")
  /\ Goto(r, IF req[r].count > Limit THEN "refused" ELSE "passed")
  /\ UNCHANGED <<counter, ttl, window, faults>>

Step(r) == Incr(r) \/ IncrUnheard(r) \/ IncrFails(r) \/ Expire(r) \/ Decide(r)

(* The time to live runs out and Redis drops the key: a new window. *)
WindowEnds ==
  /\ ttl
  /\ window < MaxWindows
  /\ counter' = 0
  /\ ttl' = FALSE
  /\ window' = window + 1
  /\ UNCHANGED <<req, faults>>

InHand(r) ==
  \/ req[r].pc \in {"expire", "decide"}
  \/ At(r, "new") /\ req[r].incrs > 0

(* The process crashes and restarts; Redis keeps the key as it is. *)
Crash ==
  /\ "crash" \in faults
  /\ req' = [r \in Requests |-> IF InHand(r) THEN [req[r] EXCEPT !.pc = "dead"] ELSE req[r]]
  /\ UNCHANGED <<counter, ttl, window, faults>>

Finished ==
  /\ \A r \in Requests : req[r].pc \in {"passed", "refused", "dead"}
  /\ UNCHANGED vars

Next ==
  \/ \E r \in Requests : Step(r)
  \/ WindowEnds
  \/ Crash
  \/ Finished

Spec == Init /\ [][Next]_vars

(* Requests in hand go on, and a key with a time to live is dropped. *)
Fairness ==
  /\ \A r \in Requests : WF_vars(Expire(r)) /\ WF_vars(Decide(r))
  /\ WF_vars(WindowEnds)

FairSpec == Spec /\ Fairness

-----------------------------------------------------------------------------
(* Type correctness of the key and the requests; in particular the key     *)
(* counts a request no more often than the client repeats its INCR.        *)
TypeOK ==
  /\ counter \in 0..MaxCount
  /\ ttl \in BOOLEAN
  /\ window \in 1..MaxWindows
  /\ req \in [Requests -> ReqState]
  /\ faults \in Environments

(* However requests interleave, no more than Limit of those that learnt    *)
(* their count pass in one window, also with crashes, failed EXPIREs and   *)
(* INCRs that were counted twice.                                          *)
LimitKept ==
  \A v \in 1..MaxWindows :
    Cardinality({r \in Requests : At(r, "passed") /\ req[r].window = v /\ req[r].count > 0})
      <= Limit

(* While Redis answers, nobody is refused before Limit other requests were *)
(* counted in the same window, whichever of them has decided first and     *)
(* however many of them died with the process.                             *)
RefusedOnlyWhenFull ==
  "redis" \notin faults =>
    \A r \in Requests :
      At(r, "refused") =>
        Cardinality({s \in Requests : s # r /\ req[s].window = req[r].window}) >= Limit

(* Unless a failure leaves the key without a time to live, the window of a *)
(* client over its limit ends, but for the last window of the bound.       *)
WindowsEnd ==
  faults = {} /\ counter > Limit /\ window < MaxWindows ~> counter = 0
=============================================================================
