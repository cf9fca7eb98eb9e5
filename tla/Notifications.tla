---------------------------- MODULE Notifications ----------------------------
(***************************************************************************)
(* The notification service: the consumer of queue payment.completed, its  *)
(* worker goroutines, the SetNX claim in Redis that makes the handling of  *)
(* a message idempotent, the e-mail retry loop, and the ack or nack that   *)
(* ends a delivery.  The broker is modelled as the service uses it: manual *)
(* acknowledgement, no prefetch limit, unacked messages requeued when the  *)
(* connection closes, rejected ones moved to the dead letter queue.        *)
(***************************************************************************)
EXTENDS Naturals

CONSTANTS Messages,    \* events the broker accepts; each has its own MessageID
          Malformed,   \* those whose body is not JSON
          Workers,     \* places of the semaphore, 2 in the code
          MaxRetries,  \* MAX_RETRIES of the environment, 3 by default
          Environments \* sets of failures: "mail", "smtp", "redis", "expiry",
                       \* "connection", "crash", "stop"

ASSUME NotificationsAssumption ==
  /\ Malformed \subseteq Messages
  /\ Messages \cap {"none", "waiting", "ended"} = {}
  /\ MaxRetries \in Nat \ {0}

VARIABLES place,    \* where the broker has each message
          buffer,   \* deliveries the client library holds for the loop
          loop,     \* the loop of Start: waiting, ended, or holding a delivery
          worker,   \* the goroutine on each place of the semaphore
          keys,     \* messages whose key processed:{message_id} is set
          sent,     \* e-mails handed to the provider, counted up to SentCap
          svc,      \* the process: up, stopping (context cancelled), down
          conn,     \* its broker connection, opened at start and never again
          faults,   \* the failures this behaviour may meet, chosen once
          excused   \* for the properties: messages whose key expired while they
                    \* were unsettled, or whose e-mail was reported wrongly

vars == <<place, buffer, loop, worker, keys, sent, svc, conn, faults, excused>>

None == "none"
Waiting == "waiting"
Ended == "ended"
SentCap == 2        \* bound: two stands for more than once

IdleWorker == [pc |-> "idle", msg |-> None, failures |-> 0]

WorkerState ==
  [pc : {"idle", "claim", "send", "release", "ack", "nack"},
   msg : Messages \cup {None},
   failures : 0..(MaxRetries + 1)]

Init ==
  /\ place = [m \in Messages |-> "unpublished"]
  /\ buffer = {}
  /\ loop = Waiting
  /\ worker = [w \in Workers |-> IdleWorker]
  /\ keys = {}
  /\ sent = [m \in Messages |-> 0]
  /\ svc = "up"
  /\ conn = "open"
  /\ faults \in Environments
  /\ excused = {}

-----------------------------------------------------------------------------
(* The broker *)

(* The payment service publishes an event. *)
Publish(m) ==
  /\ place[m] = "unpublished"
  /\ place' = [place EXCEPT ![m] = "ready"]
  /\ UNCHANGED <<buffer, loop, worker, keys, sent, svc, conn, faults, excused>>

(* Mutant: the queue is consumed with auto-ack. *)
DeliverAutoAck(m) ==
  /\ conn = "open"
  /\ place[m] = "ready"
  /\ place' = [place EXCEPT ![m] = "acked"]
  /\ buffer' = buffer \cup {m}
  /\ UNCHANGED <<loop, worker, keys, sent, svc, conn, faults, excused>>

Deliver(m) ==
  /\ conn = "open"
  /\ place[m] = "ready"
  /\ place' = [place EXCEPT ![m] = "unacked"]
  /\ buffer' = buffer \cup {m}
  /\ UNCHANGED <<loop, worker, keys, sent, svc, conn, faults, excused>>

Requeued == [m \in Messages |-> IF place[m] = "unacked" THEN "ready" ELSE place[m]]

-----------------------------------------------------------------------------
(* The loop of Start *)

(* A delivery is received, also one of the last before a closed channel or *)
(* a cancelled context is noticed: select chooses among what is ready.     *)
Receive(m) ==
  /\ loop = Waiting
  /\ m \in buffer
  /\ buffer' = buffer \ {m}
  /\ loop' = m
  /\ UNCHANGED <<place, worker, keys, sent, svc, conn, faults, excused>>

(* ctx.Done, or the channel of deliveries is closed: the loop is over. *)
LoopEnds ==
  /\ loop = Waiting
  /\ svc = "stopping" \/ conn = "closed"
  /\ svc # "down"
  /\ loop' = Ended
  /\ UNCHANGED <<place, buffer, worker, keys, sent, svc, conn, faults, excused>>

(* The semaphore has a place for a goroutine, which decodes the body. *)
StartWorker(w) ==
  /\ loop \in Messages
  /\ worker[w].pc = "idle"
  /\ worker' = [worker EXCEPT ![w] =
       [pc |-> IF loop \in Malformed THEN "nack" ELSE "claim", msg |-> loop, failures |-> 0]]
  /\ loop' = Waiting
  /\ UNCHANGED <<place, buffer, keys, sent, svc, conn, faults, excused>>

-----------------------------------------------------------------------------
(* ProcessPaymentCompleted *)

At(w, pc) == worker[w].pc = pc
Goto(w, pc) == worker' = [worker EXCEPT ![w].pc = pc]

(* Redis commands are given the context that the shutdown cancels. *)
RedisMayFail == "redis" \in faults \/ svc = "stopping"

ClaimNew(w) ==
  /\ At(w, "claim")
  /\ worker[w].msg \notin keys
  /\ keys' = keys \cup {worker[w].msg}
  /\ Goto(w, "send")
  /\ UNCHANGED <<place, buffer, loop, sent, svc, conn, faults, excused>>

(* Mutant: a claimed message is sent for all that. *)
ClaimFindsAndSends(w) ==
  /\ At(w, "claim")
  /\ worker[w].msg \in keys
  /\ Goto(w, "send")
  /\ UNCHANGED <<place, buffer, loop, keys, sent, svc, conn, faults, excused>>

(* Mutant: a duplicate is dropped without settling its delivery. *)
ClaimFindsForgets(w) ==
  /\ At(w, "claim")
  /\ worker[w].msg \in keys
  /\ worker' = [worker EXCEPT ![w] = IdleWorker]
  /\ UNCHANGED <<place, buffer, loop, keys, sent, svc, conn, faults, excused>>

(* The key exists: the message is skipped.  So is one whose own SETNX the  *)
(* client library repeated because the first answer was lost.              *)
ClaimFinds(w) ==
  /\ At(w, "claim")
  /\ "redis" \in faults \/ worker[w].msg \in keys
  /\ keys' = keys \cup {worker[w].msg}
  /\ Goto(w, "ack")
  /\ UNCHANGED <<place, buffer, loop, sent, svc, conn, faults, excused>>

(* The command fails, before or after Redis has carried it out. *)
ClaimFails(w) ==
  /\ At(w, "claim")
  /\ RedisMayFail
  /\ keys' \in {keys, keys \cup {worker[w].msg}}
  /\ Goto(w, "nack")
  /\ UNCHANGED <<place, buffer, loop, sent, svc, conn, faults, excused>>

CountedUp(m) == [sent EXCEPT ![m] = IF sent[m] < SentCap THEN sent[m] + 1 ELSE sent[m]]

(* Mutant: the loop goes on after an e-mail that was accepted. *)
SendKeepsTrying(w) ==
  /\ At(w, "send")
  /\ sent' = CountedUp(worker[w].msg)
  /\ Goto(w, "release")
  /\ UNCHANGED <<place, buffer, loop, keys, svc, conn, faults, excused>>

Send(w) ==
  /\ At(w, "send")
  /\ sent' = CountedUp(worker[w].msg)
  /\ Goto(w, "ack")
  /\ UNCHANGED <<place, buffer, loop, keys, svc, conn, faults, excused>>

(* Mutant: one attempt too many. *)
SendFailsOnceMore(w) ==
  /\ At(w, "send")
  /\ "mail" \in faults
  /\ worker' = [worker EXCEPT ![w].failures = @ + 1,
                              ![w].pc = IF worker[w].failures <= MaxRetries THEN "send" ELSE "release"]
  /\ UNCHANGED <<place, buffer, loop, keys, sent, svc, conn, faults, excused>>

(* The sender reports an error: "mail", the e-mail was not accepted, or    *)
(* "smtp", it was and only the end of the SMTP dialogue failed.  The loop  *)
(* makes MaxRetries more attempts after the first.                         *)
SendFails(w) ==
  /\ At(w, "send")
  /\ \/ "mail" \in faults /\ UNCHANGED <<sent, excused>>
     \/ /\ "smtp" \in faults
        /\ sent' = CountedUp(worker[w].msg)
        /\ excused' = excused \cup {worker[w].msg}
  /\ worker' = [worker EXCEPT ![w].failures = @ + 1,
                              ![w].pc = IF worker[w].failures < MaxRetries THEN "send" ELSE "release"]
  /\ UNCHANGED <<place, buffer, loop, keys, svc, conn, faults>>

(* All attempts failed: the key is deleted, if Redis obliges. *)
Release(w) ==
  /\ At(w, "release")
  /\ \/ keys' = keys \ {worker[w].msg}
     \/ RedisMayFail /\ UNCHANGED keys
  /\ Goto(w, "nack")
  /\ UNCHANGED <<place, buffer, loop, sent, svc, conn, faults, excused>>

(* Ack or Nack(requeue = false); on a closed connection it has no effect. *)
SettleAs(w, p) ==
  /\ place' = [place EXCEPT ![worker[w].msg] = IF conn = "open" THEN p ELSE @]
  /\ worker' = [worker EXCEPT ![w] = IdleWorker]
  /\ UNCHANGED <<buffer, loop, keys, sent, svc, conn, faults, excused>>

Ack(w) == At(w, "ack") /\ SettleAs(w, "acked")

(* Mutant: the rejected message is requeued. *)
NackRequeues(w) == At(w, "nack") /\ SettleAs(w, "ready")

Nack(w) == At(w, "nack") /\ SettleAs(w, "dead")

WorkerStep(w) ==
  \/ ClaimNew(w)
  \/ ClaimFinds(w)
  \/ ClaimFails(w)
  \/ Send(w)
  \/ SendFails(w)
  \/ Release(w)
  \/ Ack(w)
  \/ Nack(w)

Settled(m) == place[m] \in {"acked", "dead"}

(* The 24-hour TTL of a key runs out; no worker takes that long. *)
KeyExpires(m) ==
  /\ "expiry" \in faults
  /\ m \in keys
  /\ \A w \in Workers : worker[w].msg # m
  /\ keys' = keys \ {m}
  /\ excused' = IF Settled(m) THEN excused ELSE excused \cup {m}
  /\ UNCHANGED <<place, buffer, loop, worker, sent, svc, conn, faults>>

-----------------------------------------------------------------------------
(* The process *)

CloseConn ==
  /\ conn' = "closed"
  /\ place' = Requeued
  /\ UNCHANGED <<loop, worker, keys, sent, svc, faults, excused>>

(* The connection breaks; nothing in the service opens another.  What the  *)
(* client library still holds may yet reach the loop.                      *)
ConnectionLost ==
  /\ "connection" \in faults
  /\ conn = "open"
  /\ CloseConn
  /\ UNCHANGED buffer

(* SIGTERM: main cancels the context ... *)
Sigterm ==
  /\ "stop" \in faults
  /\ svc = "up"
  /\ svc' = "stopping"
  /\ UNCHANGED <<place, buffer, loop, worker, keys, sent, conn, faults, excused>>

(* ... closes the consumer ... *)
CloseConsumer ==
  /\ svc = "stopping"
  /\ conn = "open"
  /\ CloseConn
  /\ UNCHANGED buffer

(* The process is gone, its goroutines and its connection with it. *)
Die ==
  /\ svc' = "down"
  /\ conn' = "closed"
  /\ place' = Requeued
  /\ buffer' = {}
  /\ loop' = Ended
  /\ worker' = [w \in Workers |-> IdleWorker]
  /\ UNCHANGED <<keys, sent, faults, excused>>

(* ... and returns, without waiting for the loop or the workers. *)
Exit ==
  /\ svc = "stopping"
  /\ conn = "closed"
  /\ Die

Crash ==
  /\ "crash" \in faults
  /\ svc # "down"
  /\ Die

Restart ==
  /\ svc = "down"
  /\ svc' = "up"
  /\ conn' = "open"
  /\ loop' = Waiting
  /\ UNCHANGED <<place, buffer, worker, keys, sent, faults, excused>>

Process == ConnectionLost \/ Sigterm \/ CloseConsumer \/ Exit \/ Crash \/ Restart

(* Nothing more happens once every message is settled, or once the loop of *)
(* a process that lives on without its connection has ended.               *)
Finished ==
  /\ \A w \in Workers : At(w, "idle")
  /\ (\A m \in Messages : Settled(m)) \/ (svc = "up" /\ loop = Ended)
  /\ UNCHANGED vars

Next ==
  \/ \E m \in Messages : Publish(m) \/ Deliver(m) \/ Receive(m) \/ KeyExpires(m)
  \/ LoopEnds
  \/ \E w \in Workers : StartWorker(w) \/ WorkerStep(w)
  \/ Process
  \/ Finished

Spec == Init /\ [][Next]_vars

(* The broker delivers what it can, the loop takes what is delivered, and  *)
(* goroutines and main run.  E-mails need not succeed, and nothing need be *)
(* stopped or restarted.                                                   *)
Fairness ==
  /\ \A m \in Messages : WF_vars(Deliver(m)) /\ WF_vars(Receive(m))
  /\ \A w \in Workers : WF_vars(StartWorker(w)) /\ WF_vars(WorkerStep(w))
  /\ WF_vars(CloseConsumer)

FairSpec == Spec /\ Fairness

-----------------------------------------------------------------------------
(* Type correctness of the broker's state, the goroutines and the process. *)
TypeOK ==
  /\ place \in [Messages -> {"unpublished", "ready", "unacked", "acked", "dead"}]
  /\ buffer \subseteq Messages
  /\ loop \in Messages \cup {Waiting, Ended}
  /\ worker \in [Workers -> WorkerState]
  /\ keys \subseteq Messages
  /\ sent \in [Messages -> 0..SentCap]
  /\ svc \in {"up", "stopping", "down"}
  /\ conn \in {"open", "closed"}
  /\ faults \in Environments
  /\ excused \subseteq Messages

(* The claim in Redis: no message is e-mailed twice, through redeliveries,  *)
(* crashes, shutdowns and failures of Redis itself, while its key outlives *)
(* it and the sender's errors are true.                                    *)
AtMostOneEmail == \A m \in Messages \ excused : sent[m] <= 1

(* While the connection is open every delivery awaiting its ack is in one  *)
(* pair of hands, so none stays unacked for ever with nobody to settle it. *)
HandsOn(m) ==
  {w \in Workers : worker[w].msg = m}
    \cup (IF m \in buffer THEN {"buffer"} ELSE {})
    \cup (IF loop = m THEN {"loop"} ELSE {})

NoDeliveryForgotten ==
  conn = "open" =>
    \A m \in Messages : place[m] = "unacked" <=> \E h \in HandsOn(m) : HandsOn(m) = {h}

(* What is in the dead letter queue waits for somebody to handle it: while *)
(* Redis answers, it has not been e-mailed already.                        *)
DeadLettersUnsent ==
  faults \cap {"redis", "stop"} = {} =>
    \A m \in Messages \ excused : place[m] = "dead" => sent[m] = 0

(* A message is settled, one way or the other, unless its consumer loses   *)
(* the connection over which it would be.                                  *)
EveryMessageSettled == \A m \in Messages : place[m] = "ready" ~> Settled(m) \/ conn = "closed"

(* The service implements Delivery: in particular no worker that outlives  *)
(* a connection e-mails a message that is settled.                         *)
Fate(m) == IF place[m] \in {"ready", "unacked"} THEN "queued" ELSE place[m]

Promise == INSTANCE Delivery WITH
             fate <- [m \in Messages |-> Fate(m)], mails <- sent, doubtful <- excused

DeliverySpec == Promise!Spec

(* README: an ack is sent strictly after the e-mail has gone out.          *)
AckedAreSent == \A m \in Messages : place[m] = "acked" => sent[m] > 0
=============================================================================
