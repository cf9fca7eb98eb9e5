------------------------ MODULE NotificationsProofs ------------------------
(***************************************************************************)
(* Proofs about the notification service, for any messages, any number of  *)
(* workers and retries and any failures: its type invariant, that no       *)
(* message is e-mailed twice, that no delivery is forgotten, that dead     *)
(* letters are unsent, and that it implements Delivery.                    *)
(***************************************************************************)
EXTENDS Notifications, TLAPS

(* Somebody in the process has a delivery of m. *)
Held(m) == m \in buffer \/ loop = m \/ \E w \in Workers : worker[w].msg = m

(* A message is in one place of the process at most. *)
OneHolder ==
  /\ loop \notin buffer
  /\ \A w \in Workers :
       /\ At(w, "idle") <=> worker[w].msg = None
       /\ worker[w].msg \notin buffer /\ worker[w].msg # loop
       /\ worker[w].pc \in {"claim", "send"} => worker[w].failures <= MaxRetries
       /\ \A v \in Workers : worker[v].msg = worker[w].msg => v = w \/ At(w, "idle")

(* What is held is unsettled, and over an open connection it is what the   *)
(* broker has as unacked.                                                  *)
HeldWaits ==
  /\ \A m \in Messages : Held(m) => place[m] \in {"ready", "unacked"}
  /\ conn = "open" => \A m \in Messages : place[m] = "unacked" <=> Held(m)
  /\ conn = "closed" => \A m \in Messages : place[m] # "unacked"
  /\ svc = "down" => conn = "closed" /\ \A m \in Messages : ~Held(m)

(* A message that was e-mailed keeps its key until it is settled, and a    *)
(* worker that may send holds the key of a message that was not.           *)
MailsClaimed ==
  /\ \A m \in keys : place[m] # "unpublished"
  /\ \A m \in Messages \ excused :
       sent[m] <= 1 /\ (sent[m] = 1 => m \in keys \/ Settled(m))
  /\ \A w \in Workers :
       /\ At(w, "send") => worker[w].msg \in keys
       /\ At(w, "send") \/ At(w, "release")
            => worker[w].msg \in excused \/ sent[worker[w].msg] = 0

(* While Redis answers, what is rejected was not sent. *)
RejectsUnsent ==
  /\ \A w \in Workers : worker[w].msg \in Malformed => At(w, "nack")
  /\ \A m \in Malformed : sent[m] = 0
  /\ svc = "stopping" => "stop" \in faults
  /\ faults \cap {"redis", "stop"} = {} =>
       /\ \A m \in Messages \ excused : place[m] = "dead" => sent[m] = 0
       /\ \A w \in Workers :
            At(w, "nack") => worker[w].msg \in excused \/ sent[worker[w].msg] = 0

(* The inductive invariant. *)
IInv == TypeOK /\ OneHolder /\ HeldWaits /\ MailsClaimed /\ RejectsUnsent

LEMMA InitIInv == Init => IInv
<1>. SUFFICES ASSUME Init PROVE IInv
  OBVIOUS
<1>1. TypeOK
  BY NotificationsAssumption DEF Init, TypeOK, WorkerState, IdleWorker, SentCap
<1>2. \A m \in Messages : ~Held(m)
  BY NotificationsAssumption DEF Init, Held, IdleWorker, None, Waiting
<1>3. OneHolder
  BY NotificationsAssumption DEF Init, OneHolder, At, IdleWorker, None, Waiting
<1>4. HeldWaits
  BY <1>2 DEF Init, HeldWaits
<1>5. MailsClaimed
  BY DEF Init, MailsClaimed, At, IdleWorker
<1>6. RejectsUnsent
  BY NotificationsAssumption DEF Init, RejectsUnsent, At, IdleWorker, None
<1>. QED  BY <1>1, <1>3, <1>4, <1>5, <1>6 DEF IInv

-----------------------------------------------------------------------------
(* The broker and the loop *)

LEMMA PublishStep ==
  ASSUME IInv, NEW m \in Messages, Publish(m)
  PROVE  IInv'
<1>. USE DEF Publish
<1>1. TypeOK'
  BY DEF IInv, TypeOK
<1>2. \A n \in Messages : Held(n)' <=> Held(n)
  BY DEF Held
<1>3. OneHolder'
  BY DEF IInv, OneHolder, At
<1>4. HeldWaits'
  BY <1>2 DEF IInv, HeldWaits, TypeOK
<1>5. MailsClaimed'
  BY DEF IInv, MailsClaimed, At, TypeOK, Settled
<1>6. RejectsUnsent'
  BY DEF IInv, RejectsUnsent, At, TypeOK
<1>. QED  BY <1>1, <1>3, <1>4, <1>5, <1>6 DEF IInv

LEMMA DeliverStep ==
  ASSUME IInv, NEW m \in Messages, Deliver(m)
  PROVE  IInv'
<1>. USE DEF Deliver
<1>1. TypeOK'
  BY DEF IInv, TypeOK
<1>2. \A n \in Messages : Held(n)' <=> Held(n) \/ n = m
  BY DEF Held
<1>3. ~Held(m)
  BY DEF IInv, HeldWaits
<1>4. OneHolder'
  BY <1>3 DEF IInv, OneHolder, At, Held
<1>5. HeldWaits'
  BY <1>2 DEF IInv, HeldWaits, TypeOK
<1>6. MailsClaimed'
  BY DEF IInv, MailsClaimed, At, TypeOK, Settled
<1>7. RejectsUnsent'
  BY DEF IInv, RejectsUnsent, At, TypeOK
<1>. QED  BY <1>1, <1>4, <1>5, <1>6, <1>7 DEF IInv

LEMMA ReceiveStep ==
  ASSUME IInv, NEW m \in Messages, Receive(m)
  PROVE  IInv'
<1>. USE DEF Receive
<1>1. TypeOK'
  BY DEF IInv, TypeOK
<1>2. \A n \in Messages : Held(n)' <=> Held(n)
  BY NotificationsAssumption DEF Held, Waiting
<1>3. OneHolder'
  BY DEF IInv, OneHolder, At
<1>4. HeldWaits'
  BY <1>2 DEF IInv, HeldWaits
<1>5. MailsClaimed'
  BY DEF IInv, MailsClaimed, At, Settled
<1>6. RejectsUnsent'
  BY DEF IInv, RejectsUnsent, At
<1>. QED  BY <1>1, <1>3, <1>4, <1>5, <1>6 DEF IInv

LEMMA LoopEndsStep ==
  ASSUME IInv, LoopEnds
  PROVE  IInv'
<1>. USE DEF LoopEnds
<1>1. TypeOK'
  BY DEF IInv, TypeOK
<1>2. \A n \in Messages : Held(n)' <=> Held(n)
  BY NotificationsAssumption DEF Held, Waiting, Ended
<1>3. OneHolder'
  BY NotificationsAssumption DEF IInv, OneHolder, At, Ended, TypeOK, WorkerState, None
<1>4. HeldWaits'
  BY <1>2 DEF IInv, HeldWaits
<1>5. MailsClaimed'
  BY DEF IInv, MailsClaimed, At, Settled
<1>6. RejectsUnsent'
  BY DEF IInv, RejectsUnsent, At
<1>. QED  BY <1>1, <1>3, <1>4, <1>5, <1>6 DEF IInv

LEMMA StartWorkerStep ==
  ASSUME IInv, NEW w \in Workers, StartWorker(w)
  PROVE  IInv'
<1>1. /\ worker'[w].pc = IF loop \in Malformed THEN "nack" ELSE "claim"
      /\ worker'[w].msg = loop /\ worker'[w].failures = 0
      /\ \A v \in Workers : v # w => worker'[v] = worker[v]
      /\ worker' \in [Workers -> WorkerState]
  BY NotificationsAssumption DEF IInv, TypeOK, StartWorker, WorkerState
<1>2. worker[w].msg = None /\ None \notin Messages /\ Waiting \notin Messages
  BY NotificationsAssumption DEF IInv, OneHolder, StartWorker, At, None, Waiting
<1>3. TypeOK'
  BY <1>1 DEF IInv, TypeOK, StartWorker
<1>4. \A n \in Messages : Held(n)' <=> Held(n)
  BY <1>1, <1>2 DEF Held, StartWorker
<1>5. OneHolder'
  BY <1>1, <1>2, NotificationsAssumption DEF IInv, OneHolder, At, StartWorker, Waiting, None, TypeOK, WorkerState
<1>6. HeldWaits'
  BY <1>4 DEF IInv, HeldWaits, StartWorker
<1>7. MailsClaimed'
  BY <1>1 DEF IInv, MailsClaimed, At, Settled, StartWorker
<1>8. RejectsUnsent'
  BY <1>1 DEF IInv, RejectsUnsent, At, StartWorker
<1>. QED  BY <1>3, <1>5, <1>6, <1>7, <1>8 DEF IInv

-----------------------------------------------------------------------------
(* The workers *)

(* A worker goes on with the message it has. *)
Moves(w, pc) ==
  /\ worker[w].pc \notin {"idle", "nack", "ack"}
  /\ worker'[w].pc = pc
  /\ worker'[w].msg = worker[w].msg
  /\ \A v \in Workers : v # w => worker'[v] = worker[v]
  /\ pc = "send" => worker'[w].failures <= MaxRetries
  /\ worker' \in [Workers -> WorkerState]
  /\ UNCHANGED <<place, buffer, loop, svc, conn, faults>>

LEMMA GotoMoves ==
  ASSUME IInv, NEW w \in Workers,
         NEW pc \in {"send", "release", "ack", "nack"}, Goto(w, pc),
         worker[w].pc \notin {"idle", "nack", "ack"},
         pc = "send" => worker[w].failures <= MaxRetries,
         UNCHANGED <<place, buffer, loop, svc, conn, faults>>
  PROVE  Moves(w, pc)
<1>1. worker \in [Workers -> WorkerState] /\ worker[w] \in WorkerState
  BY DEF IInv, TypeOK
<1>2. worker'[w] = [worker[w] EXCEPT !.pc = pc] /\ \A v \in Workers : v # w => worker'[v] = worker[v]
  BY <1>1 DEF Goto
<1>3. worker' \in [Workers -> WorkerState]
  BY <1>1 DEF Goto, WorkerState
<1>. QED  BY <1>1, <1>2, <1>3 DEF Moves, WorkerState

(* Who holds what does not change while workers go on. *)
LEMMA MovesKeepHands ==
  ASSUME IInv, NEW w \in Workers,
         NEW pc \in {"send", "release", "ack", "nack"}, Moves(w, pc)
  PROVE  /\ OneHolder' /\ HeldWaits'
         /\ worker[w].msg \in Messages /\ place[worker[w].msg] \in {"ready", "unacked"}
         /\ \A v \in Workers : v # w => worker[v].msg # worker[w].msg
<1>1. \A v \in Workers : worker'[v].msg = worker[v].msg
  BY DEF Moves
<1>2. \A n \in Messages : Held(n)' <=> Held(n)
  BY <1>1 DEF Held, Moves
<1>3. worker[w] \in WorkerState /\ worker[w].msg # None
  BY DEF IInv, TypeOK, OneHolder, Moves, At
<1>4. worker[w].msg \in Messages /\ Held(worker[w].msg)
  BY <1>3 DEF WorkerState, Held
<1>5. OneHolder'
  BY <1>1, <1>3 DEF IInv, OneHolder, At, Moves
<1>6. HeldWaits'
  BY <1>2 DEF IInv, HeldWaits, Moves
<1>7. \A v \in Workers : v # w => worker[v].msg # worker[w].msg
  BY <1>3 DEF IInv, OneHolder, At, Moves
<1>. QED  BY <1>4, <1>5, <1>6, <1>7 DEF IInv, HeldWaits

LEMMA ClaimNewStep ==
  ASSUME IInv, NEW w \in Workers, ClaimNew(w)
  PROVE  IInv'
<1>. DEFINE m == worker[w].msg
<1>1. Moves(w, "send")
  <2>1. worker[w].failures <= MaxRetries
    BY DEF IInv, OneHolder, ClaimNew, At
  <2>. QED  BY <2>1, GotoMoves DEF ClaimNew, At
<1>2. /\ OneHolder' /\ HeldWaits'
      /\ m \in Messages /\ place[m] \in {"ready", "unacked"}
      /\ \A v \in Workers : v # w => worker[v].msg # m
  BY <1>1, MovesKeepHands
<1>3. TypeOK'
  BY <1>1, <1>2 DEF IInv, TypeOK, ClaimNew, Moves
<1>4. m \in excused \/ sent[m] = 0
  BY <1>2 DEF IInv, MailsClaimed, ClaimNew, Settled, TypeOK, SentCap
<1>5. MailsClaimed'
  BY <1>1, <1>2, <1>4 DEF IInv, MailsClaimed, ClaimNew, Moves, At, Settled
<1>6. RejectsUnsent'
  BY <1>1, <1>2 DEF IInv, RejectsUnsent, ClaimNew, Moves, At
<1>. QED  BY <1>2, <1>3, <1>5, <1>6 DEF IInv

LEMMA ClaimFindsStep ==
  ASSUME IInv, NEW w \in Workers, ClaimFinds(w)
  PROVE  IInv'
<1>. DEFINE m == worker[w].msg
<1>1. Moves(w, "ack")
  BY GotoMoves DEF ClaimFinds, At
<1>2. /\ OneHolder' /\ HeldWaits'
      /\ m \in Messages /\ place[m] \in {"ready", "unacked"}
      /\ \A v \in Workers : v # w => worker[v].msg # m
  BY <1>1, MovesKeepHands
<1>3. TypeOK'
  BY <1>1, <1>2 DEF IInv, TypeOK, ClaimFinds, Moves
<1>4. MailsClaimed'
  BY <1>1, <1>2 DEF IInv, MailsClaimed, ClaimFinds, Moves, At, Settled
<1>5. RejectsUnsent'
  BY <1>1, <1>2 DEF IInv, RejectsUnsent, ClaimFinds, Moves, At
<1>. QED  BY <1>2, <1>3, <1>4, <1>5 DEF IInv

LEMMA ClaimFailsStep ==
  ASSUME IInv, NEW w \in Workers, ClaimFails(w)
  PROVE  IInv'
<1>. DEFINE m == worker[w].msg
<1>1. Moves(w, "nack")
  BY GotoMoves DEF ClaimFails, At
<1>2. /\ OneHolder' /\ HeldWaits'
      /\ m \in Messages /\ place[m] \in {"ready", "unacked"}
      /\ \A v \in Workers : v # w => worker[v].msg # m
  BY <1>1, MovesKeepHands
<1>3. keys' = keys \/ keys' = keys \cup {m}
  BY DEF ClaimFails
<1>4. TypeOK'
  BY <1>1, <1>2, <1>3 DEF IInv, TypeOK, ClaimFails, Moves
<1>5. MailsClaimed'
  BY <1>1, <1>2, <1>3 DEF IInv, MailsClaimed, ClaimFails, Moves, At, Settled
<1>6. RejectsUnsent'
  BY <1>1, <1>2 DEF IInv, RejectsUnsent, ClaimFails, RedisMayFail, Moves, At
<1>. QED  BY <1>2, <1>4, <1>5, <1>6 DEF IInv

(* What counting an e-mail does. *)
LEMMA Counting ==
  ASSUME TypeOK, NEW m \in Messages
  PROVE  /\ CountedUp(m) \in [Messages -> 0..SentCap]
         /\ \A n \in Messages : n # m => CountedUp(m)[n] = sent[n]
         /\ sent[m] = 0 => CountedUp(m)[m] = 1
BY DEF TypeOK, CountedUp, SentCap

LEMMA SendStep ==
  ASSUME IInv, NEW w \in Workers, Send(w)
  PROVE  IInv'
<1>. DEFINE m == worker[w].msg
<1>1. Moves(w, "ack")
  BY GotoMoves DEF Send, At
<1>2. /\ OneHolder' /\ HeldWaits'
      /\ m \in Messages /\ place[m] \in {"ready", "unacked"}
      /\ \A v \in Workers : v # w => worker[v].msg # m
  BY <1>1, MovesKeepHands
<1>3. /\ sent' \in [Messages -> 0..SentCap]
      /\ \A n \in Messages : n # m => sent'[n] = sent[n]
      /\ sent[m] = 0 => sent'[m] = 1
  BY <1>2, Counting DEF IInv, Send
<1>4. m \in keys /\ (m \in excused \/ sent[m] = 0) /\ m \notin Malformed
  BY DEF IInv, MailsClaimed, RejectsUnsent, Send, At
<1>5. TypeOK'
  BY <1>1, <1>3 DEF IInv, TypeOK, Send, Moves
<1>6. MailsClaimed'
  <2>1. \A n \in Messages \ excused : sent'[n] <= 1 /\ (sent'[n] = 1 => n \in keys \/ Settled(n))
    BY <1>3, <1>4 DEF IInv, MailsClaimed
  <2>2. \A v \in Workers : v # w => worker[v].msg = None \/ worker[v].msg \in Messages
    BY DEF IInv, TypeOK, WorkerState
  <2>3. \A v \in Workers : At(v, "send")' \/ At(v, "release")' => v # w /\ worker[v].msg \in Messages
    BY <1>1, <2>2 DEF IInv, OneHolder, At, Moves
  <2>. QED
    BY <1>1, <1>2, <1>3, <2>1, <2>3 DEF IInv, MailsClaimed, Send, Moves, At, Settled
<1>7. RejectsUnsent'
  <2>1. \A v \in Workers : At(v, "nack")' => v # w /\ worker[v].msg \in Messages
    BY <1>1 DEF IInv, OneHolder, At, Moves, TypeOK, WorkerState
  <2>. QED
    BY <1>1, <1>2, <1>3, <1>4, <2>1, NotificationsAssumption
    DEF IInv, RejectsUnsent, Send, Moves, At
<1>. QED  BY <1>2, <1>5, <1>6, <1>7 DEF IInv

LEMMA SendFailsStep ==
  ASSUME IInv, NEW w \in Workers, SendFails(w)
  PROVE  IInv'
<1>. DEFINE m == worker[w].msg
            pc == IF worker[w].failures < MaxRetries THEN "send" ELSE "release"
<1>0. MaxRetries \in Nat /\ worker \in [Workers -> WorkerState] /\ worker[w] \in WorkerState
  BY NotificationsAssumption DEF IInv, TypeOK
<1>1. Moves(w, pc)
  <2>1. worker[w].failures \in Nat /\ worker[w].failures <= MaxRetries /\ worker[w].pc = "send"
    BY <1>0 DEF IInv, OneHolder, SendFails, At, WorkerState
  <2>2. worker' = [worker EXCEPT ![w] = [worker[w] EXCEPT !.failures = worker[w].failures + 1, !.pc = pc]]
    BY <1>0 DEF SendFails
  <2>3. worker'[w] = [worker[w] EXCEPT !.failures = worker[w].failures + 1, !.pc = pc]
    BY <1>0, <2>2
  <2>4. /\ worker'[w].pc = pc /\ worker'[w].msg = worker[w].msg
        /\ worker'[w].failures = worker[w].failures + 1
    BY <1>0, <2>3 DEF WorkerState
  <2>5. worker'[w] \in WorkerState
    <3>1. worker[w].failures + 1 \in 0..(MaxRetries + 1) /\ pc \in {"send", "release"}
      BY <1>0, <2>1
    <3>. HIDE DEF pc
    <3>. QED  BY <1>0, <2>3, <3>1 DEF WorkerState
  <2>6. worker' \in [Workers -> WorkerState]
    BY <1>0, <2>2, <2>3, <2>5
  <2>. QED  BY <1>0, <2>1, <2>2, <2>4, <2>6 DEF SendFails, Moves
<1>2. /\ OneHolder' /\ HeldWaits'
      /\ m \in Messages /\ place[m] \in {"ready", "unacked"}
      /\ \A v \in Workers : v # w => worker[v].msg # m
  BY <1>1, MovesKeepHands
<1>3. /\ sent' \in [Messages -> 0..SentCap]
      /\ \A n \in Messages : n # m => sent'[n] = sent[n]
      /\ excused \subseteq excused' /\ excused' \subseteq Messages
      /\ m \in excused' \/ sent'[m] = sent[m]
  BY <1>2, Counting DEF IInv, TypeOK, SendFails
<1>4. m \in keys /\ (m \in excused \/ sent[m] = 0) /\ m \notin Malformed
  BY DEF IInv, MailsClaimed, RejectsUnsent, SendFails, At
<1>5. TypeOK'
  BY <1>1, <1>3 DEF IInv, TypeOK, SendFails, Moves
<1>6. MailsClaimed'
  <2>1. \A n \in Messages \ excused' : sent'[n] <= 1 /\ (sent'[n] = 1 => n \in keys \/ Settled(n))
    BY <1>3 DEF IInv, MailsClaimed
  <2>2. \A v \in Workers : At(v, "send")' \/ At(v, "release")' => worker[v].msg \in Messages
    BY <1>1, <1>2 DEF IInv, OneHolder, At, Moves, TypeOK, WorkerState
  <2>3. At(w, "send")
    BY DEF SendFails
  <2>. QED
    BY <1>1, <1>2, <1>3, <1>4, <2>1, <2>2 DEF IInv, MailsClaimed, SendFails, Moves, At, Settled
<1>7. RejectsUnsent'
  <2>1. \A v \in Workers : At(v, "nack")' => v # w /\ worker[v].msg \in Messages
    BY <1>1 DEF IInv, OneHolder, At, Moves, TypeOK, WorkerState
  <2>. QED
    BY <1>1, <1>2, <1>3, <1>4, <2>1, NotificationsAssumption
    DEF IInv, RejectsUnsent, SendFails, Moves, At
<1>. QED  BY <1>2, <1>5, <1>6, <1>7 DEF IInv

LEMMA ReleaseStep ==
  ASSUME IInv, NEW w \in Workers, Release(w)
  PROVE  IInv'
<1>. DEFINE m == worker[w].msg
<1>1. Moves(w, "nack")
  BY GotoMoves DEF Release, At
<1>2. /\ OneHolder' /\ HeldWaits'
      /\ m \in Messages /\ place[m] \in {"ready", "unacked"}
      /\ \A v \in Workers : v # w => worker[v].msg # m
  BY <1>1, MovesKeepHands
<1>3. (keys' = keys \/ keys' = keys \ {m}) /\ (m \in excused \/ sent[m] = 0)
  BY DEF IInv, MailsClaimed, Release
<1>4. TypeOK'
  BY <1>1, <1>2, <1>3 DEF IInv, TypeOK, Release, Moves
<1>5. MailsClaimed'
  BY <1>1, <1>2, <1>3 DEF IInv, MailsClaimed, Release, Moves, At, Settled
<1>6. RejectsUnsent'
  BY <1>1, <1>2, <1>3 DEF IInv, RejectsUnsent, Release, Moves, At
<1>. QED  BY <1>2, <1>4, <1>5, <1>6 DEF IInv

LEMMA SettleStep ==
  ASSUME IInv, NEW w \in Workers, Ack(w) \/ Nack(w)
  PROVE  IInv'
<1>. DEFINE m == worker[w].msg
<1>1. PICK p \in {"acked", "dead"} : SettleAs(w, p) /\ (p = "dead" => At(w, "nack"))
  BY DEF Ack, Nack
<1>2. /\ worker'[w] = IdleWorker
      /\ \A v \in Workers : v # w => worker'[v] = worker[v]
      /\ worker' \in [Workers -> WorkerState]
  <2>1. IdleWorker \in WorkerState
    BY NotificationsAssumption DEF IdleWorker, WorkerState
  <2>2. worker \in [Workers -> WorkerState] /\ worker' = [worker EXCEPT ![w] = IdleWorker]
    BY <1>1 DEF SettleAs, IInv, TypeOK
  <2>. QED  BY <2>1, <2>2
<1>3. worker[w].msg # None /\ worker[w] \in WorkerState
  BY DEF IInv, OneHolder, TypeOK, Ack, Nack, At
<1>4. m \in Messages /\ Held(m)
  BY <1>3 DEF WorkerState, Held
<1>5. \A n \in Messages : Held(n)' <=> Held(n) /\ n # m
  <2>1. None \notin Messages
    BY NotificationsAssumption DEF None
  <2>. QED
    BY <1>1, <1>2, <1>4, <2>1 DEF SettleAs, Held, IdleWorker, IInv, OneHolder, At
<1>6. /\ \A n \in Messages : n # m => place'[n] = place[n]
      /\ place'[m] = IF conn = "open" THEN p ELSE place[m]
      /\ place' \in [Messages -> {"unpublished", "ready", "unacked", "acked", "dead"}]
  BY <1>1, <1>4 DEF SettleAs, IInv, TypeOK
<1>7. TypeOK'
  BY <1>1, <1>2, <1>6 DEF IInv, TypeOK, SettleAs
<1>8. OneHolder'
  <2>1. None \notin Messages \cup {Waiting, Ended}
    BY NotificationsAssumption DEF None, Waiting, Ended
  <2>. QED
    BY <1>1, <1>2, <2>1 DEF SettleAs, IInv, OneHolder, At, IdleWorker, TypeOK
<1>9. HeldWaits'
  BY <1>1, <1>5, <1>6 DEF SettleAs, IInv, HeldWaits, TypeOK
<1>10. MailsClaimed'
  BY <1>1, <1>2, <1>4, <1>6 DEF SettleAs, IInv, MailsClaimed, HeldWaits, At, Settled, IdleWorker
<1>11. RejectsUnsent'
  <2>1. None \notin Malformed
    BY NotificationsAssumption DEF None
  <2>. QED
    BY <1>1, <1>2, <1>4, <1>6, <2>1 DEF SettleAs, IInv, RejectsUnsent, At, IdleWorker
<1>. QED  BY <1>7, <1>8, <1>9, <1>10, <1>11 DEF IInv

LEMMA KeyExpiresStep ==
  ASSUME IInv, NEW m \in Messages, KeyExpires(m)
  PROVE  IInv'
<1>. USE DEF KeyExpires
<1>1. TypeOK'
  BY DEF IInv, TypeOK
<1>2. \A n \in Messages : Held(n)' <=> Held(n)
  BY DEF Held
<1>3. OneHolder'
  BY DEF IInv, OneHolder, At
<1>4. HeldWaits'
  BY <1>2 DEF IInv, HeldWaits
<1>5. MailsClaimed'
  BY DEF IInv, MailsClaimed, At, Settled
<1>6. RejectsUnsent'
  BY DEF IInv, RejectsUnsent, At
<1>. QED  BY <1>1, <1>3, <1>4, <1>5, <1>6 DEF IInv

-----------------------------------------------------------------------------
(* The process *)

(* What the broker has in each place once the connection is closed. *)
LEMMA Requeueing ==
  ASSUME TypeOK
  PROVE  /\ Requeued \in [Messages -> {"unpublished", "ready", "unacked", "acked", "dead"}]
         /\ \A m \in Messages :
              /\ Requeued[m] # "unacked"
              /\ place[m] # "unacked" => Requeued[m] = place[m]
              /\ place[m] = "unacked" => Requeued[m] = "ready"
BY DEF TypeOK, Requeued

LEMMA CloseConnStep ==
  ASSUME IInv, CloseConn, UNCHANGED buffer, svc # "down"
  PROVE  IInv'
<1>1. /\ place' \in [Messages -> {"unpublished", "ready", "unacked", "acked", "dead"}]
      /\ \A m \in Messages :
           /\ place'[m] # "unacked"
           /\ place[m] # "unacked" => place'[m] = place[m]
           /\ place[m] = "unacked" => place'[m] = "ready"
  BY Requeueing DEF IInv, CloseConn
<1>2. \A n \in Messages : Held(n)' <=> Held(n)
  BY DEF Held, CloseConn
<1>3. TypeOK'
  BY <1>1 DEF IInv, TypeOK, CloseConn
<1>4. OneHolder'
  BY DEF IInv, OneHolder, At, CloseConn
<1>5. HeldWaits'
  BY <1>1, <1>2 DEF IInv, HeldWaits, CloseConn
<1>6. MailsClaimed'
  BY <1>1 DEF IInv, MailsClaimed, At, CloseConn, Settled, TypeOK
<1>7. RejectsUnsent'
  BY <1>1 DEF IInv, RejectsUnsent, At, CloseConn
<1>. QED  BY <1>3, <1>4, <1>5, <1>6, <1>7 DEF IInv

LEMMA SigtermStep ==
  ASSUME IInv, Sigterm
  PROVE  IInv'
<1>1. TypeOK'
  BY DEF IInv, TypeOK, Sigterm
<1>2. \A n \in Messages : Held(n)' <=> Held(n)
  BY DEF Held, Sigterm
<1>3. OneHolder'
  BY DEF IInv, OneHolder, At, Sigterm
<1>4. HeldWaits'
  BY <1>2 DEF IInv, HeldWaits, Sigterm
<1>5. MailsClaimed'
  BY DEF IInv, MailsClaimed, At, Settled, Sigterm
<1>6. RejectsUnsent'
  BY DEF IInv, RejectsUnsent, At, Sigterm
<1>. QED  BY <1>1, <1>3, <1>4, <1>5, <1>6 DEF IInv

LEMMA DieStep ==
  ASSUME IInv, Die
  PROVE  IInv'
<1>1. /\ place' \in [Messages -> {"unpublished", "ready", "unacked", "acked", "dead"}]
      /\ \A m \in Messages :
           /\ place'[m] # "unacked"
           /\ place[m] # "unacked" => place'[m] = place[m]
           /\ place[m] = "unacked" => place'[m] = "ready"
  BY Requeueing DEF IInv, Die
<1>2. \A w \in Workers : worker'[w].pc = "idle" /\ worker'[w].msg = None
  BY DEF Die, IdleWorker
<1>3. None \notin Messages /\ Ended \notin Messages /\ None # Ended
  BY NotificationsAssumption DEF None, Ended
<1>4. \A n \in Messages : ~Held(n)'
  BY <1>2, <1>3 DEF Held, Die
<1>5. TypeOK'
  <2>1. IdleWorker \in WorkerState
    BY NotificationsAssumption DEF IdleWorker, WorkerState
  <2>2. worker' \in [Workers -> WorkerState]
    BY <2>1 DEF Die
  <2>. QED  BY <1>1, <2>2 DEF IInv, TypeOK, Die
<1>6. OneHolder'
  BY <1>2, <1>3 DEF OneHolder, At, Die
<1>7. HeldWaits'
  BY <1>1, <1>4 DEF HeldWaits, Die
<1>8. MailsClaimed'
  BY <1>1, <1>2 DEF IInv, MailsClaimed, At, Die, Settled, TypeOK
<1>9. RejectsUnsent'
  BY <1>1, <1>2, <1>3, NotificationsAssumption DEF IInv, RejectsUnsent, At, Die
<1>. QED  BY <1>5, <1>6, <1>7, <1>8, <1>9 DEF IInv

LEMMA RestartStep ==
  ASSUME IInv, Restart
  PROVE  IInv'
<1>1. TypeOK'
  BY DEF IInv, TypeOK, Restart
<1>2. Waiting \notin Messages /\ Waiting # None
  BY NotificationsAssumption DEF Waiting, None
<1>3. \A n \in Messages : ~Held(n) /\ ~Held(n)'
  BY <1>2 DEF IInv, HeldWaits, Held, Restart
<1>4. \A w \in Workers : worker[w].msg = None
  BY <1>3 DEF IInv, TypeOK, WorkerState, Held
<1>5. OneHolder'
  BY <1>2, <1>3, <1>4 DEF IInv, OneHolder, At, Restart, Held, TypeOK
<1>6. HeldWaits'
  BY <1>3 DEF IInv, HeldWaits, Restart
<1>7. MailsClaimed'
  BY DEF IInv, MailsClaimed, At, Settled, Restart
<1>8. RejectsUnsent'
  BY DEF IInv, RejectsUnsent, At, Restart
<1>. QED  BY <1>1, <1>5, <1>6, <1>7, <1>8 DEF IInv

LEMMA ProcessStep ==
  ASSUME IInv, Process
  PROVE  IInv'
<1>1. CASE ConnectionLost
  BY <1>1, CloseConnStep DEF ConnectionLost, IInv, HeldWaits
<1>2. CASE Sigterm
  BY <1>2, SigtermStep
<1>3. CASE CloseConsumer
  BY <1>3, CloseConnStep DEF CloseConsumer
<1>4. CASE Exit \/ Crash
  BY <1>4, DieStep DEF Exit, Crash
<1>5. CASE Restart
  BY <1>5, RestartStep
<1>. QED  BY <1>1, <1>2, <1>3, <1>4, <1>5 DEF Process

LEMMA WorkerSteps ==
  ASSUME IInv, NEW w \in Workers, WorkerStep(w)
  PROVE  IInv'
BY ClaimNewStep, ClaimFindsStep, ClaimFailsStep, SendStep, SendFailsStep, ReleaseStep, SettleStep
DEF WorkerStep

LEMMA StutterStep == IInv /\ UNCHANGED vars => IInv'
<1>. SUFFICES ASSUME IInv, UNCHANGED vars PROVE IInv'
  OBVIOUS
<1>. USE DEF vars
<1>1. TypeOK'
  BY DEF IInv, TypeOK
<1>2. OneHolder'
  BY DEF IInv, OneHolder, At
<1>3. HeldWaits'
  BY DEF IInv, HeldWaits, Held
<1>4. MailsClaimed'
  BY DEF IInv, MailsClaimed, At, Settled
<1>5. RejectsUnsent'
  BY DEF IInv, RejectsUnsent, At
<1>. QED  BY <1>1, <1>2, <1>3, <1>4, <1>5 DEF IInv

-----------------------------------------------------------------------------
(* The theorems *)

LEMMA InductiveStep == IInv /\ [Next]_vars => IInv'
<1>. SUFFICES ASSUME IInv, [Next]_vars PROVE IInv'
  OBVIOUS
<1>1. ASSUME NEW m \in Messages, Publish(m) \/ Deliver(m) \/ Receive(m) \/ KeyExpires(m)
      PROVE  IInv'
  BY <1>1, PublishStep, DeliverStep, ReceiveStep, KeyExpiresStep
<1>2. ASSUME NEW w \in Workers, StartWorker(w) \/ WorkerStep(w)
      PROVE  IInv'
  BY <1>2, StartWorkerStep, WorkerSteps
<1>3. CASE UNCHANGED vars
  BY <1>3, StutterStep
<1>. QED  BY <1>1, <1>2, <1>3, LoopEndsStep, ProcessStep DEF Next, Finished

(* The inductive invariant holds throughout: no step of the broker, the    *)
(* loop, a worker, Redis or the process breaks it.                         *)
THEOREM Invariance == Spec => []IInv
BY InitIInv, InductiveStep, PTL DEF Spec

(* The broker's places, the goroutines and the process keep their types. *)
THEOREM TypeCorrectness == Spec => []TypeOK
<1>1. IInv => TypeOK
  BY DEF IInv
<1>. QED  BY <1>1, Invariance, PTL

(* No message is e-mailed twice while its key outlives it and the sender's *)
(* errors are true, whatever else fails: the claim in Redis suffices.      *)
THEOREM EmailCorrectness == Spec => []AtMostOneEmail
<1>1. IInv => AtMostOneEmail
  BY DEF IInv, MailsClaimed, AtMostOneEmail
<1>. QED  BY <1>1, Invariance, PTL

(* An unacked delivery is in the hands of the buffer, the loop or exactly  *)
(* one worker, so somebody will settle it.                                 *)
THEOREM HandsCorrectness == Spec => []NoDeliveryForgotten
<1>1. IInv => NoDeliveryForgotten
  <2>. SUFFICES ASSUME IInv, conn = "open", NEW m \in Messages
                PROVE  place[m] = "unacked" <=> \E h \in HandsOn(m) : HandsOn(m) = {h}
    BY DEF NoDeliveryForgotten
  <2>1. place[m] = "unacked" <=> Held(m)
    BY DEF IInv, HeldWaits
  <2>2. Held(m) <=> HandsOn(m) # {}
    BY DEF Held, HandsOn
  <2>3. None # m
    BY NotificationsAssumption DEF None
  <2>4. \A g, h \in HandsOn(m) : g = h
    BY <2>3 DEF HandsOn, IInv, OneHolder, At
  <2>. QED  BY <2>1, <2>2, <2>4
<1>. QED  BY <1>1, Invariance, PTL

(* While Redis answers, nothing in the dead letter queue has been e-mailed *)
(* already, so that somebody may send it by hand.                          *)
THEOREM DeadLetterCorrectness == Spec => []DeadLettersUnsent
<1>1. IInv => DeadLettersUnsent
  BY DEF IInv, RejectsUnsent, DeadLettersUnsent
<1>. QED  BY <1>1, Invariance, PTL

-----------------------------------------------------------------------------
(* The e-mail and its event *)

(* No e-mail goes out before the event it is about was published. *)
MailsFollowEvents == \A m \in Messages : sent[m] > 0 => place[m] # "unpublished"

(* A step that e-mails is one of a worker, which has the message in hand.  *)
LEMMA MailsAreHeld ==
  ASSUME IInv, [Next]_vars, NEW m \in Messages, sent'[m] # sent[m]
  PROVE  place[m] # "unpublished"
<1>1. PICK w \in Workers : Send(w) \/ SendFails(w)
  <2>1. sent' # sent
    OBVIOUS
  <2>2. \A n \in Messages : ~Publish(n) /\ ~Deliver(n) /\ ~Receive(n) /\ ~KeyExpires(n)
    BY <2>1 DEF Publish, Deliver, Receive, KeyExpires
  <2>3. ~LoopEnds /\ ~Process /\ ~UNCHANGED vars
    BY <2>1 DEF LoopEnds, Process, ConnectionLost, Sigterm, CloseConsumer, CloseConn, Exit, Crash,
       Die, Restart, vars
  <2>4. \A w \in Workers : ~StartWorker(w)
    BY <2>1 DEF StartWorker
  <2>5. PICK w \in Workers : WorkerStep(w)
    BY <2>2, <2>3, <2>4 DEF Next, Finished
  <2>. QED
    BY <2>1, <2>5 DEF WorkerStep, ClaimNew, ClaimFinds, ClaimFails, Release, Ack, Nack, SettleAs
<1>2. worker[w].msg = m
  BY <1>1 DEF Send, SendFails, CountedUp, IInv, TypeOK
<1>. QED  BY <1>2 DEF IInv, HeldWaits, Held

LEMMA PublishedStay ==
  ASSUME TypeOK, [Next]_vars, NEW m \in Messages, place[m] # "unpublished"
  PROVE  place'[m] # "unpublished"
<1>1. place \in [Messages -> {"unpublished", "ready", "unacked", "acked", "dead"}]
  BY DEF TypeOK
<1>2. ASSUME NEW n \in Messages, Publish(n) \/ Deliver(n) \/ Receive(n) \/ KeyExpires(n)
      PROVE  place'[m] # "unpublished"
  BY <1>1, <1>2 DEF Publish, Deliver, Receive, KeyExpires
<1>3. ASSUME NEW w \in Workers, StartWorker(w) \/ WorkerStep(w)
      PROVE  place'[m] # "unpublished"
  BY <1>1, <1>3 DEF StartWorker, WorkerStep, ClaimNew, ClaimFinds, ClaimFails, Send, SendFails,
     Release, Ack, Nack, SettleAs
<1>4. CASE LoopEnds \/ Process \/ UNCHANGED vars
  BY <1>1, <1>4 DEF LoopEnds, Process, ConnectionLost, Sigterm, CloseConsumer, CloseConn, Exit,
     Crash, Die, Restart, Requeued, vars
<1>. QED  BY <1>2, <1>3, <1>4 DEF Next, Finished

LEMMA FollowStep == IInv /\ MailsFollowEvents /\ [Next]_vars => MailsFollowEvents'
<1>. SUFFICES ASSUME IInv, MailsFollowEvents, [Next]_vars, NEW m \in Messages, sent'[m] > 0
              PROVE  place'[m] # "unpublished"
  BY DEF MailsFollowEvents
<1>1. place[m] # "unpublished"
  BY MailsAreHeld DEF MailsFollowEvents
<1>. QED  BY <1>1, PublishedStay DEF IInv

-----------------------------------------------------------------------------
(* Notifications implements Delivery *)

Fates == [m \in Messages |-> Fate(m)]

(* What is not yet settled but published is queued. *)
LEMMA FateOf ==
  ASSUME NEW m \in Messages
  PROVE  Fates[m] = IF place[m] \in {"ready", "unacked"} THEN "queued" ELSE place[m]
BY DEF Fates, Fate

(* Only what happens to the places of messages, to e-mails and to doubts   *)
(* shows in Delivery.                                                      *)
LEMMA HiddenStep ==
  ASSUME Fates' = Fates, UNCHANGED <<sent, excused>>
  PROVE  [Promise!Next]_(Promise!vars)
BY DEF Promise!vars, Fates

LEMMA PublishShows ==
  ASSUME TypeOK, NEW m \in Messages, Publish(m)
  PROVE  Promise!Queue(m)
<1>1. Fates[m] = "unpublished"
  BY DEF Fates, Fate, Publish
<1>2. Fates' = [Fates EXCEPT ![m] = "queued"]
  BY DEF Fates, Fate, Publish, TypeOK
<1>. QED  BY <1>1, <1>2 DEF Promise!Queue, Fates, Publish

LEMMA SendShows ==
  ASSUME IInv, NEW w \in Workers, Send(w) \/ SendFails(w)
  PROVE  [Promise!Next]_(Promise!vars)
<1>. DEFINE m == worker[w].msg
<1>1. At(w, "send")
  BY DEF Send, SendFails
<1>2. worker[w] \in WorkerState /\ m # None
  BY <1>1 DEF IInv, TypeOK, OneHolder, At
<1>3. m \in Messages /\ Held(m)
  BY <1>2 DEF WorkerState, Held
<1>4. Fates[m] = "queued"
  BY <1>3 DEF IInv, HeldWaits, Fates, Fate
<1>5. Fates' = Fates
  BY DEF Fates, Fate, Send, SendFails
<1>6. /\ sent \in [Messages -> 0..SentCap] /\ (m \in excused \/ sent[m] = 0)
      /\ \/ sent' = sent /\ excused' = excused
         \/ sent' = CountedUp(m) /\ (excused' = excused \/ excused' = excused \cup {m})
  BY <1>1 DEF IInv, TypeOK, MailsClaimed, Send, SendFails
<1>7. CASE sent' = sent /\ excused' = excused
  BY <1>5, <1>7, HiddenStep
<1>8. CASE sent' = CountedUp(m) /\ sent[m] < SentCap
  <2>1. sent' = [sent EXCEPT ![m] = sent[m] + 1]
    BY <1>8 DEF CountedUp
  <2>2. sent'[m] = sent[m] + 1 /\ sent[m] \in 0..2
    BY <1>3, <1>6, <2>1 DEF SentCap
  <2>3. (excused' = excused \/ excused' = excused \cup {m}) /\ (sent'[m] = 2 => m \in excused')
    BY <1>6, <1>8, <2>2 DEF SentCap
  <2>4. Promise!Mail(m)
    BY <1>4, <1>5, <1>8, <2>1, <2>2, <2>3 DEF Promise!Mail, Fates, SentCap
  <2>. QED  BY <1>3, <2>4 DEF Promise!Next
<1>9. CASE sent' = CountedUp(m) /\ ~(sent[m] < SentCap)
  <2>1. sent' = sent
    BY <1>3, <1>6, <1>9 DEF CountedUp
  <2>2. m \in excused
    BY <1>6, <1>9 DEF SentCap
  <2>3. excused' = excused
    BY <1>6, <2>2, <2>1
  <2>. QED  BY <1>5, <2>1, <2>3, HiddenStep
<1>. QED  BY <1>6, <1>7, <1>8, <1>9

LEMMA SettleShows ==
  ASSUME IInv, NEW w \in Workers, Ack(w) \/ Nack(w)
  PROVE  [Promise!Next]_(Promise!vars)
<1>. DEFINE m == worker[w].msg
<1>1. PICK p \in {"acked", "dead"} : SettleAs(w, p)
  BY DEF Ack, Nack
<1>2. worker[w] \in WorkerState /\ m # None
  BY DEF IInv, TypeOK, OneHolder, At, Ack, Nack
<1>3. m \in Messages /\ Held(m)
  BY <1>2 DEF WorkerState, Held
<1>4. Fates[m] = "queued" /\ place \in [Messages -> {"unpublished", "ready", "unacked", "acked", "dead"}]
  BY <1>3 DEF IInv, HeldWaits, Fates, Fate, TypeOK
<1>5. CASE conn = "open"
  <2>1. place' = [place EXCEPT ![m] = p]
    BY <1>1, <1>5 DEF SettleAs
  <2>2. Fates' = [Fates EXCEPT ![m] = p] /\ Fates'[m] = p
    BY <1>3, <1>4, <2>1 DEF Fates, Fate
  <2>3. Promise!Settle(m)
    BY <1>1, <1>4, <2>2 DEF Promise!Settle, SettleAs, Fates
  <2>. QED  BY <1>3, <2>3 DEF Promise!Next
<1>6. CASE conn # "open"
  <2>1. place' = place
    BY <1>1, <1>3, <1>4, <1>6 DEF SettleAs
  <2>. QED  BY <1>1, <2>1, HiddenStep DEF SettleAs, Fates, Fate
<1>. QED  BY <1>5, <1>6

LEMMA KeyExpiresShows ==
  ASSUME IInv, NEW m \in Messages, KeyExpires(m)
  PROVE  [Promise!Next]_(Promise!vars)
<1>1. Fates' = Fates /\ sent' = sent
  BY DEF KeyExpires, Fates, Fate
<1>2. CASE Settled(m) \/ m \in excused
  <2>1. excused' = excused
    BY <1>2 DEF KeyExpires
  <2>. QED  BY <1>1, <2>1, HiddenStep
<1>3. CASE ~Settled(m) /\ m \notin excused
  <2>1. place[m] \in {"ready", "unacked"}
    BY <1>3 DEF IInv, MailsClaimed, TypeOK, KeyExpires, Settled
  <2>2. Fates[m] = "queued" /\ excused' = excused \cup {m}
    BY <1>3, <2>1 DEF Fates, Fate, KeyExpires
  <2>3. Promise!Doubt(m)
    BY <1>1, <1>3, <2>2 DEF Promise!Doubt, Fates
  <2>. QED  BY <2>3 DEF Promise!Next
<1>. QED  BY <1>2, <1>3

(* A requeued message is queued as it was. *)
LEMMA ProcessHides ==
  ASSUME TypeOK, Process
  PROVE  Fates' = Fates /\ UNCHANGED <<sent, excused>>
<1>1. CASE place' = Requeued
  <2>1. \A m \in Messages : Fate(m)' = Fate(m)
    BY <1>1, Requeueing DEF Fate
  <2>2. Fates' = Fates
    BY <2>1 DEF Fates
  <2>. QED  BY <2>2 DEF Process, ConnectionLost, Sigterm, CloseConsumer, CloseConn, Exit, Crash, Die, Restart
<1>2. CASE place' = place
  BY <1>2 DEF Fates, Fate, Process, ConnectionLost, Sigterm, CloseConsumer, CloseConn, Exit, Crash, Die, Restart
<1>. QED
  BY <1>1, <1>2 DEF Process, ConnectionLost, Sigterm, CloseConsumer, CloseConn, Exit, Crash, Die, Restart

(* Every step is one of Delivery, or hidden from it. *)
LEMMA DeliveryStep == IInv /\ [Next]_vars => [Promise!Next]_(Promise!vars)
<1>. SUFFICES ASSUME IInv, [Next]_vars PROVE [Promise!Next]_(Promise!vars)
  OBVIOUS
<1>1. TypeOK
  BY DEF IInv
<1>2. ASSUME NEW m \in Messages, Publish(m) PROVE [Promise!Next]_(Promise!vars)
  BY <1>1, <1>2, PublishShows DEF Promise!Next
<1>3. ASSUME NEW m \in Messages, Deliver(m) PROVE [Promise!Next]_(Promise!vars)
  <2>1. Fates' = Fates
    BY <1>1, <1>3 DEF Deliver, Fates, Fate, TypeOK
  <2>. QED  BY <1>3, <2>1, HiddenStep DEF Deliver
<1>4. ASSUME NEW m \in Messages, Receive(m) PROVE [Promise!Next]_(Promise!vars)
  BY <1>4, HiddenStep DEF Receive, Fates, Fate
<1>5. ASSUME NEW m \in Messages, KeyExpires(m) PROVE [Promise!Next]_(Promise!vars)
  BY <1>5, KeyExpiresShows
<1>6. CASE LoopEnds
  BY <1>6, HiddenStep DEF LoopEnds, Fates, Fate
<1>7. ASSUME NEW w \in Workers, StartWorker(w) PROVE [Promise!Next]_(Promise!vars)
  BY <1>7, HiddenStep DEF StartWorker, Fates, Fate
<1>8. ASSUME NEW w \in Workers, WorkerStep(w) PROVE [Promise!Next]_(Promise!vars)
  <2>1. CASE ClaimNew(w) \/ ClaimFinds(w) \/ ClaimFails(w) \/ Release(w)
    BY <2>1, HiddenStep DEF ClaimNew, ClaimFinds, ClaimFails, Release, Fates, Fate
  <2>. QED  BY <1>8, <2>1, SendShows, SettleShows DEF WorkerStep
<1>9. CASE Process
  BY <1>1, <1>9, ProcessHides, HiddenStep
<1>10. CASE UNCHANGED vars
  BY <1>10, HiddenStep DEF vars, Fates, Fate
<1>. QED
  BY <1>2, <1>3, <1>4, <1>5, <1>6, <1>7, <1>8, <1>9, <1>10 DEF Next, Finished

(* The service keeps the promise of Delivery: each message is settled at   *)
(* most once, never e-mailed after that, and e-mailed once unless in doubt *)
(* - also by workers that outlive their connection.                        *)
THEOREM ImplementsDelivery == Spec => DeliverySpec
<1>1. Init => Promise!Init
  BY DEF Init, Promise!Init, Fate
<1>. QED  BY <1>1, DeliveryStep, Invariance, PTL DEF Spec, DeliverySpec, Promise!Spec

(* A message that was acked or dead-lettered stays so, and is not e-mailed *)
(* any more, by whichever worker still has a delivery of it.               *)
SettledForGood ==
  [][\A m \in Messages : Settled(m) => place'[m] = place[m] /\ sent'[m] = sent[m]]_vars

(* No redelivery, restart or late worker takes a settled message up again. *)
THEOREM SettledCorrectness == Spec => SettledForGood
<1>1. ASSUME IInv, [Next]_vars, NEW m \in Messages, Settled(m)
      PROVE  place'[m] = place[m] /\ sent'[m] = sent[m]
  <2>1. sent \in [Messages -> 0..SentCap] /\ Fates[m] = place[m]
    BY <1>1 DEF IInv, TypeOK, Settled, Fates, Fate
  <2>2. [Promise!Next]_(Promise!vars)
    BY <1>1, DeliveryStep
  <2>3. Fates'[m] = Fates[m] /\ sent'[m] = sent[m]
    <3>1. CASE UNCHANGED Promise!vars
      BY <3>1 DEF Promise!vars, Fates
    <3>2. ASSUME NEW n \in Messages,
                 Promise!Queue(n) \/ Promise!Mail(n) \/ Promise!Doubt(n) \/ Promise!Settle(n)
          PROVE  Fates'[m] = Fates[m] /\ sent'[m] = sent[m]
      BY <1>1, <2>1, <3>2 DEF Promise!Queue, Promise!Mail, Promise!Doubt, Promise!Settle, Fates, Fate, Settled
    <3>. QED  BY <2>2, <3>1, <3>2 DEF Promise!Next
  <2>. QED  BY <1>1, <2>1, <2>3 DEF Settled, Fates, Fate
<1>2. IInv /\ [Next]_vars =>
        [\A m \in Messages : Settled(m) => place'[m] = place[m] /\ sent'[m] = sent[m]]_vars
  BY <1>1
<1>. QED  BY <1>2, Invariance, PTL DEF Spec, SettledForGood
=============================================================================
