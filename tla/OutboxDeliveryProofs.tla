------------------------- MODULE OutboxDeliveryProofs -------------------------
(***************************************************************************)
(* One publisher implements Delivery: the fate of a task changes only from *)
(* "none" to "pending" and from there, once, to "delivered" or "lost".     *)
(***************************************************************************)
EXTENDS OutboxPublisherProofs

\* The task may still be sent.
Pending(t) == Processable(t) \/ \E p \in Publishers : Carries(p, t)

\* What the names of the fates stand for.
FatesAre(t) ==
  /\ Fate(t) \in {"none", "pending", "delivered", "lost"}
  /\ Fate(t) = "none" <=> status[t] = "NONE"
  /\ Fate(t) = "delivered" <=> status[t] # "NONE" /\ sent[t] = 1
  /\ Fate(t) = "pending" <=> status[t] # "NONE" /\ sent[t] = 0 /\ Pending(t)

LEMMA FateCases == Typed /\ Alone => \A t \in Tasks : FatesAre(t)
<1> SUFFICES ASSUME Typed, Alone, NEW t \in Tasks
             PROVE  FatesAre(t)
  OBVIOUS
<1>1. sent[t] \in Nat /\ sent[t] <= 1
  BY DEF Typed, TypeOK, Alone, AtMostOnce
<1>2. CASE status[t] = "NONE"
  <2>1. Fate(t) = "none"
    BY <1>2 DEF Fate
  <2> QED
    BY <1>2, <2>1 DEF FatesAre
<1>3. CASE status[t] # "NONE" /\ sent[t] = 1
  <2>1. Fate(t) = "delivered"
    BY <1>1, <1>3 DEF Fate
  <2> QED
    BY <1>1, <1>3, <2>1 DEF FatesAre
<1>4. CASE status[t] # "NONE" /\ sent[t] = 0
  <2>1. CASE Pending(t)
    <3>1. Fate(t) = "pending"
      BY <1>4, <2>1 DEF Fate, Pending
    <3> QED
      BY <1>4, <2>1, <3>1 DEF FatesAre
  <2>2. CASE ~Pending(t)
    <3>1. Fate(t) = "lost"
      BY <1>4, <2>2 DEF Fate, Pending
    <3> QED
      BY <1>4, <2>2, <3>1 DEF FatesAre
  <2> QED
    BY <2>1, <2>2
<1> QED
  BY <1>1, <1>2, <1>3, <1>4

LEMMA FateCasesNext == Typed' /\ Alone' => \A t \in Tasks : FatesAre(t)'
<1>1. (Typed /\ Alone => \A t \in Tasks : FatesAre(t))'
  BY FateCases, PTL
<1> QED
  BY <1>1

\* A step that inserts and delivers nothing and takes nothing up that was lost
\* can only lose tasks.
LEMMA QuietStep ==
  ASSUME Typed, Typed', Alone, Alone', UNCHANGED sent,
         \A t \in Tasks : status'[t] = "NONE" <=> status[t] = "NONE",
         \A t \in Tasks : status[t] # "NONE" /\ sent[t] = 0 /\ Pending(t)' => Pending(t)
  PROVE  Abstract!Next
<1> DEFINE S == {t \in Tasks : Fate(t) = "pending" /\ Fate(t)' # "pending"}
<1>1. ASSUME NEW t \in Tasks
      PROVE  Fate(t)' = IF t \in S THEN "lost" ELSE Fate(t)
  <2>1. FatesAre(t) /\ FatesAre(t)'
    BY FateCases, FateCasesNext
  <2>2. sent[t] \in Nat
    BY DEF Typed, TypeOK
  <2> QED
    BY <2>1, <2>2 DEF FatesAre
<1>2. Abstract!Turn(S, "pending", "lost")
  BY <1>1 DEF Abstract!Turn
<1>3. S \in SUBSET Tasks
  OBVIOUS
<1> QED
  BY <1>2, <1>3 DEF Abstract!Next, Abstract!Lose

\* One task turns, the others keep their fate.
LEMMA OneTurns ==
  ASSUME NEW t \in Tasks, NEW old, NEW new,
         Fate(t) = old, Fate(t)' = new,
         \A u \in Tasks : u # t => Fate(u)' = Fate(u)
  PROVE  Abstract!Turn({t}, old, new)
BY DEF Abstract!Turn

LEMMA SubmitStep ==
  ASSUME Typed, Typed', Alone, Alone', NEW t \in Tasks, Enqueue(t)
  PROVE  Abstract!Next
<1>1. /\ \A u \in Tasks : status'[u] = IF u = t THEN "CREATED" ELSE status[u]
      /\ status[t] = "NONE"
      /\ UNCHANGED <<attempts, sent, pc, batch>>
  BY DEF Enqueue, process, Typed, TypeOK
<1>2. ASSUME NEW u \in Tasks, u # t
      PROVE  Fate(u)' = Fate(u)
  <2>1. Processable(u)' <=> Processable(u)
    BY <1>1, <1>2 DEF Processable
  <2>2. \A p \in Publishers : Carries(p, u)' <=> Carries(p, u)
    BY <1>1 DEF Carries
  <2> QED
    BY <1>1, <1>2, <2>1, <2>2 DEF Fate
<1>3. Fate(t) = "none"
  BY <1>1, FateCases DEF FatesAre
<1>4. Fate(t)' = "pending"
  <2>1. sent'[t] = 0
    BY <1>1 DEF Alone, RetriesUnsent
  <2>2. Processable(t)' /\ status'[t] # "NONE"
    BY <1>1 DEF Processable
  <2> QED
    BY <2>1, <2>2, FateCasesNext DEF FatesAre, Pending
<1> QED
  BY <1>2, <1>3, <1>4, OneTurns DEF Abstract!Next, Abstract!Submit

LEMMA DeliverStep ==
  ASSUME Typed, Typed', Alone, Alone', NEW p \in Publishers, SendMessage(p)
  PROVE  Abstract!Next
<1>0. PICK t \in Tasks : t = Current(p)
  BY CurrentType DEF SendMessage
<1>1. 1 \in DOMAIN batch[p] /\ batch[p][1].id = t
  BY <1>0, CurrentType DEF SendMessage, Current
<1>2. status[t] = "PROCESSING" /\ sent[t] = 0
  BY <1>1 DEF Alone, Mine, SendMessage
<1>3. /\ UNCHANGED <<status, attempts, batch>>
      /\ \A u \in Tasks : sent'[u] = IF u = t THEN sent[u] + 1 ELSE sent[u]
  BY <1>0 DEF SendMessage, rows, Typed, TypeOK
<1>4. ASSUME NEW u \in Tasks, NEW q \in Publishers
      PROVE  Carries(q, u)' <=> Carries(q, u)
  BY <1>3 DEF SendMessage, Goto, Carries, Typed, TypeOK
<1>5. ASSUME NEW u \in Tasks, u # t
      PROVE  Fate(u)' = Fate(u)
  <2>1. Processable(u)' <=> Processable(u)
    BY <1>3 DEF Processable
  <2> QED
    BY <1>3, <1>4, <1>5, <2>1 DEF Fate
<1>6. Fate(t) = "pending"
  <2>1. Carries(p, t)
    BY <1>1 DEF Carries, SendMessage
  <2> QED
    BY <1>1, <1>2, <2>1, FateCases DEF FatesAre, Pending
<1>7. Fate(t)' = "delivered"
  <2>1. status'[t] # "NONE" /\ sent'[t] = 1
    BY <1>2, <1>3
  <2> QED
    BY <1>1, <2>1, FateCasesNext DEF FatesAre
<1> QED
  BY <1>1, <1>5, <1>6, <1>7, OneTurns DEF Abstract!Next, Abstract!Deliver

\* A publisher that carried tasks carries no new ones.
LEMMA CarriedBefore ==
  ASSUME OnePublisher, Kept, NEW p \in Publishers,
         pc'[p] \in {"next", "send", "done", "failed"}
           => pc[p] \in {"next", "send", "done", "failed"},
         NEW t \in Tasks, NEW q \in Publishers, Carries(q, t)'
  PROVE  Carries(q, t)
<1>1. q = p
  BY DEF OnePublisher
<1>2. PICK i \in DOMAIN batch'[q] : batch'[q][i].id = t
  BY DEF Carries
<1>3. PICK j \in DOMAIN batch[q] : batch'[q][i] = batch[q][j]
  BY DEF Kept
<1>4. batch[q][j].id = t
  BY <1>2, <1>3
<1> QED
  BY <1>1, <1>4 DEF Carries

\* The rows stay.
LEMMA RowsStay ==
  ASSUME OnePublisher, Typed, Typed', Alone, Alone', Kept, NEW p \in Publishers,
         pc'[p] \in {"next", "send", "done", "failed"}
           => pc[p] \in {"next", "send", "done", "failed"},
         UNCHANGED <<status, attempts, sent>>
  PROVE  Abstract!Next
<1>1. ASSUME NEW t \in Tasks, Pending(t)'
      PROVE  Pending(t)
  <2>1. CASE Processable(t)'
    BY <2>1 DEF Pending, Processable
  <2>2. CASE \E q \in Publishers : Carries(q, t)'
    BY <2>2, CarriedBefore DEF Pending
  <2> QED
    BY <1>1, <2>1, <2>2 DEF Pending
<1> QED
  BY <1>1, QuietStep

\* The row of the task at hand is written.
LEMMA CurrentWritten ==
  ASSUME OnePublisher, Typed, Typed', Alone, Alone', NEW p \in Publishers,
         pc[p] \in {"done", "failed"}, NextTask(p),
         UNCHANGED sent,
         NEW s \in {"DONE", "FAILED"},
         status' = [status EXCEPT ![Current(p)] = s],
         \A t \in Tasks : t # Current(p) => attempts'[t] = attempts[t]
  PROVE  Abstract!Next
<1>1. /\ Current(p) \in Tasks /\ 1 \in DOMAIN batch[p] /\ batch[p][1].id = Current(p)
  BY CurrentType DEF Current
<1>2. status[Current(p)] = "PROCESSING" /\ Carries(p, Current(p))
  BY <1>1 DEF Alone, Mine, Carries
<1>3. \A t \in Tasks : status'[t] = IF t = Current(p) THEN s ELSE status[t]
  BY <1>1 DEF Typed, TypeOK
<1>4. Kept
  BY KeptNextTask
<1>5. ASSUME NEW t \in Tasks, Pending(t)'
      PROVE  Pending(t)
  <2>1. CASE t = Current(p)
    BY <1>2, <2>1 DEF Pending
  <2>2. CASE t # Current(p) /\ Processable(t)'
    BY <1>3, <2>2 DEF Pending, Processable
  <2>3. CASE \E q \in Publishers : Carries(q, t)'
    BY <1>4, <2>3, CarriedBefore DEF Pending
  <2> QED
    BY <1>5, <2>1, <2>2, <2>3 DEF Pending
<1> QED
  BY <1>2, <1>3, <1>5, QuietStep

\* The marks are committed: what becomes PROCESSING was waiting to be sent.
LEMMA MarksCommitted ==
  ASSUME OnePublisher, Typed, Typed', Alone, Alone', NEW p \in Publishers,
         pc[p] = "commit", ApplyMarks(p), Kept, UNCHANGED sent
  PROVE  Abstract!Next
<1>1. ASSUME NEW i \in DOMAIN batch[p]
      PROVE  batch[p][i].id \in Tasks /\ Processable(batch[p][i].id)
  BY BatchTasks DEF Alone, Mine
<1>2. ASSUME NEW t \in Tasks
      PROVE  status'[t] = "NONE" <=> status[t] = "NONE"
  <2>1. CASE \E i \in DOMAIN batch[p] : batch[p][i].id = t
    <3>1. Processable(t) /\ status'[t] = "PROCESSING"
      BY <1>1, <2>1, MarkedAttempts
    <3> QED
      BY <3>1 DEF Processable
  <2>2. CASE \A i \in DOMAIN batch[p] : batch[p][i].id # t
    BY <2>2, MarkedAttempts
  <2> QED
    BY <2>1, <2>2
<1>3. ASSUME NEW t \in Tasks, Pending(t)'
      PROVE  Pending(t)
  <2>1. CASE Processable(t)'
    BY <2>1, MarkedAttempts DEF Pending, Processable
  <2>2. ASSUME NEW q \in Publishers, Carries(q, t)'
        PROVE  Processable(t)
    <3>1. q = p
      BY DEF OnePublisher
    <3>2. PICK i \in DOMAIN batch'[q] : batch'[q][i].id = t
      BY <2>2 DEF Carries
    <3>3. PICK j \in DOMAIN batch[q] : batch'[q][i] = batch[q][j]
      BY DEF Kept
    <3> QED
      BY <1>1, <3>1, <3>2, <3>3
  <2> QED
    BY <1>3, <2>1, <2>2 DEF Pending
<1> QED
  BY <1>2, <1>3, QuietStep

LEMMA StepDelivery ==
  OnePublisher /\ Typed /\ Typed' /\ Alone /\ Alone' /\ [Next]_vars
    => [Abstract!Next]_([t \in Tasks |-> Fate(t)])
<1> SUFFICES ASSUME OnePublisher, Typed, Typed', Alone, Alone', [Next]_vars
             PROVE  Abstract!Next \/ UNCHANGED [t \in Tasks |-> Fate(t)]
  OBVIOUS
<1>1. CASE UNCHANGED vars
  <2>1. \A t \in Tasks : Fate(t)' = Fate(t)
    BY <1>1 DEF vars, Fate, Processable, Carries
  <2> QED
    BY <2>1
<1>2. ASSUME NEW t \in Tasks, Enqueue(t)
      PROVE  Abstract!Next
  BY <1>2, SubmitStep
<1>3. ASSUME NEW p \in Publishers, Work(p)
      PROVE  Abstract!Next
  <2>1. CASE Fetch(p)
    <3>1. pc'[p] = "mark" /\ UNCHANGED <<status, attempts, sent>>
      BY <2>1 DEF Fetch, Goto, rows, Typed, TypeOK
    <3>2. ASSUME NEW t \in Tasks, Pending(t)'
          PROVE  Pending(t)
      <4>1. ~Carries(p, t)'
        BY <3>1 DEF Carries
      <4>2. \A q \in Publishers : ~Carries(q, t)'
        BY <4>1 DEF OnePublisher
      <4> QED
        BY <3>1, <3>2, <4>2 DEF Pending, Processable
    <3> QED
      BY <3>1, <3>2, QuietStep
  <2>2. CASE Mark(p)
    <3>1. UNCHANGED <<status, attempts, sent, batch>> /\ pc'[p] \in {"mark", "commit"}
      BY <2>2 DEF Mark, Goto, Typed, TypeOK
    <3> QED
      BY <3>1, KeptUnchanged, RowsStay
  <2>3. CASE CommitMarks(p)
    BY <2>3, KeptUnchanged, MarksCommitted DEF CommitMarks
  <2>4. CASE LookAtContext(p)
    <3>1. UNCHANGED <<status, attempts, sent>> /\ pc[p] = "next"
      BY <2>4 DEF LookAtContext, rows
    <3>2. Kept
      BY <2>4, KeptUnchanged, KeptEndBatch DEF LookAtContext, EndBatch
    <3> QED
      BY <3>1, <3>2, RowsStay
  <2>5. CASE SendMessage(p)
    BY <2>5, DeliverStep
  <2>6. CASE SendFails(p)
    <3>1. UNCHANGED <<status, attempts, sent, batch>> /\ pc[p] = "send"
      BY <2>6 DEF SendFails, rows
    <3> QED
      BY <3>1, KeptUnchanged, RowsStay
  <2>7. CASE RecordDone(p)
    <3>1. \A t \in Tasks : t # Current(p) => attempts'[t] = attempts[t]
      BY <2>7 DEF RecordDone, Typed, TypeOK
    <3> QED
      BY <2>7, <3>1, CurrentWritten DEF RecordDone
  <2>8. CASE RecordFailed(p)
    <3>1. \A t \in Tasks : t # Current(p) => attempts'[t] = attempts[t]
      BY <2>8 DEF RecordFailed, Typed, TypeOK
    <3> QED
      BY <2>8, <3>1, CurrentWritten DEF RecordFailed
  <2> QED
    BY <1>3, <2>1, <2>2, <2>3, <2>4, <2>5, <2>6, <2>7, <2>8 DEF Work
<1>4. ASSUME NEW p \in Publishers, Poll(p)
      PROVE  Abstract!Next \/ UNCHANGED [t \in Tasks |-> Fate(t)]
  BY <1>1, <1>4 DEF Poll
<1>5. ASSUME NEW p \in Publishers, MarkFails(p)
      PROVE  Abstract!Next
  <2>1. UNCHANGED sent /\ pc'[p] = "idle" /\ batch' = [batch EXCEPT ![p] = <<>>]
    BY <1>5 DEF MarkFails, EndBatch, Goto, Typed, TypeOK
  <2>2. Kept
    BY <2>1, KeptEndBatch
  <2>3. CASE UNCHANGED <<status, attempts>>
    BY <2>1, <2>2, <2>3, RowsStay
  <2>4. CASE pc[p] = "commit" /\ ApplyMarks(p)
    BY <2>1, <2>2, <2>4, MarksCommitted
  <2> QED
    BY <1>5, <2>3, <2>4 DEF MarkFails
<1>6. ASSUME NEW p \in Publishers, RecordFails(p)
      PROVE  Abstract!Next
  <2>1. Kept /\ UNCHANGED <<status, attempts, sent>> /\ pc[p] \in {"done", "failed"}
    BY <1>6, KeptNextTask DEF RecordFails, rows
  <2> QED
    BY <2>1, RowsStay
<1>7. ASSUME NEW p \in Publishers, Stop(p)
      PROVE  Abstract!Next
  <2>1. UNCHANGED <<status, attempts, sent>>
    BY <1>7 DEF Stop, Cancel, BeginShutdown, EndShutdown, Crash, Restart, rows
  <2>2. pc'[p] = pc[p] \/ pc'[p] \in {"idle", "stopping", "stopped"}
    BY <1>7 DEF Stop, Cancel, BeginShutdown, EndShutdown, Crash, Restart, Goto, Typed, TypeOK
  <2>3. Kept
    BY <1>7, KeptUnchanged, KeptEndBatch
      DEF Stop, Cancel, BeginShutdown, EndShutdown, Crash, Restart
  <2> QED
    BY <2>1, <2>2, <2>3, RowsStay
<1> QED
  BY <1>1, <1>2, <1>3, <1>4, <1>5, <1>6, <1>7 DEF Next

LEMMA InitDelivery == Init => Abstract!Init
<1> SUFFICES ASSUME Init
             PROVE  Abstract!Init
  OBVIOUS
<1>1. \A t \in Tasks : Fate(t) = "none"
  BY DEF Init, Fate
<1> QED
  BY <1>1 DEF Abstract!Init

\* With one publisher, whatever fails and wherever it stops or dies, a task is
\* delivered once or lost, for good in both cases.
THEOREM DeliveredOrLost ==
  ASSUME OnePublisher
  PROVE  Spec => ImplementsDelivery
<1>1. OnePublisher
  OBVIOUS
<1>2. Typed /\ Typed' /\ Alone /\ Alone' /\ [Next]_vars => [Abstract!Next]_([t \in Tasks |-> Fate(t)])
  BY <1>1, StepDelivery
<1> QED
  BY <1>1, <1>2, InitDelivery, TypedHolds, AloneHolds, PTL
     DEF Spec, ImplementsDelivery, Abstract!Spec
=============================================================================
