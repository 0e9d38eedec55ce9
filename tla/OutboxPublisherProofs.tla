------------------------- MODULE OutboxPublisherProofs -------------------------
(***************************************************************************)
(* Theorems about OutboxPublisher, for any tasks, publishers, batch size,  *)
(* retry limit and faults.                                                 *)
(***************************************************************************)
EXTENDS OutboxPublisher, SequenceTheorems, TLAPS

\* A publisher that marks rows has one left to mark.
Marking == \A p \in Publishers : pc[p] = "mark" => marked[p] < Len(batch[p])

Typed == TypeOK /\ Marking

\* The variables of processBatch.
ProcessTyped ==
  /\ pc \in [Publishers -> PCs]
  /\ batch \in [Publishers -> Seq(Fetched)]
  /\ marked \in [Publishers -> Nat]
  /\ \A q \in Publishers :
       /\ marked[q] <= Len(batch[q])
       /\ marked[q] > 0 => pc[q] \in {"mark", "commit"}
       /\ pc[q] \in {"idle", "stopping", "stopped"} <=> batch[q] = <<>>
       /\ pc[q] = "mark" => marked[q] < Len(batch[q])

-----------------------------------------------------------------------------
(***************************************************************************)
(* Typing.                                                                 *)
(***************************************************************************)

\* A batch of several tasks without its first.
LEMMA TailOfBatch ==
  ASSUME NEW b \in Seq(Fetched), b # <<>>
  PROVE  /\ Tail(b) \in Seq(Fetched)
         /\ Len(Tail(b)) = Len(b) - 1
         /\ \A i \in 1..Len(Tail(b)) : Tail(b)[i] = b[i + 1]
         /\ Len(b) # 1 => Tail(b) # <<>>
<1>1. /\ Tail(b) \in Seq(Fetched)
      /\ Len(Tail(b)) = Len(b) - 1
      /\ \A i \in 1..Len(Tail(b)) : Tail(b)[i] = b[i + 1]
  BY HeadTailProperties
<1>2. \A s \in Seq(Fetched) : Len(s) > 0 => s # <<>>
  OBVIOUS
<1>3. Len(b) # 1 => Len(Tail(b)) > 0
  <2>1. Len(b) \in Nat /\ Len(b) # 0
    OBVIOUS
  <2> QED
    BY <1>1, <2>1
<1>4. Len(b) # 1 => Tail(b) # <<>>
  BY <1>1, <1>2, <1>3, Zenon
<1> QED
  BY <1>1, <1>4, Zenon

\* A step of p that leaves the others alone keeps the types if it keeps p's.
LEMMA ProcessFrame ==
  ASSUME Typed, NEW p \in Publishers,
         NEW l \in PCs, NEW b \in Seq(Fetched), NEW m \in Nat,
         pc' = [pc EXCEPT ![p] = l],
         batch' = [batch EXCEPT ![p] = b],
         marked' = [marked EXCEPT ![p] = m],
         m <= Len(b),
         m > 0 => l \in {"mark", "commit"},
         l \in {"idle", "stopping", "stopped"} <=> b = <<>>,
         l = "mark" => m < Len(b)
  PROVE  ProcessTyped'
<1>1. /\ pc' \in [Publishers -> PCs]
      /\ batch' \in [Publishers -> Seq(Fetched)]
      /\ marked' \in [Publishers -> Nat]
  BY DEF Typed, TypeOK
<1>2. ASSUME NEW q \in Publishers
      PROVE  /\ marked'[q] <= Len(batch'[q])
             /\ marked'[q] > 0 => pc'[q] \in {"mark", "commit"}
             /\ pc'[q] \in {"idle", "stopping", "stopped"} <=> batch'[q] = <<>>
             /\ pc'[q] = "mark" => marked'[q] < Len(batch'[q])
  <2>1. CASE q = p
    BY <2>1 DEF Typed, TypeOK
  <2>2. CASE q # p
    <3>1. pc'[q] = pc[q] /\ batch'[q] = batch[q] /\ marked'[q] = marked[q]
      BY <2>2 DEF Typed, TypeOK
    <3> QED
      BY <3>1 DEF Typed, TypeOK, Marking
  <2> QED
    BY <2>1, <2>2
<1> QED
  BY <1>1, <1>2 DEF ProcessTyped

\* The three variables when only the label of p changes.
LEMMA GotoFrame ==
  ASSUME Typed, NEW p \in Publishers, NEW l \in PCs, Goto(p, l), UNCHANGED <<batch, marked>>
  PROVE  /\ pc' = [pc EXCEPT ![p] = l]
         /\ batch' = [batch EXCEPT ![p] = batch[p]]
         /\ marked' = [marked EXCEPT ![p] = marked[p]]
BY DEF Typed, TypeOK, Goto

\* What a loop iteration leaves: the rest of the batch, or no batch.
LEMMA NextTaskFrame ==
  ASSUME Typed, NEW p \in Publishers, NextTask(p), batch[p] # <<>>, marked[p] = 0
  PROVE  \E l \in {"idle", "next"}, b \in Seq(Fetched) :
           /\ pc' = [pc EXCEPT ![p] = l]
           /\ batch' = [batch EXCEPT ![p] = b]
           /\ marked' = [marked EXCEPT ![p] = 0]
           /\ l = "idle" <=> b = <<>>
           /\ b = <<>> \/ b = Tail(batch[p])
<1>1. batch[p] \in Seq(Fetched)
  BY DEF Typed, TypeOK
<1>2. CASE Len(batch[p]) = 1
  <2>1. EndBatch(p)
    BY <1>2 DEF NextTask
  <2> WITNESS "idle" \in {"idle", "next"}
  <2>2. <<>> \in Seq(Fetched)
    OBVIOUS
  <2> WITNESS <<>> \in Seq(Fetched)
  <2> QED
    BY <2>1 DEF EndBatch, Goto
<1>3. CASE Len(batch[p]) # 1
  <2>1. batch' = [batch EXCEPT ![p] = Tail(batch[p])] /\ Goto(p, "next") /\ UNCHANGED marked
    BY <1>3 DEF NextTask, Typed, TypeOK
  <2>2. Tail(batch[p]) \in Seq(Fetched) /\ Tail(batch[p]) # <<>>
    BY <1>1, <1>3, TailOfBatch
  <2>3. marked' = [marked EXCEPT ![p] = 0]
    BY <2>1 DEF Typed, TypeOK
  <2> QED
    BY <2>1, <2>2, <2>3 DEF Goto
<1> QED
  BY <1>2, <1>3

\* The task a publisher works on.
LEMMA CurrentType ==
  ASSUME Typed, NEW p \in Publishers, pc[p] \notin {"idle", "stopping", "stopped"}
  PROVE  /\ batch[p] # <<>>
         /\ batch[p] \in Seq(Fetched)
         /\ 1 \in DOMAIN batch[p]
         /\ batch[p][1] \in Fetched
         /\ Current(p) \in Tasks
         /\ batch[p][1].attempts \in Nat
<1>1. batch[p] # <<>> /\ batch[p] \in Seq(Fetched)
  BY DEF Typed, TypeOK
<1>2. 1 \in DOMAIN batch[p] /\ batch[p][1] \in Fetched
  BY <1>1
<1>3. Current(p) \in Tasks /\ batch[p][1].attempts \in Nat
  BY <1>2 DEF Current, Fetched
<1> QED
  BY <1>1, <1>2, <1>3

\* A publisher past its marks has none.
LEMMA NoMarks ==
  ASSUME Typed, NEW p \in Publishers, pc[p] \notin {"mark", "commit"}
  PROVE  marked[p] = 0
BY DEF Typed, TypeOK

LEMMA UnlockType ==
  ASSUME Typed, NEW p \in Publishers, Unlock(p)
  PROVE  locked' \in [Tasks -> Publishers \union {None}]
BY DEF Typed, TypeOK, Unlock

LEMMA ApplyMarksType ==
  ASSUME Typed, NEW p \in Publishers, ApplyMarks(p)
  PROVE  status' \in [Tasks -> Statuses] /\ attempts' \in [Tasks -> Nat]
<1> DEFINE own(t) == {i \in DOMAIN batch[p] : batch[p][i].id = t}
<1>1. status' \in [Tasks -> Statuses]
  BY DEF Typed, TypeOK, ApplyMarks, Statuses
<1>2. ASSUME NEW t \in Tasks, own(t) # {}
      PROVE  batch[p][CHOOSE i \in own(t) : TRUE].attempts \in Nat
  <2>1. (CHOOSE i \in own(t) : TRUE) \in own(t)
    BY <1>2
  <2>2. (CHOOSE i \in own(t) : TRUE) \in DOMAIN batch[p]
    BY <2>1
  <2>3. batch[p] \in Seq(Fetched)
    BY DEF Typed, TypeOK
  <2>4. \A i \in DOMAIN batch[p] : batch[p][i] \in Fetched
    BY <2>3
  <2>5. batch[p][CHOOSE i \in own(t) : TRUE] \in Fetched
    BY <2>2, <2>4, Zenon
  <2> QED
    BY <2>5 DEF Fetched
<1>3. attempts' = [t \in Tasks |->
        IF own(t) # {} THEN batch[p][CHOOSE i \in own(t) : TRUE].attempts ELSE attempts[t]]
  BY DEF ApplyMarks
<1>4. attempts \in [Tasks -> Nat]
  BY DEF Typed, TypeOK
<1> HIDE DEF own
<1>5. attempts' \in [Tasks -> Nat]
  BY <1>2, <1>3, <1>4
<1> QED
  BY <1>1, <1>5

LEMMA EndBatchType ==
  ASSUME Typed, NEW p \in Publishers, EndBatch(p)
  PROVE  ProcessTyped'
<1>1. /\ pc' = [pc EXCEPT ![p] = "idle"]
      /\ batch' = [batch EXCEPT ![p] = <<>>]
      /\ marked' = [marked EXCEPT ![p] = 0]
  BY DEF EndBatch, Goto
<1>2. PICK b \in Seq(Fetched) : b = <<>>
  <2>1. <<>> \in Seq(Fetched)
    OBVIOUS
  <2> QED
    BY <2>1
<1>3. /\ "idle" \in PCs
      /\ 0 \in Nat
      /\ 0 <= Len(b)
      /\ 0 > 0 => "idle" \in {"mark", "commit"}
      /\ "idle" \in {"idle", "stopping", "stopped"} <=> b = <<>>
      /\ "idle" = "mark" => 0 < Len(b)
  BY <1>2 DEF PCs
<1> QED
  BY <1>1, <1>2, <1>3, ProcessFrame

LEMMA NextTaskType ==
  ASSUME Typed, NEW p \in Publishers, NextTask(p), pc[p] \in {"done", "failed"}
  PROVE  ProcessTyped'
<1>1. batch[p] # <<>> /\ marked[p] = 0
  BY CurrentType, NoMarks
<1>2. PICK l \in {"idle", "next"}, b \in Seq(Fetched) :
        /\ pc' = [pc EXCEPT ![p] = l]
        /\ batch' = [batch EXCEPT ![p] = b]
        /\ marked' = [marked EXCEPT ![p] = 0]
        /\ l = "idle" <=> b = <<>>
  BY <1>1, NextTaskFrame
<1>3. /\ l \in PCs
      /\ 0 \in Nat
      /\ 0 <= Len(b)
      /\ 0 > 0 => l \in {"mark", "commit"}
      /\ l \in {"idle", "stopping", "stopped"} <=> b = <<>>
      /\ l = "mark" => 0 < Len(b)
  BY <1>2 DEF PCs
<1> QED
  BY <1>2, <1>3, ProcessFrame, Zenon

\* The same when only the label of p changes.
LEMMA GotoType ==
  ASSUME Typed, NEW p \in Publishers, NEW l \in PCs, Goto(p, l), UNCHANGED <<batch, marked>>,
         marked[p] > 0 => l \in {"mark", "commit"},
         l \in {"idle", "stopping", "stopped"} <=> batch[p] = <<>>,
         l = "mark" => marked[p] < Len(batch[p])
  PROVE  ProcessTyped'
<1>1. batch[p] \in Seq(Fetched) /\ marked[p] \in Nat /\ marked[p] <= Len(batch[p])
  BY DEF Typed, TypeOK
<1>2. /\ pc' = [pc EXCEPT ![p] = l]
      /\ batch' = [batch EXCEPT ![p] = batch[p]]
      /\ marked' = [marked EXCEPT ![p] = marked[p]]
  BY GotoFrame
<1> QED
  BY <1>1, <1>2, ProcessFrame, Zenon

-----------------------------------------------------------------------------
(***************************************************************************)
(* Every step keeps the types.                                             *)
(***************************************************************************)

LEMMA InitTyped == Init => Typed
<1> SUFFICES ASSUME Init
             PROVE  Typed
  OBVIOUS
<1>1. <<>> \in Seq(Fetched) /\ Len(<<>>) = 0
  OBVIOUS
<1> QED
  BY <1>1 DEF Init, Typed, TypeOK, Marking, Statuses, PCs

\* ProcessTyped with the rest is Typed.
LEMMA TypedAgain ==
  ASSUME ProcessTyped',
         status' \in [Tasks -> Statuses], attempts' \in [Tasks -> Nat],
         locked' \in [Tasks -> Publishers \union {None}],
         sent' \in [Tasks -> Nat], behind' \in [Tasks -> SUBSET Tasks],
         cancelled' \in [Publishers -> BOOLEAN], wg' \in [Publishers -> 0..1],
         timedOut' \in [Publishers -> BOOLEAN]
  PROVE  Typed'
BY DEF Typed, TypeOK, Marking, ProcessTyped

\* The other way round, for steps that leave a variable alone.
LEMMA TypedParts ==
  ASSUME Typed
  PROVE  /\ ProcessTyped
         /\ status \in [Tasks -> Statuses] /\ attempts \in [Tasks -> Nat]
         /\ locked \in [Tasks -> Publishers \union {None}]
         /\ sent \in [Tasks -> Nat] /\ behind \in [Tasks -> SUBSET Tasks]
         /\ cancelled \in [Publishers -> BOOLEAN] /\ wg \in [Publishers -> 0..1]
         /\ timedOut \in [Publishers -> BOOLEAN]
BY DEF Typed, TypeOK, Marking, ProcessTyped

LEMMA EnqueueType ==
  ASSUME Typed, NEW t \in Tasks, Enqueue(t)
  PROVE  Typed'
<1>1. status' \in [Tasks -> Statuses]
  BY DEF Enqueue, Typed, TypeOK, Statuses
<1>2. ProcessTyped'
  BY TypedParts DEF Enqueue, process, ProcessTyped
<1> QED
  BY <1>1, <1>2, TypedParts, TypedAgain DEF Enqueue, process

LEMMA FetchType ==
  ASSUME Typed, NEW p \in Publishers, Fetch(p)
  PROVE  Typed'
<1>0. PICK n \in 1..BatchSize : \E ids \in [1..n -> Fetchable] :
        /\ Oldest(ids)
        /\ batch' = [batch EXCEPT ![p] =
                       [i \in 1..n |-> [id |-> ids[i], attempts |-> attempts[ids[i]]]]]
  BY DEF Fetch
<1>1. PICK ids \in [1..n -> Fetchable] :
        batch' = [batch EXCEPT ![p] =
                    [i \in 1..n |-> [id |-> ids[i], attempts |-> attempts[ids[i]]]]]
  BY <1>0
<1> DEFINE b == [i \in 1..n |-> [id |-> ids[i], attempts |-> attempts[ids[i]]]]
<1>2. n \in Nat /\ n > 0
  BY LimitsAreNat
<1>3. ASSUME NEW i \in 1..n
      PROVE  [id |-> ids[i], attempts |-> attempts[ids[i]]] \in Fetched
  <2>1. ids[i] \in Tasks
    BY DEF Fetchable
  <2> QED
    BY <2>1 DEF Fetched, Typed, TypeOK
<1>4. b \in Seq(Fetched) /\ Len(b) = n /\ b # <<>>
  BY <1>2, <1>3
<1>5. marked[p] = 0
  BY NoMarks DEF Fetch
<1>6. /\ pc' = [pc EXCEPT ![p] = "mark"]
      /\ batch' = [batch EXCEPT ![p] = b]
      /\ marked' = [marked EXCEPT ![p] = 0]
  BY <1>1, <1>5 DEF Fetch, Goto, Typed, TypeOK
<1> HIDE DEF b
<1>7. ProcessTyped'
  <2>1. "mark" \in PCs /\ 0 \in Nat /\ 0 <= Len(b) /\ 0 < Len(b)
    BY <1>2, <1>4 DEF PCs
  <2> QED
    BY <1>4, <1>6, <2>1, ProcessFrame
<1> QED
  BY <1>7, TypedParts, TypedAgain DEF Fetch, rows, life

LEMMA MarkType ==
  ASSUME Typed, NEW p \in Publishers, Mark(p)
  PROVE  Typed'
<1> DEFINE l == IF marked[p] + 1 = Len(batch[p]) THEN "commit" ELSE "mark"
<1>1. marked[p] \in Nat /\ batch[p] \in Seq(Fetched) /\ marked[p] < Len(batch[p])
  BY DEF Typed, TypeOK, Marking, Mark
<1>2. batch[p] # <<>>
  BY DEF Typed, TypeOK, Mark
<1>3. locked' \in [Tasks -> Publishers \union {None}]
  BY DEF Mark, Typed, TypeOK
<1>4. /\ pc' = [pc EXCEPT ![p] = l]
      /\ batch' = [batch EXCEPT ![p] = batch[p]]
      /\ marked' = [marked EXCEPT ![p] = marked[p] + 1]
  BY DEF Mark, Goto, Typed, TypeOK
<1>5. /\ l \in {"mark", "commit"} /\ l \in PCs
      /\ marked[p] + 1 \in Nat /\ marked[p] + 1 <= Len(batch[p])
      /\ l = "mark" => marked[p] + 1 < Len(batch[p])
  BY <1>1 DEF PCs
<1> HIDE DEF l
<1>6. ProcessTyped'
  BY <1>1, <1>2, <1>4, <1>5, ProcessFrame
<1> QED
  BY <1>3, <1>6, TypedParts, TypedAgain DEF Mark, life

LEMMA CommitMarksType ==
  ASSUME Typed, NEW p \in Publishers, CommitMarks(p)
  PROVE  Typed'
<1>1. status' \in [Tasks -> Statuses] /\ attempts' \in [Tasks -> Nat]
  BY ApplyMarksType DEF CommitMarks
<1>2. locked' \in [Tasks -> Publishers \union {None}]
  BY UnlockType DEF CommitMarks
<1>3. batch[p] # <<>> /\ batch[p] \in Seq(Fetched)
  BY CurrentType DEF CommitMarks
<1>4. /\ pc' = [pc EXCEPT ![p] = "next"]
      /\ batch' = [batch EXCEPT ![p] = batch[p]]
      /\ marked' = [marked EXCEPT ![p] = 0]
  BY DEF CommitMarks, Goto, Typed, TypeOK
<1>5. ProcessTyped'
  <2>1. /\ "next" \in PCs
        /\ 0 \in Nat
        /\ 0 <= Len(batch[p])
        /\ 0 > 0 => "next" \in {"mark", "commit"}
        /\ "next" \in {"idle", "stopping", "stopped"} <=> batch[p] = <<>>
        /\ "next" = "mark" => 0 < Len(batch[p])
    BY <1>3 DEF PCs
  <2> QED
    BY <1>3, <1>4, <2>1, ProcessFrame, Zenon
<1> QED
  BY <1>1, <1>2, <1>5, TypedParts, TypedAgain DEF CommitMarks, life

LEMMA MarkFailsType ==
  ASSUME Typed, NEW p \in Publishers, MarkFails(p)
  PROVE  Typed'
<1>1. status' \in [Tasks -> Statuses] /\ attempts' \in [Tasks -> Nat]
  BY ApplyMarksType, TypedParts DEF MarkFails
<1>2. locked' \in [Tasks -> Publishers \union {None}]
  BY UnlockType DEF MarkFails
<1>3. ProcessTyped'
  BY EndBatchType DEF MarkFails
<1> QED
  BY <1>1, <1>2, <1>3, TypedParts, TypedAgain DEF MarkFails, life

LEMMA LookAtContextType ==
  ASSUME Typed, NEW p \in Publishers, LookAtContext(p)
  PROVE  Typed'
<1>1. ProcessTyped'
  <2>1. CASE cancelled[p]
    BY <2>1, EndBatchType DEF LookAtContext
  <2>2. CASE ~cancelled[p]
    <3>1. Goto(p, "send") /\ UNCHANGED <<batch, marked>>
      BY <2>2 DEF LookAtContext
    <3>2. marked[p] = 0 /\ batch[p] # <<>> /\ "send" \in PCs
      BY NoMarks, CurrentType DEF LookAtContext, PCs
    <3> QED
      BY <3>1, <3>2, GotoType
  <2> QED
    BY <2>1, <2>2
<1> QED
  BY <1>1, TypedParts, TypedAgain DEF LookAtContext, rows, life

LEMMA SendMessageType ==
  ASSUME Typed, NEW p \in Publishers, SendMessage(p)
  PROVE  Typed'
<1>1. marked[p] = 0 /\ batch[p] # <<>> /\ "done" \in PCs
  BY NoMarks, CurrentType DEF SendMessage, PCs
<1>2. ProcessTyped'
  BY <1>1, GotoType DEF SendMessage
<1>3. sent' \in [Tasks -> Nat]
  BY CurrentType DEF SendMessage, Typed, TypeOK
<1> QED
  BY <1>2, <1>3, TypedParts, TypedAgain DEF SendMessage, rows, life

LEMMA SendFailsType ==
  ASSUME Typed, NEW p \in Publishers, SendFails(p)
  PROVE  Typed'
<1>1. marked[p] = 0 /\ batch[p] # <<>> /\ "failed" \in PCs
  BY NoMarks, CurrentType DEF SendFails, PCs
<1>2. ProcessTyped'
  BY <1>1, GotoType DEF SendFails, AfterFailedSend
<1> QED
  BY <1>2, TypedParts, TypedAgain DEF SendFails, rows, life

LEMMA RecordDoneType ==
  ASSUME Typed, NEW p \in Publishers, RecordDone(p)
  PROVE  Typed'
<1>1. ProcessTyped'
  BY NextTaskType DEF RecordDone
<1>2. batch[p][1].attempts \in Nat
  BY CurrentType DEF RecordDone
<1>3. status' \in [Tasks -> Statuses] /\ attempts' \in [Tasks -> Nat]
  BY <1>2 DEF RecordDone, Typed, TypeOK, Statuses
<1> QED
  BY <1>1, <1>3, TypedParts, TypedAgain DEF RecordDone, life

LEMMA RecordFailedType ==
  ASSUME Typed, NEW p \in Publishers, RecordFailed(p)
  PROVE  Typed'
<1>1. ProcessTyped'
  BY NextTaskType DEF RecordFailed
<1>2. NewAttempts(p) \in Nat
  BY CurrentType DEF RecordFailed, NewAttempts
<1>3. status' \in [Tasks -> Statuses] /\ attempts' \in [Tasks -> Nat]
  BY <1>2 DEF RecordFailed, Typed, TypeOK, Statuses
<1>4. behind' \in [Tasks -> SUBSET Tasks]
  BY DEF RecordFailed, Waiting, Typed, TypeOK
<1> QED
  BY <1>1, <1>3, <1>4, TypedParts, TypedAgain DEF RecordFailed, life

LEMMA RecordFailsType ==
  ASSUME Typed, NEW p \in Publishers, RecordFails(p)
  PROVE  Typed'
<1>1. ProcessTyped'
  BY NextTaskType DEF RecordFails
<1> QED
  BY <1>1, TypedParts, TypedAgain DEF RecordFails, rows, life

LEMMA StopType ==
  ASSUME Typed, NEW p \in Publishers, Stop(p)
  PROVE  Typed'
<1>1. CASE Cancel(p)
  <2>1. cancelled' \in [Publishers -> BOOLEAN] /\ ProcessTyped'
    BY <1>1, TypedParts DEF Cancel, ProcessTyped
  <2> QED
    BY <1>1, <2>1, TypedParts, TypedAgain DEF Cancel, rows
<1>2. CASE BeginShutdown(p)
  <2>1. marked[p] = 0 /\ batch[p] = <<>> /\ "stopping" \in PCs
    BY <1>2, NoMarks DEF BeginShutdown, Typed, TypeOK, PCs
  <2>2. ProcessTyped'
    BY <1>2, <2>1, GotoType DEF BeginShutdown
  <2> QED
    BY <1>2, <2>2, TypedParts, TypedAgain DEF BeginShutdown, rows, life
<1>3. CASE EndShutdown(p)
  <2>1. marked[p] = 0 /\ batch[p] = <<>> /\ "stopped" \in PCs
    BY <1>3, NoMarks DEF EndShutdown, Typed, TypeOK, PCs
  <2>2. ProcessTyped'
    BY <1>3, <2>1, GotoType DEF EndShutdown
  <2>3. timedOut' \in [Publishers -> BOOLEAN] /\ wg' \in [Publishers -> 0..1]
    BY <1>3 DEF EndShutdown, Typed, TypeOK
  <2> QED
    BY <1>3, <2>2, <2>3, TypedParts, TypedAgain DEF EndShutdown, rows
<1>4. CASE Crash(p)
  <2>1. /\ pc' = [pc EXCEPT ![p] = "stopped"]
        /\ batch' = [batch EXCEPT ![p] = <<>>]
        /\ marked' = [marked EXCEPT ![p] = 0]
    BY <1>4 DEF Crash, Goto
  <2>2. PICK b \in Seq(Fetched) : b = <<>>
    <3>1. <<>> \in Seq(Fetched)
      OBVIOUS
    <3> QED
      BY <3>1
  <2>3. /\ "stopped" \in PCs
        /\ 0 \in Nat
        /\ 0 <= Len(b)
        /\ 0 > 0 => "stopped" \in {"mark", "commit"}
        /\ "stopped" \in {"idle", "stopping", "stopped"} <=> b = <<>>
        /\ "stopped" = "mark" => 0 < Len(b)
    BY <2>2 DEF PCs
  <2>4. ProcessTyped'
    BY <2>1, <2>2, <2>3, ProcessFrame
  <2>5. locked' \in [Tasks -> Publishers \union {None}]
    BY <1>4, UnlockType DEF Crash
  <2> QED
    BY <1>4, <2>4, <2>5, TypedParts, TypedAgain DEF Crash, life
<1>5. CASE Restart(p)
  <2>1. marked[p] = 0 /\ batch[p] = <<>> /\ batch[p] \in Seq(Fetched)
    BY <1>5, NoMarks DEF Restart, Typed, TypeOK
  <2>2. ProcessTyped'
    BY <1>5, <2>1, GotoType DEF Restart, PCs
  <2>3. /\ cancelled' \in [Publishers -> BOOLEAN]
        /\ timedOut' \in [Publishers -> BOOLEAN] /\ wg' \in [Publishers -> 0..1]
    BY <1>5 DEF Restart, Typed, TypeOK
  <2> QED
    BY <1>5, <2>2, <2>3, TypedParts, TypedAgain DEF Restart, rows
<1> QED
  BY <1>1, <1>2, <1>3, <1>4, <1>5 DEF Stop

LEMMA StepTyped == Typed /\ [Next]_vars => Typed'
<1> SUFFICES ASSUME Typed, [Next]_vars
             PROVE  Typed'
  OBVIOUS
<1>1. CASE UNCHANGED vars
  BY <1>1 DEF vars, Typed, TypeOK, Marking
<1>2. ASSUME NEW t \in Tasks, Enqueue(t)
      PROVE  Typed'
  BY <1>2, EnqueueType
<1>3. ASSUME NEW p \in Publishers, Work(p)
      PROVE  Typed'
  BY <1>3, FetchType, MarkType, CommitMarksType, LookAtContextType, SendMessageType,
     SendFailsType, RecordDoneType, RecordFailedType DEF Work
<1>4. ASSUME NEW p \in Publishers, Poll(p)
      PROVE  Typed'
  BY <1>1, <1>4 DEF Poll
<1>5. ASSUME NEW p \in Publishers, MarkFails(p) \/ RecordFails(p) \/ Stop(p)
      PROVE  Typed'
  BY <1>5, MarkFailsType, RecordFailsType, StopType
<1> QED
  BY <1>1, <1>2, <1>3, <1>4, <1>5 DEF Next

LEMMA TypedHolds == Spec => []Typed
<1> QED
  BY InitTyped, StepTyped, PTL DEF Spec

\* However publishers overwrite each other's rows, stop, crash and start again,
\* a batch is never left behind, and no update is made without one.
THEOREM TypeCorrect == Spec => []TypeOK
<1>1. Typed => TypeOK
  BY DEF Typed
<1> QED
  BY <1>1, TypedHolds, PTL

-----------------------------------------------------------------------------
(***************************************************************************)
(* Attempts and deliveries, with any number of publishers.  A fetched copy *)
(* of a task has attempts below the limit, whatever its row holds by now,  *)
(* and a publisher that is about to write DONE has sent the task.          *)
(***************************************************************************)

Budget ==
  /\ AttemptsBounded
  /\ \A t \in Tasks : status[t] \in {"NONE", "CREATED"} => attempts[t] = 0
  /\ \A p \in Publishers : \A i \in DOMAIN batch[p] : batch[p][i].attempts < RetryLimit

Sends ==
  /\ DoneMeansSent
  /\ \A p \in Publishers : pc[p] = "done" => sent[Current(p)] > 0

\* A step that fetches nothing: what is in a batch was in it before.
Kept ==
  \A q \in Publishers : \A i \in DOMAIN batch'[q] :
    \E j \in DOMAIN batch[q] : batch'[q][i] = batch[q][j]

LEMMA KeptUnchanged ==
  ASSUME UNCHANGED batch
  PROVE  Kept
BY DEF Kept

LEMMA KeptEndBatch ==
  ASSUME Typed, NEW p \in Publishers, batch' = [batch EXCEPT ![p] = <<>>]
  PROVE  Kept
<1> SUFFICES ASSUME NEW q \in Publishers, NEW i \in DOMAIN batch'[q]
             PROVE  \E j \in DOMAIN batch[q] : batch'[q][i] = batch[q][j]
  BY DEF Kept
<1>1. DOMAIN <<>> = {}
  OBVIOUS
<1>2. CASE q = p
  BY <1>1, <1>2 DEF Typed, TypeOK
<1>3. CASE q # p
  BY <1>3 DEF Typed, TypeOK
<1> QED
  BY <1>2, <1>3

LEMMA KeptNextTask ==
  ASSUME Typed, NEW p \in Publishers, NextTask(p), pc[p] \in {"done", "failed"}
  PROVE  Kept
<1>1. batch[p] # <<>> /\ marked[p] = 0 /\ batch[p] \in Seq(Fetched)
  BY CurrentType, NoMarks
<1>2. PICK b \in Seq(Fetched) :
        /\ batch' = [batch EXCEPT ![p] = b]
        /\ b = <<>> \/ b = Tail(batch[p])
  BY <1>1, NextTaskFrame
<1>3. CASE b = <<>>
  BY <1>2, <1>3, KeptEndBatch
<1>4. CASE b # <<>>
  <2> SUFFICES ASSUME NEW q \in Publishers, NEW i \in DOMAIN batch'[q]
               PROVE  \E j \in DOMAIN batch[q] : batch'[q][i] = batch[q][j]
    BY DEF Kept
  <2>1. CASE q = p
    <3>1. batch'[q] = b /\ i \in DOMAIN b
      BY <1>2, <2>1 DEF Typed, TypeOK
    <3>2. /\ Len(b) = Len(batch[p]) - 1
          /\ \A k \in 1..Len(b) : b[k] = batch[p][k + 1]
      <4>1. b = Tail(batch[p])
        BY <1>2, <1>4
      <4>2. /\ Len(Tail(batch[p])) = Len(batch[p]) - 1
            /\ \A k \in 1..Len(Tail(batch[p])) : Tail(batch[p])[k] = batch[p][k + 1]
        BY <1>1, TailOfBatch, Zenon
      <4> QED
        BY <4>1, <4>2, Zenon
    <3>3. i \in 1..Len(b) /\ Len(b) \in Nat /\ Len(batch[p]) \in Nat
      BY <1>1, <3>1
    <3>4. i + 1 \in 1..Len(batch[p])
      BY <3>2, <3>3
    <3>5. i + 1 \in DOMAIN batch[p]
      BY <1>1, <3>4
    <3> QED
      BY <2>1, <3>1, <3>2, <3>3, <3>5
  <2>2. CASE q # p
    BY <1>2, <2>2 DEF Typed, TypeOK
  <2> QED
    BY <2>1, <2>2
<1> QED
  BY <1>3, <1>4

LEMMA BudgetFrame ==
  ASSUME Typed, Budget, Kept, UNCHANGED <<status, attempts>>
  PROVE  Budget'
BY DEF Typed, TypeOK, Budget, AttemptsBounded, Kept

\* Marks write back attempts that were fetched.
LEMMA MarkedAttempts ==
  ASSUME Typed, NEW p \in Publishers, ApplyMarks(p), NEW t \in Tasks
  PROVE  \/ status'[t] = status[t] /\ attempts'[t] = attempts[t]
            /\ \A i \in DOMAIN batch[p] : batch[p][i].id # t
         \/ /\ status'[t] = "PROCESSING"
            /\ \E i \in DOMAIN batch[p] :
                 batch[p][i].id = t /\ attempts'[t] = batch[p][i].attempts
<1> DEFINE own == {i \in DOMAIN batch[p] : batch[p][i].id = t}
<1>1. /\ status'[t] = IF own # {} THEN "PROCESSING" ELSE status[t]
      /\ attempts'[t] = IF own # {} THEN batch[p][CHOOSE i \in own : TRUE].attempts
                        ELSE attempts[t]
  BY DEF ApplyMarks
<1>2. CASE own = {}
  BY <1>1, <1>2
<1>3. CASE own # {}
  <2>1. (CHOOSE i \in own : TRUE) \in own
    BY <1>3
  <2> QED
    BY <1>1, <1>3, <2>1
<1> QED
  BY <1>2, <1>3

LEMMA BudgetMarks ==
  ASSUME Typed, Budget, Kept, NEW p \in Publishers, ApplyMarks(p)
  PROVE  Budget'
<1>1. ASSUME NEW t \in Tasks
      PROVE  /\ attempts'[t] <= RetryLimit
             /\ status'[t] = "FAILED" => attempts'[t] > 0
             /\ status'[t] \in {"NONE", "CREATED"} => attempts'[t] = 0
  <2>1. CASE status'[t] = status[t] /\ attempts'[t] = attempts[t]
    BY <2>1 DEF Budget, AttemptsBounded
  <2>2. CASE /\ status'[t] = "PROCESSING"
             /\ \E i \in DOMAIN batch[p] : attempts'[t] = batch[p][i].attempts
    <3>1. attempts'[t] < RetryLimit
      BY <2>2 DEF Budget
    <3>2. attempts'[t] \in Nat
      BY ApplyMarksType
    <3> QED
      BY <2>2, <3>1, <3>2, LimitsAreNat
  <2> QED
    BY <2>1, <2>2, MarkedAttempts
<1>2. ASSUME NEW q \in Publishers, NEW i \in DOMAIN batch'[q]
      PROVE  batch'[q][i].attempts < RetryLimit
  BY DEF Kept, Budget
<1> QED
  BY <1>1, <1>2 DEF Budget, AttemptsBounded

\* One row is written.
LEMMA BudgetUpdate ==
  ASSUME Typed, Budget, Kept, NEW t \in Tasks, NEW a \in Nat,
         NEW st \in {"DONE", "FAILED"}, a <= RetryLimit, a > 0 \/ st = "DONE",
         status' = [status EXCEPT ![t] = st], attempts' = [attempts EXCEPT ![t] = a]
  PROVE  Budget'
<1>1. ASSUME NEW u \in Tasks
      PROVE  /\ attempts'[u] <= RetryLimit
             /\ status'[u] = "FAILED" => attempts'[u] > 0
             /\ status'[u] \in {"NONE", "CREATED"} => attempts'[u] = 0
  BY DEF Typed, TypeOK, Budget, AttemptsBounded
<1>2. ASSUME NEW q \in Publishers, NEW i \in DOMAIN batch'[q]
      PROVE  batch'[q][i].attempts < RetryLimit
  BY DEF Kept, Budget
<1> QED
  BY <1>1, <1>2 DEF Budget, AttemptsBounded

LEMMA BudgetFetch ==
  ASSUME Typed, Budget, NEW p \in Publishers, Fetch(p)
  PROVE  Budget'
<1>1. PICK n \in 1..BatchSize : \E ids \in [1..n -> Fetchable] :
        /\ Oldest(ids)
        /\ batch' = [batch EXCEPT ![p] =
                       [i \in 1..n |-> [id |-> ids[i], attempts |-> attempts[ids[i]]]]]
  BY DEF Fetch
<1>2. PICK ids \in [1..n -> Fetchable] :
        batch' = [batch EXCEPT ![p] =
                    [i \in 1..n |-> [id |-> ids[i], attempts |-> attempts[ids[i]]]]]
  BY <1>1
<1>3. ASSUME NEW q \in Publishers, NEW i \in DOMAIN batch'[q]
      PROVE  batch'[q][i].attempts < RetryLimit
  <2>1. CASE q = p
    <3>1. i \in 1..n /\ batch'[q][i].attempts = attempts[ids[i]]
      BY <1>2, <2>1 DEF Typed, TypeOK
    <3>2. ids[i] \in Tasks /\ Processable(ids[i])
      BY <3>1 DEF Fetchable
    <3> QED
      BY <3>1, <3>2, LimitsAreNat DEF Budget, Processable
  <2>2. CASE q # p
    BY <1>2, <2>2 DEF Typed, TypeOK, Budget
  <2> QED
    BY <2>1, <2>2
<1>4. UNCHANGED <<status, attempts>>
  BY DEF Fetch, rows
<1> QED
  BY <1>3, <1>4 DEF Budget, AttemptsBounded

LEMMA StepBudget == Typed /\ Budget /\ [Next]_vars => Budget'
<1> SUFFICES ASSUME Typed, Budget, [Next]_vars
             PROVE  Budget'
  OBVIOUS
<1>1. CASE UNCHANGED vars
  BY <1>1, KeptUnchanged, BudgetFrame DEF vars
<1>2. ASSUME NEW t \in Tasks, Enqueue(t)
      PROVE  Budget'
  BY <1>2 DEF Enqueue, process, Typed, TypeOK, Budget, AttemptsBounded
<1>3. ASSUME NEW p \in Publishers, Work(p)
      PROVE  Budget'
  <2>1. CASE Fetch(p)
    BY <2>1, BudgetFetch
  <2>2. CASE Mark(p) \/ SendMessage(p) \/ SendFails(p)
    BY <2>2, KeptUnchanged, BudgetFrame DEF Mark, SendMessage, SendFails, rows
  <2>3. CASE CommitMarks(p)
    BY <2>3, KeptUnchanged, BudgetMarks DEF CommitMarks
  <2>4. CASE LookAtContext(p)
    <3>1. Kept
      BY <2>4, KeptUnchanged, KeptEndBatch DEF LookAtContext, EndBatch
    <3> QED
      BY <2>4, <3>1, BudgetFrame DEF LookAtContext, rows
  <2>5. CASE RecordDone(p)
    <3>1. Kept
      BY <2>5, KeptNextTask DEF RecordDone
    <3>2. Current(p) \in Tasks /\ 1 \in DOMAIN batch[p] /\ batch[p][1].attempts \in Nat
      BY <2>5, CurrentType DEF RecordDone
    <3>3. batch[p][1].attempts < RetryLimit
      BY <3>2 DEF Budget
    <3>4. batch[p][1].attempts <= RetryLimit
      BY <3>2, <3>3, LimitsAreNat
    <3> QED
      BY <2>5, <3>1, <3>2, <3>4, BudgetUpdate DEF RecordDone
  <2>6. CASE RecordFailed(p)
    <3>1. Kept
      BY <2>6, KeptNextTask DEF RecordFailed
    <3>2. Current(p) \in Tasks /\ 1 \in DOMAIN batch[p] /\ batch[p][1].attempts \in Nat
      BY <2>6, CurrentType DEF RecordFailed
    <3>3. batch[p][1].attempts < RetryLimit
      BY <3>2 DEF Budget
    <3>4. NewAttempts(p) \in Nat /\ NewAttempts(p) <= RetryLimit /\ NewAttempts(p) > 0
      BY <3>2, <3>3, LimitsAreNat DEF NewAttempts
    <3> QED
      BY <2>6, <3>1, <3>2, <3>4, BudgetUpdate DEF RecordFailed
  <2> QED
    BY <1>3, <2>1, <2>2, <2>3, <2>4, <2>5, <2>6 DEF Work
<1>4. ASSUME NEW p \in Publishers, Poll(p)
      PROVE  Budget'
  BY <1>1, <1>4 DEF Poll
<1>5. ASSUME NEW p \in Publishers, MarkFails(p)
      PROVE  Budget'
  <2>1. Kept
    BY <1>5, KeptEndBatch DEF MarkFails, EndBatch
  <2> QED
    BY <1>5, <2>1, BudgetFrame, BudgetMarks DEF MarkFails
<1>6. ASSUME NEW p \in Publishers, RecordFails(p)
      PROVE  Budget'
  <2>1. Kept
    BY <1>6, KeptNextTask DEF RecordFails
  <2> QED
    BY <1>6, <2>1, BudgetFrame DEF RecordFails, rows
<1>7. ASSUME NEW p \in Publishers, Stop(p)
      PROVE  Budget'
  <2>1. Kept
    BY <1>7, KeptUnchanged, KeptEndBatch
       DEF Stop, Cancel, BeginShutdown, EndShutdown, Crash, Restart
  <2>2. UNCHANGED <<status, attempts>>
    BY <1>7 DEF Stop, Cancel, BeginShutdown, EndShutdown, Crash, Restart, rows
  <2> QED
    BY <2>1, <2>2, BudgetFrame
<1> QED
  BY <1>1, <1>2, <1>3, <1>4, <1>5, <1>6, <1>7 DEF Next

LEMMA SendsFrame ==
  ASSUME Typed, Sends,
         \A t \in Tasks : sent'[t] >= sent[t],
         \A t \in Tasks : status'[t] = "DONE" => status[t] = "DONE" \/ sent[t] > 0,
         \A q \in Publishers : pc'[q] = "done" =>
           \/ pc[q] = "done" /\ batch'[q] = batch[q]
           \/ batch'[q] = batch[q] /\ sent'[Current(q)] > 0,
         sent' \in [Tasks -> Nat]
  PROVE  Sends'
<1>1. ASSUME NEW t \in Tasks, status'[t] = "DONE"
      PROVE  sent'[t] > 0
  <2>1. sent[t] > 0
    BY <1>1 DEF Sends, DoneMeansSent
  <2> QED
    BY <2>1 DEF Typed, TypeOK
<1>2. ASSUME NEW q \in Publishers, pc'[q] = "done"
      PROVE  sent'[Current(q)'] > 0
  <2>1. batch'[q] = batch[q]
    BY <1>2
  <2>2. Current(q)' = Current(q)
    BY <2>1 DEF Current
  <2>3. CASE pc[q] = "done"
    <3>1. sent[Current(q)] > 0 /\ Current(q) \in Tasks
      BY <2>3, CurrentType DEF Sends
    <3> QED
      BY <2>2, <3>1 DEF Typed, TypeOK
  <2> QED
    BY <1>2, <2>2, <2>3
<1> QED
  BY <1>1, <1>2 DEF Sends, DoneMeansSent

\* A step that neither sends nor writes DONE, and brings nobody to "done".
LEMMA SendsQuiet ==
  ASSUME Typed, Sends, UNCHANGED sent,
         \A t \in Tasks : status'[t] = "DONE" => status[t] = "DONE",
         \A q \in Publishers : pc'[q] = "done" => pc[q] = "done" /\ batch'[q] = batch[q]
  PROVE  Sends'
<1>1. \A t \in Tasks : sent'[t] >= sent[t]
  BY DEF Typed, TypeOK
<1> QED
  BY <1>1, SendsFrame DEF Typed, TypeOK

\* Only p moves, and not to "done".
LEMMA Moves ==
  ASSUME Typed, NEW p \in Publishers, NEW l \in PCs \ {"done"}, Goto(p, l),
         NEW b, batch' = [batch EXCEPT ![p] = b]
  PROVE  \A q \in Publishers : pc'[q] = "done" => pc[q] = "done" /\ batch'[q] = batch[q]
BY DEF Typed, TypeOK, Goto

LEMMA MovesNextTask ==
  ASSUME Typed, NEW p \in Publishers, NextTask(p), pc[p] \in {"done", "failed"}
  PROVE  \A q \in Publishers : pc'[q] = "done" => pc[q] = "done" /\ batch'[q] = batch[q]
<1>1. PICK l \in {"idle", "next"}, b \in Seq(Fetched) :
        /\ pc' = [pc EXCEPT ![p] = l]
        /\ batch' = [batch EXCEPT ![p] = b]
  BY CurrentType, NoMarks, NextTaskFrame
<1> QED
  BY <1>1 DEF Typed, TypeOK

LEMMA StepSends == Typed /\ Sends /\ [Next]_vars => Sends'
<1> SUFFICES ASSUME Typed, Sends, [Next]_vars
             PROVE  Sends'
  OBVIOUS
<1>1. CASE UNCHANGED vars
  BY <1>1, SendsQuiet DEF vars
<1>2. ASSUME NEW t \in Tasks, Enqueue(t)
      PROVE  Sends'
  <2>1. \A u \in Tasks : status'[u] = "DONE" => status[u] = "DONE"
    BY <1>2 DEF Enqueue, Typed, TypeOK
  <2> QED
    BY <1>2, <2>1, SendsQuiet DEF Enqueue, process
<1>3. ASSUME NEW p \in Publishers, Work(p)
      PROVE  Sends'
  <2>1. CASE Fetch(p)
    <3>1. \A q \in Publishers : pc'[q] = "done" => pc[q] = "done" /\ batch'[q] = batch[q]
      BY <2>1, Moves DEF Fetch, PCs
    <3> QED
      BY <2>1, <3>1, SendsQuiet DEF Fetch, rows
  <2>2. CASE Mark(p)
    <3>1. \A q \in Publishers : pc'[q] = "done" => pc[q] = "done" /\ batch'[q] = batch[q]
      BY <2>2 DEF Mark, Goto, Typed, TypeOK
    <3> QED
      BY <2>2, <3>1, SendsQuiet DEF Mark
  <2>3. CASE CommitMarks(p)
    <3>1. \A q \in Publishers : pc'[q] = "done" => pc[q] = "done" /\ batch'[q] = batch[q]
      BY <2>3 DEF CommitMarks, Goto, Typed, TypeOK
    <3>2. \A t \in Tasks : status'[t] = "DONE" => status[t] = "DONE"
      BY <2>3, MarkedAttempts DEF CommitMarks
    <3> QED
      BY <2>3, <3>1, <3>2, SendsQuiet DEF CommitMarks
  <2>4. CASE LookAtContext(p)
    <3>1. \A q \in Publishers : pc'[q] = "done" => pc[q] = "done" /\ batch'[q] = batch[q]
      BY <2>4 DEF LookAtContext, EndBatch, Goto, Typed, TypeOK
    <3> QED
      BY <2>4, <3>1, SendsQuiet DEF LookAtContext, rows
  <2>5. CASE SendMessage(p)
    <3>1. Current(p) \in Tasks
      BY <2>5, CurrentType DEF SendMessage
    <3>2. sent' \in [Tasks -> Nat] /\ \A t \in Tasks : sent'[t] >= sent[t]
      BY <2>5, <3>1 DEF SendMessage, Typed, TypeOK
    <3>3. sent'[Current(p)] > 0
      BY <2>5, <3>1 DEF SendMessage, Typed, TypeOK
    <3>4. \A q \in Publishers : pc'[q] = "done" => pc[q] = "done" \/ q = p
      BY <2>5 DEF SendMessage, Goto, Typed, TypeOK
    <3> QED
      BY <2>5, <3>2, <3>3, <3>4, SendsFrame DEF SendMessage, rows
  <2>6. CASE SendFails(p)
    <3>1. \A q \in Publishers : pc'[q] = "done" => pc[q] = "done" /\ batch'[q] = batch[q]
      BY <2>6 DEF SendFails, AfterFailedSend, Goto, Typed, TypeOK
    <3> QED
      BY <2>6, <3>1, SendsQuiet DEF SendFails, rows
  <2>7. CASE RecordDone(p)
    <3>1. \A q \in Publishers : pc'[q] = "done" => pc[q] = "done" /\ batch'[q] = batch[q]
      BY <2>7, MovesNextTask DEF RecordDone
    <3>2. \A t \in Tasks : status'[t] = "DONE" => status[t] = "DONE" \/ sent[t] > 0
      BY <2>7 DEF RecordDone, Sends, Typed, TypeOK
    <3>3. UNCHANGED sent /\ \A t \in Tasks : sent'[t] >= sent[t]
      BY <2>7 DEF RecordDone, Typed, TypeOK
    <3>4. sent' \in [Tasks -> Nat]
      BY <3>3 DEF Typed, TypeOK
    <3> QED
      BY <3>1, <3>2, <3>3, <3>4, SendsFrame
  <2>8. CASE RecordFailed(p)
    <3>1. \A q \in Publishers : pc'[q] = "done" => pc[q] = "done" /\ batch'[q] = batch[q]
      BY <2>8, MovesNextTask DEF RecordFailed
    <3>2. \A t \in Tasks : status'[t] = "DONE" => status[t] = "DONE"
      BY <2>8 DEF RecordFailed, Typed, TypeOK
    <3> QED
      BY <2>8, <3>1, <3>2, SendsQuiet DEF RecordFailed
  <2> QED
    BY <1>3, <2>1, <2>2, <2>3, <2>4, <2>5, <2>6, <2>7, <2>8 DEF Work
<1>4. ASSUME NEW p \in Publishers, Poll(p)
      PROVE  Sends'
  BY <1>1, <1>4 DEF Poll
<1>5. ASSUME NEW p \in Publishers, MarkFails(p)
      PROVE  Sends'
  <2>1. \A q \in Publishers : pc'[q] = "done" => pc[q] = "done" /\ batch'[q] = batch[q]
    BY <1>5 DEF MarkFails, EndBatch, Goto, Typed, TypeOK
  <2>2. \A t \in Tasks : status'[t] = "DONE" => status[t] = "DONE"
    BY <1>5, MarkedAttempts DEF MarkFails
  <2> QED
    BY <1>5, <2>1, <2>2, SendsQuiet DEF MarkFails
<1>6. ASSUME NEW p \in Publishers, RecordFails(p)
      PROVE  Sends'
  <2>1. \A q \in Publishers : pc'[q] = "done" => pc[q] = "done" /\ batch'[q] = batch[q]
    BY <1>6, MovesNextTask DEF RecordFails
  <2> QED
    BY <1>6, <2>1, SendsQuiet DEF RecordFails, rows
<1>7. ASSUME NEW p \in Publishers, Stop(p)
      PROVE  Sends'
  <2>1. \A q \in Publishers : pc'[q] = "done" => pc[q] = "done" /\ batch'[q] = batch[q]
    BY <1>7 DEF Stop, Cancel, BeginShutdown, EndShutdown, Crash, Restart, Goto, Typed, TypeOK
  <2>2. UNCHANGED <<status, sent>>
    BY <1>7 DEF Stop, Cancel, BeginShutdown, EndShutdown, Crash, Restart, rows
  <2> QED
    BY <2>1, <2>2, SendsQuiet
<1> QED
  BY <1>1, <1>2, <1>3, <1>4, <1>5, <1>6, <1>7 DEF Next

LEMMA InitCounts == Init => Budget /\ Sends
<1> SUFFICES ASSUME Init
             PROVE  Budget /\ Sends
  OBVIOUS
<1>1. Budget
  <2>1. \A p \in Publishers : DOMAIN batch[p] = {}
    BY DEF Init
  <2> QED
    BY <2>1, LimitsAreNat DEF Init, Budget, AttemptsBounded
<1>2. Sends
  BY DEF Init, Sends, DoneMeansSent
<1> QED
  BY <1>1, <1>2

\* Attempts written back from fetched copies stay within the limit, with any
\* number of publishers that overwrite each other's rows.
THEOREM AttemptsStayBounded == Spec => []AttemptsBounded
<1>1. Spec => []Budget
  BY InitCounts, StepBudget, InitTyped, StepTyped, PTL DEF Spec
<1>2. Budget => AttemptsBounded
  BY DEF Budget
<1> QED
  BY <1>1, <1>2, PTL

\* DONE is written for delivered tasks only, with any number of publishers.
THEOREM DoneIsDelivered == Spec => []DoneMeansSent
<1>1. Spec => []Sends
  BY InitCounts, StepSends, InitTyped, StepTyped, PTL DEF Spec
<1>2. Sends => DoneMeansSent
  BY DEF Sends
<1> QED
  BY <1>1, <1>2, PTL

-----------------------------------------------------------------------------
(***************************************************************************)
(* A single publisher.  Its batch names no task twice; before the commit   *)
(* of the marks its tasks wait to be sent, after it they are PROCESSING    *)
(* and unsent, but for the one whose delivery is being recorded.           *)
(***************************************************************************)

OnePublisher == \A p, q \in Publishers : p = q

Mine(p) ==
  /\ \A i, j \in DOMAIN batch[p] : batch[p][i].id = batch[p][j].id => i = j
  /\ pc[p] \in {"mark", "commit"} => \A i \in DOMAIN batch[p] : Processable(batch[p][i].id)
  /\ pc[p] \in {"next", "send", "done", "failed"} => \A i \in DOMAIN batch[p] :
       /\ status[batch[p][i].id] = "PROCESSING"
       /\ i > 1 \/ pc[p] # "done" => sent[batch[p][i].id] = 0

Alone ==
  /\ AtMostOnce
  /\ RetriesUnsent
  /\ \A p \in Publishers : Mine(p)

LEMMA BatchTasks ==
  ASSUME Typed, NEW p \in Publishers, NEW i \in DOMAIN batch[p]
  PROVE  batch[p][i].id \in Tasks /\ i \in Nat \ {0}
<1>1. batch[p] \in Seq(Fetched)
  BY DEF Typed, TypeOK
<1>2. batch[p][i] \in Fetched /\ i \in Nat \ {0}
  BY <1>1
<1> QED
  BY <1>2 DEF Fetched

\* Only one publisher to look at.
LEMMA AloneIf ==
  ASSUME OnePublisher, NEW p \in Publishers, AtMostOnce', RetriesUnsent', Mine(p)'
  PROVE  Alone'
<1>1. ASSUME NEW q \in Publishers
      PROVE  Mine(q)'
  <2>1. q = p
    BY DEF OnePublisher
  <2> QED
    BY <2>1
<1> QED
  BY <1>1 DEF Alone

\* A publisher without a batch.
LEMMA MineEmpty ==
  ASSUME Typed, NEW p \in Publishers, batch' = [batch EXCEPT ![p] = <<>>]
  PROVE  Mine(p)'
<1>1. DOMAIN batch'[p] = {}
  BY DEF Typed, TypeOK
<1> QED
  BY <1>1 DEF Mine

LEMMA AloneEnqueue ==
  ASSUME Typed, Alone, NEW t \in Tasks, Enqueue(t)
  PROVE  Alone'
<1>1. AtMostOnce' /\ RetriesUnsent'
  BY DEF Alone, AtMostOnce, RetriesUnsent, Enqueue, Typed, TypeOK
<1>2. ASSUME NEW p \in Publishers
      PROVE  Mine(p)'
  <2>1. Mine(p) /\ UNCHANGED <<batch, pc, sent, attempts>>
    BY DEF Alone, Enqueue, process
  <2>2. ASSUME NEW u \in Tasks
        PROVE  /\ status[u] # "NONE" => status'[u] = status[u]
               /\ Processable(u) => Processable(u)'
    BY <2>1 DEF Enqueue, Typed, TypeOK, Processable
  <2> QED
    BY <2>1, <2>2, BatchTasks DEF Mine
<1> QED
  BY <1>1, <1>2 DEF Alone

LEMMA AloneFetch ==
  ASSUME OnePublisher, Typed, Alone, NEW p \in Publishers, Fetch(p)
  PROVE  Alone'
<1>1. AtMostOnce' /\ RetriesUnsent'
  BY DEF Alone, AtMostOnce, RetriesUnsent, Fetch, rows
<1>2. PICK n \in 1..BatchSize : \E ids \in [1..n -> Fetchable] :
        /\ Oldest(ids)
        /\ batch' = [batch EXCEPT ![p] =
                       [i \in 1..n |-> [id |-> ids[i], attempts |-> attempts[ids[i]]]]]
  BY DEF Fetch
<1>3. PICK ids \in [1..n -> Fetchable] :
        /\ Oldest(ids)
        /\ batch' = [batch EXCEPT ![p] =
                       [i \in 1..n |-> [id |-> ids[i], attempts |-> attempts[ids[i]]]]]
  BY <1>2
<1>4. /\ DOMAIN batch'[p] = 1..n
      /\ \A i \in 1..n : batch'[p][i].id = ids[i]
  BY <1>3 DEF Typed, TypeOK
<1>5. pc'[p] = "mark" /\ UNCHANGED <<status, attempts>>
  BY DEF Fetch, Goto, Typed, TypeOK, rows
<1>6. ASSUME NEW i \in 1..n
      PROVE  Processable(ids[i])' /\ ids[i] \in Nat
  BY <1>5, TasksFinite DEF Fetchable, Processable
<1>7. ASSUME NEW i \in 1..n, NEW j \in 1..n, ids[i] = ids[j]
      PROVE  i = j
  <2>1. ~(i < j) /\ ~(j < i)
    BY <1>3, <1>6, <1>7 DEF Oldest
  <2> QED
    BY <2>1
<1>8. Mine(p)'
  BY <1>4, <1>5, <1>6, <1>7 DEF Mine
<1> QED
  BY <1>1, <1>8, AloneIf

\* The rows and the batch stay, the label changes within what Mine tells apart.
LEMMA AloneGoto ==
  ASSUME OnePublisher, Typed, Alone, NEW p \in Publishers,
         UNCHANGED <<status, attempts, sent, batch>>,
         \/ pc'[p] = pc[p]
         \/ {pc[p], pc'[p]} \subseteq {"mark", "commit"}
         \/ {pc[p], pc'[p]} \subseteq {"next", "send", "failed"}
         \/ pc'[p] \in {"idle", "stopping", "stopped"}
  PROVE  Alone'
<1>1. AtMostOnce' /\ RetriesUnsent'
  BY DEF Alone, AtMostOnce, RetriesUnsent
<1>2. Mine(p)
  BY DEF Alone
<1>3. ASSUME NEW u \in Tasks
      PROVE  Processable(u) => Processable(u)'
  BY DEF Processable
<1>4. Mine(p)'
  BY <1>2, <1>3, BatchTasks DEF Mine
<1> QED
  BY <1>1, <1>4, AloneIf

\* The marks are committed, with the batch kept or given up.
LEMMA AloneMarks ==
  ASSUME OnePublisher, Typed, Alone, NEW p \in Publishers, pc[p] = "commit",
         ApplyMarks(p), UNCHANGED sent,
         \/ UNCHANGED batch /\ pc'[p] = "next"
         \/ batch' = [batch EXCEPT ![p] = <<>>]
  PROVE  Alone'
<1>1. ASSUME NEW i \in DOMAIN batch[p]
      PROVE  /\ batch[p][i].id \in Tasks
             /\ status'[batch[p][i].id] = "PROCESSING"
             /\ sent[batch[p][i].id] = 0
  <2>1. batch[p][i].id \in Tasks /\ Processable(batch[p][i].id)
    BY BatchTasks DEF Alone, Mine
  <2>2. status'[batch[p][i].id] = "PROCESSING"
    BY <2>1, MarkedAttempts
  <2>3. sent[batch[p][i].id] = 0
    BY <2>1 DEF Alone, RetriesUnsent, Processable
  <2> QED
    BY <2>1, <2>2, <2>3
<1>2. AtMostOnce'
  BY DEF Alone, AtMostOnce
<1>3. RetriesUnsent'
  BY MarkedAttempts DEF Alone, RetriesUnsent
<1>4. Mine(p)'
  <2>1. CASE UNCHANGED batch /\ pc'[p] = "next"
    BY <1>1, <2>1 DEF Alone, Mine
  <2>2. CASE batch' = [batch EXCEPT ![p] = <<>>]
    BY <2>2, MineEmpty
  <2> QED
    BY <2>1, <2>2
<1> QED
  BY <1>2, <1>3, <1>4, AloneIf

LEMMA AloneSend ==
  ASSUME OnePublisher, Typed, Alone, NEW p \in Publishers, SendMessage(p)
  PROVE  Alone'
<1>1. /\ Current(p) \in Tasks
      /\ 1 \in DOMAIN batch[p]
      /\ batch[p][1].id = Current(p)
  BY CurrentType DEF SendMessage, Current
<1>2. status[Current(p)] = "PROCESSING" /\ sent[Current(p)] = 0
  BY <1>1 DEF Alone, Mine, SendMessage
<1>3. /\ UNCHANGED <<status, batch>> /\ pc'[p] = "done"
      /\ \A t \in Tasks : sent'[t] = IF t = Current(p) THEN 1 ELSE sent[t]
  BY <1>1, <1>2 DEF SendMessage, rows, Goto, Typed, TypeOK
<1>4. AtMostOnce'
  BY <1>3 DEF Alone, AtMostOnce
<1>5. RetriesUnsent'
  BY <1>1, <1>2, <1>3 DEF Alone, RetriesUnsent
<1>6. ASSUME NEW i \in DOMAIN batch[p], i > 1
      PROVE  sent'[batch[p][i].id] = 0
  <2>1. batch[p][i].id # Current(p)
    BY <1>1, <1>6, BatchTasks DEF Alone, Mine
  <2>2. sent[batch[p][i].id] = 0
    BY <1>6 DEF Alone, Mine, SendMessage
  <2> QED
    BY <1>3, <2>1, <2>2, BatchTasks
<1>7. Mine(p)'
  BY <1>3, <1>6 DEF Alone, Mine, SendMessage
<1> QED
  BY <1>4, <1>5, <1>7, AloneIf

\* The loop goes on; the row of the task it leaves may have been written.
LEMMA AloneNextTask ==
  ASSUME OnePublisher, Typed, Alone, NEW p \in Publishers,
         pc[p] \in {"done", "failed"}, NextTask(p), UNCHANGED sent,
         \A t \in Tasks : t # Current(p) => status'[t] = status[t],
         RetriesUnsent'
  PROVE  Alone'
<1>1. AtMostOnce'
  BY DEF Alone, AtMostOnce
<1>2. /\ batch[p] # <<>> /\ marked[p] = 0 /\ batch[p] \in Seq(Fetched)
      /\ 1 \in DOMAIN batch[p] /\ batch[p][1].id = Current(p)
  BY CurrentType, NoMarks DEF Current
<1>3. PICK l \in {"idle", "next"}, b \in Seq(Fetched) :
        /\ pc' = [pc EXCEPT ![p] = l]
        /\ batch' = [batch EXCEPT ![p] = b]
        /\ b = <<>> \/ b = Tail(batch[p])
  BY <1>2, NextTaskFrame
<1>4. CASE b = <<>>
  BY <1>1, <1>3, <1>4, MineEmpty, AloneIf
<1>5. CASE b # <<>>
  <2>1. b = Tail(batch[p])
    BY <1>3, <1>5
  <2>2. /\ Len(Tail(batch[p])) = Len(batch[p]) - 1
        /\ \A k \in 1..Len(Tail(batch[p])) : Tail(batch[p])[k] = batch[p][k + 1]
    BY <1>2, TailOfBatch, Zenon
  <2>3. Len(b) = Len(batch[p]) - 1 /\ \A k \in 1..Len(b) : b[k] = batch[p][k + 1]
    BY <2>1, <2>2, Zenon
  <2>4. batch'[p] = b /\ pc'[p] \in {"idle", "next"}
    BY <1>3 DEF Typed, TypeOK
  <2>5. ASSUME NEW k \in DOMAIN b
        PROVE  /\ k \in 1..Len(b) /\ k + 1 \in DOMAIN batch[p] /\ k + 1 > 1
               /\ b[k] = batch[p][k + 1]
    <3>1. k \in 1..Len(b) /\ Len(b) \in Nat /\ Len(batch[p]) \in Nat
      BY <1>2
    <3>2. k + 1 \in 1..Len(batch[p]) /\ k + 1 > 1
      BY <2>3, <3>1
    <3> QED
      BY <1>2, <2>3, <3>1, <3>2
  <2>6. ASSUME NEW k \in DOMAIN b
        PROVE  status'[b[k].id] = "PROCESSING" /\ sent'[b[k].id] = 0
    <3>1. b[k].id = batch[p][k + 1].id /\ k + 1 \in DOMAIN batch[p] /\ k + 1 > 1
      BY <2>5
    <3>2. status[b[k].id] = "PROCESSING" /\ sent[b[k].id] = 0
      BY <3>1 DEF Alone, Mine
    <3>3. b[k].id # Current(p) /\ b[k].id \in Tasks
      BY <1>2, <3>1, BatchTasks DEF Alone, Mine
    <3> QED
      BY <3>2, <3>3
  <2>7. ASSUME NEW i \in DOMAIN b, NEW j \in DOMAIN b, b[i].id = b[j].id
        PROVE  i = j
    <3>1. /\ i + 1 \in DOMAIN batch[p] /\ j + 1 \in DOMAIN batch[p]
          /\ batch[p][i + 1].id = batch[p][j + 1].id
          /\ i \in Nat /\ j \in Nat
      BY <2>5, <2>7
    <3>2. i + 1 = j + 1
      BY <3>1 DEF Alone, Mine
    <3> QED
      BY <3>1, <3>2
  <2>8. Mine(p)'
    BY <2>4, <2>6, <2>7 DEF Mine
  <2> QED
    BY <1>1, <2>8, AloneIf
<1> QED
  BY <1>4, <1>5

LEMMA StepAlone == OnePublisher /\ Typed /\ Alone /\ [Next]_vars => Alone'
<1> SUFFICES ASSUME OnePublisher, Typed, Alone, [Next]_vars
             PROVE  Alone'
  OBVIOUS
<1>1. CASE UNCHANGED vars
  BY <1>1 DEF vars, Alone, AtMostOnce, RetriesUnsent, Mine, Processable
<1>2. ASSUME NEW t \in Tasks, Enqueue(t)
      PROVE  Alone'
  BY <1>2, AloneEnqueue
<1>3. ASSUME NEW p \in Publishers, Work(p)
      PROVE  Alone'
  <2>1. CASE Fetch(p)
    BY <2>1, AloneFetch
  <2>2. CASE Mark(p)
    <3>1. UNCHANGED <<status, attempts, sent, batch>> /\ pc[p] = "mark"
      BY <2>2 DEF Mark
    <3>2. pc'[p] \in {"mark", "commit"}
      BY <2>2 DEF Mark, Goto, Typed, TypeOK
    <3> QED
      BY <3>1, <3>2, AloneGoto
  <2>3. CASE CommitMarks(p)
    <3>1. pc'[p] = "next"
      BY <2>3 DEF CommitMarks, Goto, Typed, TypeOK
    <3> QED
      BY <2>3, <3>1, AloneMarks DEF CommitMarks
  <2>4. CASE LookAtContext(p)
    <3>1. CASE cancelled[p]
      <4>1. batch' = [batch EXCEPT ![p] = <<>>] /\ UNCHANGED <<status, attempts, sent>>
        BY <2>4, <3>1 DEF LookAtContext, EndBatch, rows
      <4>2. Mine(p)'
        BY <4>1, MineEmpty
      <4>3. AtMostOnce' /\ RetriesUnsent'
        BY <4>1 DEF Alone, AtMostOnce, RetriesUnsent
      <4> QED
        BY <4>2, <4>3, AloneIf
    <3>2. CASE ~cancelled[p]
      <4>1. /\ UNCHANGED <<status, attempts, sent, batch>>
            /\ pc[p] = "next" /\ pc'[p] = "send"
        BY <2>4, <3>2 DEF LookAtContext, rows, Goto, Typed, TypeOK
      <4> QED
        BY <4>1, AloneGoto
    <3> QED
      BY <3>1, <3>2
  <2>5. CASE SendMessage(p)
    BY <2>5, AloneSend
  <2>6. CASE SendFails(p)
    <3>1. /\ UNCHANGED <<status, attempts, sent, batch>>
          /\ pc[p] = "send" /\ pc'[p] = "failed"
      BY <2>6 DEF SendFails, AfterFailedSend, rows, Goto, Typed, TypeOK
    <3> QED
      BY <3>1, AloneGoto
  <2>7. CASE RecordDone(p)
    <3>1. Current(p) \in Tasks
      BY <2>7, CurrentType DEF RecordDone
    <3>2. \A t \in Tasks : status'[t] = IF t = Current(p) THEN "DONE" ELSE status[t]
      BY <2>7, <3>1 DEF RecordDone, Typed, TypeOK
    <3>3. RetriesUnsent'
      BY <2>7, <3>2 DEF RecordDone, Alone, RetriesUnsent
    <3> QED
      BY <2>7, <3>2, <3>3, AloneNextTask DEF RecordDone
  <2>8. CASE RecordFailed(p)
    <3>1. Current(p) \in Tasks /\ 1 \in DOMAIN batch[p] /\ batch[p][1].id = Current(p)
      BY <2>8, CurrentType DEF RecordFailed, Current
    <3>2. \A t \in Tasks : status'[t] = IF t = Current(p) THEN "FAILED" ELSE status[t]
      BY <2>8, <3>1 DEF RecordFailed, Typed, TypeOK
    <3>3. sent[Current(p)] = 0
      BY <2>8, <3>1 DEF RecordFailed, Alone, Mine
    <3>4. RetriesUnsent'
      BY <2>8, <3>2, <3>3 DEF RecordFailed, Alone, RetriesUnsent
    <3> QED
      BY <2>8, <3>2, <3>4, AloneNextTask DEF RecordFailed
  <2> QED
    BY <1>3, <2>1, <2>2, <2>3, <2>4, <2>5, <2>6, <2>7, <2>8 DEF Work
<1>4. ASSUME NEW p \in Publishers, Poll(p)
      PROVE  Alone'
  BY <1>1, <1>4 DEF Poll
<1>5. ASSUME NEW p \in Publishers, MarkFails(p)
      PROVE  Alone'
  <2>1. batch' = [batch EXCEPT ![p] = <<>>] /\ UNCHANGED sent
    BY <1>5 DEF MarkFails, EndBatch
  <2>2. CASE UNCHANGED <<status, attempts>>
    <3>1. Mine(p)'
      BY <2>1, MineEmpty
    <3>2. AtMostOnce' /\ RetriesUnsent'
      BY <2>1, <2>2 DEF Alone, AtMostOnce, RetriesUnsent
    <3> QED
      BY <3>1, <3>2, AloneIf
  <2>3. CASE pc[p] = "commit" /\ ApplyMarks(p)
    BY <2>1, <2>3, AloneMarks
  <2> QED
    BY <1>5, <2>2, <2>3 DEF MarkFails
<1>6. ASSUME NEW p \in Publishers, RecordFails(p)
      PROVE  Alone'
  <2>1. UNCHANGED <<status, sent>> /\ RetriesUnsent'
    BY <1>6 DEF RecordFails, rows, Alone, RetriesUnsent
  <2> QED
    BY <1>6, <2>1, AloneNextTask DEF RecordFails
<1>7. ASSUME NEW p \in Publishers, Stop(p)
      PROVE  Alone'
  <2>1. CASE Crash(p)
    <3>1. batch' = [batch EXCEPT ![p] = <<>>] /\ UNCHANGED <<status, attempts, sent>>
      BY <2>1 DEF Crash
    <3>2. Mine(p)' /\ AtMostOnce' /\ RetriesUnsent'
      BY <3>1, MineEmpty DEF Alone, AtMostOnce, RetriesUnsent
    <3> QED
      BY <3>2, AloneIf
  <2>2. CASE Cancel(p)
    BY <2>2, AloneGoto DEF Cancel, rows
  <2>3. CASE BeginShutdown(p) \/ EndShutdown(p) \/ Restart(p)
    <3>1. /\ UNCHANGED <<status, attempts, sent, batch>>
          /\ pc'[p] \in {"idle", "stopping", "stopped"}
      BY <2>3 DEF BeginShutdown, EndShutdown, Restart, rows, Goto, Typed, TypeOK
    <3> QED
      BY <3>1, AloneGoto
  <2> QED
    BY <1>7, <2>1, <2>2, <2>3 DEF Stop
<1> QED
  BY <1>1, <1>2, <1>3, <1>4, <1>5, <1>6, <1>7 DEF Next

LEMMA InitAlone == Init => Alone
<1> SUFFICES ASSUME Init
             PROVE  Alone
  OBVIOUS
<1>1. ASSUME NEW p \in Publishers
      PROVE  Mine(p)
  <2>1. DOMAIN batch[p] = {}
    BY DEF Init
  <2> QED
    BY <2>1 DEF Mine
<1> QED
  BY <1>1 DEF Init, Alone, AtMostOnce, RetriesUnsent

LEMMA AloneHolds ==
  ASSUME OnePublisher
  PROVE  Spec => []Alone
<1>1. Typed /\ Alone /\ [Next]_vars => Alone'
  BY StepAlone
<1> QED
  BY <1>1, InitAlone, InitTyped, StepTyped, PTL DEF Spec

\* One publisher sends a task at most once, through crashes, restarts, failed
\* sends and updates, and commits whose answer is lost.
THEOREM SentAtMostOnce ==
  ASSUME OnePublisher
  PROVE  Spec => []AtMostOnce
<1>1. Alone => AtMostOnce
  BY DEF Alone
<1> QED
  BY <1>1, AloneHolds, PTL

\* What one publisher will send again it has not sent before.
THEOREM RetriesAreUnsent ==
  ASSUME OnePublisher
  PROVE  Spec => []RetriesUnsent
<1>1. Alone => RetriesUnsent
  BY DEF Alone
<1> QED
  BY <1>1, AloneHolds, PTL
=============================================================================
