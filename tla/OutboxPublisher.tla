---------------------------- MODULE OutboxPublisher ----------------------------
(***************************************************************************)
(* The way of an audit task from table outbox_tasks to the broker: the     *)
(* batches of internal/kafka/publisher.go over the queries of              *)
(* internal/repository/postgresql/outbox_task.go, and the life of a        *)
(* publisher between start, cancellation, shutdown and crash.              *)
(*                                                                         *)
(* A step is one query, commit, send or wait.  Tasks are numbered by their *)
(* updated_at, which INSERT sets and no statement changes.                 *)
(***************************************************************************)
EXTENDS Naturals, Sequences, FiniteSets

CONSTANTS
  Tasks,       \* tasks, in the order of their updated_at
  Publishers,  \* one per running process
  BatchSize,   \* PublisherConfig.BatchSize
  RetryLimit,  \* maxAttempts of GetProcessableTasks
  Faults,      \* which of FaultKinds may happen
  None         \* no lock holder

FaultKinds == {"send", "db", "stop", "crash"}

ASSUME TasksFinite == Tasks \subseteq Nat /\ IsFiniteSet(Tasks)
ASSUME LimitsAreNat == BatchSize \in Nat \ {0} /\ RetryLimit \in Nat \ {0}
ASSUME FaultsKnown == Faults \subseteq FaultKinds
ASSUME NoneIsNoPublisher == None \notin Publishers

Statuses == {"NONE", "CREATED", "PROCESSING", "FAILED", "DONE"}
Fetched == [id : Tasks, attempts : Nat]
PCs == {"idle", "mark", "commit", "next", "send", "done", "failed", "stopping", "stopped"}

VARIABLES
  status,    \* column status; "NONE" before the task is inserted
  attempts,  \* column attempts
  locked,    \* the publisher whose transaction has updated the row
  sent,      \* how often the broker got the task
  behind,    \* tasks that waited when the task failed last
  pc,        \* what a publisher does next
  batch,     \* tasks fetched and not yet dealt with
  marked,    \* of those, how many its transaction has updated
  cancelled, \* its context is done (SIGTERM)
  wg,        \* Publisher.wg, what Shutdown waits to see at zero
  timedOut   \* its Shutdown gave up waiting

rows == <<status, attempts, locked>>
process == <<pc, batch, marked, cancelled, wg, timedOut>>
life == <<cancelled, wg, timedOut>>
vars == <<status, attempts, locked, sent, behind,
          pc, batch, marked, cancelled, wg, timedOut>>

\* The variables keep their types, and processBatch leaves no batch and no
\* count of updated rows behind when it returns.
TypeOK ==
  /\ status \in [Tasks -> Statuses]
  /\ attempts \in [Tasks -> Nat]
  /\ locked \in [Tasks -> Publishers \union {None}]
  /\ sent \in [Tasks -> Nat]
  /\ behind \in [Tasks -> SUBSET Tasks]
  /\ pc \in [Publishers -> PCs]
  /\ batch \in [Publishers -> Seq(Fetched)]
  /\ marked \in [Publishers -> Nat]
  /\ cancelled \in [Publishers -> BOOLEAN]
  /\ wg \in [Publishers -> 0..1]
  /\ timedOut \in [Publishers -> BOOLEAN]
  /\ \A p \in Publishers :
       /\ marked[p] <= Len(batch[p])
       /\ marked[p] > 0 => pc[p] \in {"mark", "commit"}
       /\ pc[p] \in {"idle", "stopping", "stopped"} <=> batch[p] = <<>>

Init ==
  /\ status = [t \in Tasks |-> "NONE"]
  /\ attempts = [t \in Tasks |-> 0]
  /\ locked = [t \in Tasks |-> None]
  /\ sent = [t \in Tasks |-> 0]
  /\ behind = [t \in Tasks |-> {}]
  /\ pc = [p \in Publishers |-> "idle"]
  /\ batch = [p \in Publishers |-> <<>>]
  /\ marked = [p \in Publishers |-> 0]
  /\ cancelled = [p \in Publishers |-> FALSE]
  /\ wg = [p \in Publishers |-> 1]
  /\ timedOut = [p \in Publishers |-> FALSE]

-----------------------------------------------------------------------------
Goto(p, label) == pc' = [pc EXCEPT ![p] = label]
Current(p) == batch[p][1].id
MayTouch(p, t) == locked[t] \in {None, p}
Unlock(p) == locked' = [t \in Tasks |-> IF locked[t] = p THEN None ELSE locked[t]]

\* Variants that the runs are tested with stand before what they vary.
KeepsMarkCount(p) ==
  /\ Goto(p, "idle")
  /\ batch' = [batch EXCEPT ![p] = <<>>]
  /\ UNCHANGED marked

\* processBatch returns; tasks it has not dealt with stay as they are.
EndBatch(p) ==
  /\ Goto(p, "idle")
  /\ batch' = [batch EXCEPT ![p] = <<>>]
  /\ marked' = [marked EXCEPT ![p] = 0]

\* The loop of processBatch goes to its next task.
NextTask(p) ==
  IF Len(batch[p]) = 1
  THEN EndBatch(p)
  ELSE /\ batch' = [batch EXCEPT ![p] = Tail(@)]
       /\ Goto(p, "next")
       /\ UNCHANGED marked

\* A committed transaction of the storage has added a task.  Transactions need
\* not commit in the order in which their tasks were stamped.
Enqueue(t) ==
  /\ status[t] = "NONE"
  /\ status' = [status EXCEPT ![t] = "CREATED"]
  /\ UNCHANGED <<attempts, locked, sent, behind, process>>

RetriesForever(t) == status[t] \in {"CREATED", "FAILED"}
AlsoProcessing(t) == status[t] \in {"CREATED", "PROCESSING"}

Processable(t) ==
  \/ status[t] = "CREATED"
  \/ status[t] = "FAILED" /\ attempts[t] < RetryLimit

\* GetProcessableTasks: the query runs on the pool, not in the transaction, so
\* FOR UPDATE SKIP LOCKED skips rows others have locked and locks none itself.
Fetchable == {t \in Tasks : Processable(t) /\ locked[t] = None}

\* ids are the BatchSize oldest of them, or all, in the order of ORDER BY.
Oldest(ids) ==
  /\ \A i, j \in DOMAIN ids : i < j => ids[i] < ids[j]
  /\ \A t \in Fetchable :
       \/ \E i \in DOMAIN ids : ids[i] = t
       \/ Len(ids) = BatchSize /\ \A i \in DOMAIN ids : ids[i] < t

Fetch(p) ==
  /\ pc[p] = "idle"
  /\ ~cancelled[p]
  /\ \E n \in 1..BatchSize : \E ids \in [1..n -> Fetchable] :
       /\ Oldest(ids)
       /\ batch' = [batch EXCEPT ![p] =
                      [i \in 1..n |-> [id |-> ids[i], attempts |-> attempts[ids[i]]]]]
  /\ Goto(p, "mark")
  /\ UNCHANGED <<rows, sent, behind, marked, life>>

\* UpdateTaskStatusTx for one task; its row is locked until the commit.
Mark(p) ==
  LET t == batch[p][marked[p] + 1].id
  IN /\ pc[p] = "mark"
     /\ ~cancelled[p]
     /\ MayTouch(p, t)
     /\ locked' = [locked EXCEPT ![t] = p]
     /\ marked' = [marked EXCEPT ![p] = @ + 1]
     /\ IF marked[p] + 1 = Len(batch[p]) THEN Goto(p, "commit") ELSE UNCHANGED pc
     /\ UNCHANGED <<status, attempts, sent, behind, batch, life>>

\* The tasks become PROCESSING with the attempts that were fetched, whatever
\* their rows hold by now.
ApplyMarks(p) ==
  LET own(t) == {i \in DOMAIN batch[p] : batch[p][i].id = t}
  IN /\ status' = [t \in Tasks |-> IF own(t) # {} THEN "PROCESSING" ELSE status[t]]
     /\ attempts' = [t \in Tasks |->
          IF own(t) # {} THEN batch[p][CHOOSE i \in own(t) : TRUE].attempts ELSE attempts[t]]

CommitMarks(p) ==
  /\ pc[p] = "commit"
  /\ ~cancelled[p]
  /\ ApplyMarks(p)
  /\ Unlock(p)
  /\ Goto(p, "next")
  /\ marked' = [marked EXCEPT ![p] = 0]
  /\ UNCHANGED <<sent, behind, batch, life>>

\* An update or the commit fails, or the context is done: the batch is given
\* up and rolled back.  A commit that returns an error may have happened.
MarkFails(p) ==
  /\ pc[p] \in {"mark", "commit"}
  /\ "db" \in Faults \/ cancelled[p]
  /\ \/ UNCHANGED <<status, attempts>>
     \/ pc[p] = "commit" /\ ApplyMarks(p)
  /\ Unlock(p)
  /\ EndBatch(p)
  /\ UNCHANGED <<sent, behind, life>>

(***************************************************************************)
(* The loop of processBatch and processSingleTask: the context is looked   *)
(* at before each task, and ends a send and an update that are under way.  *)
(* The updates run on the pool, each its own transaction.                  *)
(***************************************************************************)
LookAtContext(p) ==
  /\ pc[p] = "next"
  /\ IF cancelled[p] THEN EndBatch(p) ELSE Goto(p, "send") /\ UNCHANGED <<batch, marked>>
  /\ UNCHANGED <<rows, sent, behind, life>>

SendMessage(p) ==
  /\ pc[p] = "send"
  /\ sent' = [sent EXCEPT ![Current(p)] = @ + 1]
  /\ Goto(p, "done")
  /\ UNCHANGED <<rows, behind, batch, marked, life>>

IgnoresSendError(p) == "done"

AfterFailedSend(p) == "failed"

SendFails(p) ==
  /\ pc[p] = "send"
  /\ "send" \in Faults \/ cancelled[p]
  /\ Goto(p, AfterFailedSend(p))
  /\ UNCHANGED <<rows, sent, behind, batch, marked, life>>

Waiting == {t \in Tasks : status[t] = "CREATED"}

ForgetsToCount(p) == batch[p][1].attempts

NewAttempts(p) == batch[p][1].attempts + 1

\* UpdateTaskStatus; attempts are those that were fetched.
RecordDone(p) ==
  /\ pc[p] = "done"
  /\ ~cancelled[p]
  /\ MayTouch(p, Current(p))
  /\ status' = [status EXCEPT ![Current(p)] = "DONE"]
  /\ attempts' = [attempts EXCEPT ![Current(p)] = batch[p][1].attempts]
  /\ NextTask(p)
  /\ UNCHANGED <<locked, sent, behind, life>>

RecordFailed(p) ==
  /\ pc[p] = "failed"
  /\ ~cancelled[p]
  /\ MayTouch(p, Current(p))
  /\ status' = [status EXCEPT ![Current(p)] = "FAILED"]
  /\ attempts' = [attempts EXCEPT ![Current(p)] = NewAttempts(p)]
  /\ behind' = [behind EXCEPT ![Current(p)] = Waiting]
  /\ NextTask(p)
  /\ UNCHANGED <<locked, sent, life>>

GivesTaskBack(p) ==
  /\ pc[p] \in {"done", "failed"}
  /\ "db" \in Faults \/ cancelled[p]
  /\ status' = [status EXCEPT ![Current(p)] = "CREATED"]
  /\ NextTask(p)
  /\ UNCHANGED <<attempts, locked, sent, behind, life>>

\* The error of the update is logged; the task stays as its row has it.
RecordFails(p) ==
  /\ pc[p] \in {"done", "failed"}
  /\ "db" \in Faults \/ cancelled[p]
  /\ NextTask(p)
  /\ UNCHANGED <<rows, sent, behind, life>>

(***************************************************************************)
(* The life of a publisher.  Run calls Shutdown when its context is done,  *)
(* and only then takes itself off the wait group that Shutdown waits for.  *)
(***************************************************************************)
Cancel(p) ==
  /\ "stop" \in Faults
  /\ pc[p] \notin {"stopping", "stopped"}
  /\ ~cancelled[p]
  /\ cancelled' = [cancelled EXCEPT ![p] = TRUE]
  /\ UNCHANGED <<rows, sent, behind, pc, batch, marked, wg, timedOut>>

BeginShutdown(p) ==
  /\ pc[p] = "idle"
  /\ cancelled[p]
  /\ Goto(p, "stopping")
  /\ UNCHANGED <<rows, sent, behind, batch, marked, life>>

\* Shutdown goes on when the wait group is at zero or the wait has timed out.
EndShutdown(p) ==
  /\ pc[p] = "stopping"
  /\ timedOut' = [timedOut EXCEPT ![p] = wg[p] # 0]
  /\ wg' = [wg EXCEPT ![p] = 0]
  /\ Goto(p, "stopped")
  /\ UNCHANGED <<rows, sent, behind, batch, marked, cancelled>>

\* The process dies; the server rolls its transaction back.
Crash(p) ==
  /\ "crash" \in Faults
  /\ pc[p] # "stopped"
  /\ Unlock(p)
  /\ Goto(p, "stopped")
  /\ batch' = [batch EXCEPT ![p] = <<>>]
  /\ marked' = [marked EXCEPT ![p] = 0]
  /\ UNCHANGED <<status, attempts, sent, behind, life>>

\* main starts the process again: nothing of the old one is left in memory,
\* and no task is put back to CREATED.
Restart(p) ==
  /\ pc[p] = "stopped"
  /\ Goto(p, "idle")
  /\ cancelled' = [cancelled EXCEPT ![p] = FALSE]
  /\ wg' = [wg EXCEPT ![p] = 1]
  /\ timedOut' = [timedOut EXCEPT ![p] = FALSE]
  /\ UNCHANGED <<rows, sent, behind, batch, marked>>

\* A tick of the poll timer that finds nothing.
Poll(p) ==
  /\ pc[p] = "idle"
  /\ ~cancelled[p]
  /\ Fetchable = {}
  /\ UNCHANGED vars

Work(p) ==
  \/ Fetch(p) \/ Mark(p) \/ CommitMarks(p) \/ LookAtContext(p)
  \/ SendMessage(p) \/ SendFails(p) \/ RecordDone(p) \/ RecordFailed(p)

Stop(p) == Cancel(p) \/ BeginShutdown(p) \/ EndShutdown(p) \/ Crash(p) \/ Restart(p)

Next ==
  \/ \E t \in Tasks : Enqueue(t)
  \/ \E p \in Publishers : Work(p) \/ Poll(p) \/ MarkFails(p) \/ RecordFails(p) \/ Stop(p)

Spec == Init /\ [][Next]_vars

\* The poll timer keeps ticking and every call returns; tasks need not come.
FairSpec == Spec /\ \A p \in Publishers : WF_vars(Work(p))

-----------------------------------------------------------------------------
(***************************************************************************)
(* Properties.                                                             *)
(***************************************************************************)

\* With a single publisher, the broker never gets a task twice, though the
\* process may die between a send and the update that records it.
AtMostOnce == \A t \in Tasks : sent[t] <= 1

\* A task that was never inserted, waits or has failed was not delivered: what
\* will be sent again has not been sent before.
RetriesUnsent ==
  \A t \in Tasks : status[t] \in {"NONE", "CREATED", "FAILED"} => sent[t] = 0

\* DONE is written for delivered tasks only, however many publishers overwrite
\* the row.
DoneMeansSent == \A t \in Tasks : status[t] = "DONE" => sent[t] > 0

\* Attempts written back from a fetched copy never pass the limit, and a FAILED
\* task has at least the one that failed.
AttemptsBounded ==
  \A t \in Tasks :
    /\ attempts[t] <= RetryLimit
    /\ status[t] = "FAILED" => attempts[t] > 0

\* While sends fail but the database answers, a task that waits is delivered or
\* has used up its attempts, unless a publisher dies: a full batch of failing tasks,
\* which keeps its place at the head of the queue, does not starve those behind it,
\* and two publishers that overwrite each other's attempts do not retry forever.
TasksSettle ==
  \A t \in Tasks :
    status[t] = "CREATED" ~>
      \/ status[t] = "DONE"
      \/ status[t] = "FAILED" /\ attempts[t] = RetryLimit
      \/ \E p \in Publishers : pc[p] = "stopped"

\* p has fetched t and may still send it, or say that it could not.
Carries(p, t) ==
  /\ pc[p] \in {"next", "send", "done", "failed"}
  /\ \E i \in DOMAIN batch[p] : batch[p][i].id = t

Fate(t) ==
  IF status[t] = "NONE" THEN "none"
  ELSE IF sent[t] > 1 THEN "repeated"
  ELSE IF sent[t] = 1 THEN "delivered"
  ELSE IF Processable(t) \/ \E p \in Publishers : Carries(p, t) THEN "pending"
  ELSE "lost"

Abstract == INSTANCE Delivery WITH fate <- [t \in Tasks |-> Fate(t)]

\* A single publisher implements the delivery: what it has delivered it never
\* delivers again, and what a stop, a crash or a failed update leaves
\* in PROCESSING is lost for good, never delivered late.
ImplementsDelivery == Abstract!Spec

\* A stamp updated_at that moved with every update, as the comment in
\* updateTaskStatusInternal has it, would send a failed task behind those that
\* were waiting: it is not fetched again while one of them is left behind.
RetriesTakeTurns ==
  [][\A p \in Publishers, t, u \in Tasks :
       LET taken == {batch'[p][i].id : i \in DOMAIN batch'[p]}
       IN pc[p] = "idle" /\ pc'[p] = "mark" /\ t \in taken /\ status[t] = "FAILED"
            /\ u \in behind[t] /\ status[u] = "CREATED"
            => u \in taken]_vars

\* Shutdown sees the publisher stop, as its message "shutdown complete" says.
ShutdownCompletes == \A p \in Publishers : ~timedOut[p]
=============================================================================
