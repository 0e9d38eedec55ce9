------------------------------ MODULE OrderStore ------------------------------
(***************************************************************************)
(* The storage of a pick-up point: requests of concurrent clients run as   *)
(* transactions of internal/storage/filestorage.go over the tables of      *)
(* internal/repository/postgresql, and share the write-through cache of    *)
(* internal/cache/order_cache.go.                                          *)
(*                                                                         *)
(* A step of a client is one call that can block or fail: a statement, a   *)
(* commit, a cache operation.  Code between two such calls reads and       *)
(* writes variables of the request only, and belongs to the step before    *)
(* it.  Postgres is modelled from the statements sent to it: READ          *)
(* COMMITTED, a row lock per order held to the end of the transaction, a   *)
(* victim chosen among the transactions of a lock cycle.                   *)
(***************************************************************************)
EXTENDS Naturals, Sequences, FiniteSets, SequencesExt

CONSTANTS
  Orders,         \* order ids
  Users,          \* recipient ids
  Clients,        \* goroutines serving requests, one request at a time
  OtherStatuses,  \* what PUT may write besides the statuses the code names, even ""
  ReturnWindow,   \* the 48 hours of a return, in ticks of the clock
  Requests,       \* the requests clients may send
  Faults,         \* which of the failures in FaultKinds may happen
  MaxTime,        \* bound of the clock
  MaxRequests,    \* bound of the number of requests
  None            \* no row, no lock holder, no request

FaultKinds == {"statement", "commit", "ack", "restart"}
Ops == {"create", "get", "update", "delete", "return", "issue", "accept"}
BulkOps == {"issue", "accept"}
Statuses == {"received", "issued", "returned"} \union OtherStatuses
ActiveStatuses == {"received", "issued"}

RequestType(r) ==
  /\ r.op \in Ops
  /\ r.ids \in Seq(Orders)
  /\ r.ids # <<>>
  /\ r.op \notin BulkOps => Len(r.ids) = 1
  /\ r.user \in Users
  /\ r.until \in Nat
  /\ r.status \in Statuses

ASSUME OrdersFinite == IsFiniteSet(Orders)
ASSUME ClientsFinite == IsFiniteSet(Clients)
ASSUME BoundsAreNat == ReturnWindow \in Nat /\ MaxTime \in Nat /\ MaxRequests \in Nat
ASSUME RequestsTyped == \A r \in Requests : RequestType(r)
ASSUME FaultsKnown == Faults \subseteq FaultKinds

(***************************************************************************)
(* A row of table orders, an entry of order_history, of returns and of     *)
(* outbox_tasks (its audit payload).                                       *)
(***************************************************************************)
Row == [recipient : Users, until : Nat, status : Statuses, updated : Nat]
HistoryEntry == [status : Statuses, at : Nat]
ReturnEntry == [user : Users, at : Nat]
Actions == {"ORDER_CREATED", "STATUS_UPDATED", "ORDER_DELETED",
            "ORDER_RETURNED", "ORDER_ISSUED", "ORDER_RETURN_ACCEPTED"}
ReturnActions == {"ORDER_RETURNED", "ORDER_RETURN_ACCEPTED"}
AuditEntry == [action : Actions, old : Statuses \union {""}, new : Statuses \union {""}]

(***************************************************************************)
(* What an uncommitted transaction has done to one order: the row it wrote *)
(* (None for DELETE), the status it read, the time stamped on the entry it *)
(* adds to history or returns, and whether the statement hit a row at all. *)
(***************************************************************************)
Effect == [action : Actions, old : Statuses \union {""}, row : Row \union {None},
           at : Nat, hit : BOOLEAN]

ASSUME NoneIsApart ==
  /\ None \notin Clients
  /\ None \notin Requests
  /\ None \notin Row
  /\ None \notin Effect

VARIABLES
  now,       \* the clock
  orders,    \* committed rows of orders
  history,   \* committed rows of order_history, per order in insertion order
  returns,   \* committed rows of returns, per order in insertion order
  audit,     \* committed rows of outbox_tasks, per order in insertion order
  lock,      \* the client whose transaction holds the row lock
  cache,     \* OrderCache.cache
  pc,        \* the call a client makes next
  tx,        \* variables of the request a client serves
  writes,    \* uncommitted effects of a client's transaction
  served,    \* requests accepted so far
  answered   \* per order, changes reported as done to a caller, except by PUT

tables == <<orders, history, returns, audit>>
vars == <<now, orders, history, returns, audit, lock, cache,
          pc, tx, writes, served, answered>>

PCs == {"idle", "get", "fill", "set", "lock", "record", "commit", "cache"}

TxType == [req : Requests \union {None}, item : Nat \ {0}, at : Nat,
           seen : Row \union {None}, todo : SUBSET Orders]
NoTx == [req |-> None, item |-> 1, at |-> 0, seen |-> None, todo |-> {}]
NoWrites == [o \in Orders |-> None]

\* What the variables of a request hold at each of its calls.
Shaped(c) ==
  /\ IF pc[c] = "idle" THEN tx[c] = NoTx ELSE tx[c].req \in Requests
  /\ pc[c] \in {"get", "fill", "set", "lock"} => tx[c].item <= Len(tx[c].req.ids)
  /\ pc[c] = "set" => tx[c].seen # None
  /\ pc[c] \in {"record", "commit"} /\ tx[c].req.op = "update" =>
       /\ tx[c].item <= Len(tx[c].req.ids)
       /\ \/ \E o \in Orders : writes[c][o] # None
          \/ pc[c] = "commit" /\ tx[c].seen # None
  /\ pc[c] \in {"idle", "get", "fill", "set"} => \A o \in Orders : writes[c][o] = None
  /\ \A o \in tx[c].todo : writes[c][o] # None
  /\ \A o \in Orders : writes[c][o] # None =>
       /\ writes[c][o].action = "ORDER_CREATED" => writes[c][o].row # None
       /\ pc[c] = "lock" => /\ tx[c].req.op \in BulkOps
                            /\ writes[c][o].row # None
                            /\ writes[c][o].row.status =
                                 IF tx[c].req.op = "issue" THEN "issued" ELSE "returned"

TypesOK ==
  /\ now \in Nat
  /\ orders \in [Orders -> Row \union {None}]
  /\ history \in [Orders -> Seq(HistoryEntry)]
  /\ returns \in [Orders -> Seq(ReturnEntry)]
  /\ audit \in [Orders -> Seq(AuditEntry)]
  /\ lock \in [Orders -> Clients \union {None}]
  /\ cache \in [Orders -> Row \union {None}]
  /\ pc \in [Clients -> PCs]
  /\ tx \in [Clients -> TxType]
  /\ writes \in [Clients -> [Orders -> Effect \union {None}]]
  /\ served \in Nat
  /\ answered \in [Orders -> Nat]

\* The variables keep their types and, as the storage functions do, a request has
\* at each of its calls the rows and writes that the call goes on from.
TypeOK == TypesOK /\ \A c \in Clients : Shaped(c)

Init ==
  /\ now = 0
  /\ orders = [o \in Orders |-> None]
  /\ history = [o \in Orders |-> <<>>]
  /\ returns = [o \in Orders |-> <<>>]
  /\ audit = [o \in Orders |-> <<>>]
  /\ lock = [o \in Orders |-> None]
  /\ cache = [o \in Orders |-> None]
  /\ pc = [c \in Clients |-> "idle"]
  /\ tx = [c \in Clients |-> NoTx]
  /\ writes = [c \in Clients |-> NoWrites]
  /\ served = 0
  /\ answered = [o \in Orders |-> 0]

-----------------------------------------------------------------------------
Req(c) == tx[c].req
Target(c) == Req(c).ids[tx[c].item]

\* The orders c's open transaction has an outbox row for.
Touched(c) == {o \in Orders : writes[c][o] # None}

\* Variants of definitions that the runs are tested with carry a name that says
\* what is wrong with them, and stand before the definition they vary.
IgnoresLocks(c, o) == FALSE

\* The client whose lock keeps c from taking the row lock of o, if any.
Blocked(c, o) == lock[o] \notin {None, c}

KeepsInactive(o, row) ==
  cache' = IF row # None /\ row.status \in ActiveStatuses
           THEN [cache EXCEPT ![o] = row] ELSE cache

\* OrderCache.Set and OrderCache.Delete: inactive and missing rows are dropped.
CachePut(o, row) ==
  cache' = [cache EXCEPT ![o] =
              IF row # None /\ row.status \in ActiveStatuses THEN row ELSE None]

Unlock(c) == lock' = [o \in Orders |-> IF lock[o] = c THEN None ELSE lock[o]]

LeavesRequestBehind(c, oks) ==
  /\ pc' = [pc EXCEPT ![c] = "idle"]
  /\ writes' = [writes EXCEPT ![c] = NoWrites]
  /\ answered' = [o \in Orders |-> IF o \in oks THEN answered[o] + 1 ELSE answered[o]]
  /\ UNCHANGED tx

\* The request ends and the caller is told that the changes to oks are done.
Finish(c, oks) ==
  /\ pc' = [pc EXCEPT ![c] = "idle"]
  /\ tx' = [tx EXCEPT ![c] = NoTx]
  /\ writes' = [writes EXCEPT ![c] = NoWrites]
  /\ answered' = [o \in Orders |-> IF o \in oks THEN answered[o] + 1 ELSE answered[o]]

\* The changes a request that returned no error reports as done.
Confirmed(c) == IF Req(c).op = "update" THEN {} ELSE Touched(c)

ForgetsRollback(c) ==
  /\ Finish(c, {})
  /\ UNCHANGED <<now, tables, lock, cache, served>>

Abort(c) ==
  /\ Unlock(c)
  /\ Finish(c, {})
  /\ UNCHANGED <<now, tables, cache, served>>

(***************************************************************************)
(* Handlers: admission, and for bulk requests and creations the clock      *)
(* reading that they stamp rows with later.                                *)
(***************************************************************************)
Begin(r) ==
  [req |-> r, item |-> 1, at |-> IF r.op \in BulkOps \union {"create"} THEN now ELSE 0,
   seen |-> None, todo |-> {}]

Start(c) ==
  /\ pc[c] = "idle"
  /\ served < MaxRequests
  /\ \E r \in Requests :
       /\ r.op = "create" => now <= r.until
       /\ pc' = [pc EXCEPT ![c] = IF r.op \in {"get", "delete"} THEN "get" ELSE "lock"]
       /\ tx' = [tx EXCEPT ![c] = Begin(r)]
  /\ served' = served + 1
  /\ UNCHANGED <<now, tables, lock, cache, writes, answered>>

(***************************************************************************)
(* Storage.GetOrder: cache, then the table, then the cache again.  The     *)
(* DELETE handlers call it and decide on the order it returns.             *)
(***************************************************************************)
ReturnsAnyStatus(row) == row.until <= now

Returnable(row) == row.status = "received" /\ row.until <= now

UseOrder(c, row) ==
  IF Req(c).op = "delete" /\ Returnable(row)
  THEN /\ pc' = [pc EXCEPT ![c] = "lock"]
       /\ tx' = [tx EXCEPT ![c].seen = None]
       /\ UNCHANGED <<writes, answered>>
  ELSE Finish(c, {})

CacheHit(c) ==
  /\ pc[c] = "get"
  /\ cache[Target(c)] # None
  /\ UseOrder(c, cache[Target(c)])
  /\ UNCHANGED <<now, tables, lock, cache, served>>

CacheMiss(c) ==
  /\ pc[c] = "get"
  /\ cache[Target(c)] = None
  /\ pc' = [pc EXCEPT ![c] = "fill"]
  /\ UNCHANGED <<now, tables, lock, cache, tx, writes, served, answered>>

GetByID(c) ==
  /\ pc[c] = "fill"
  /\ \/ /\ orders[Target(c)] = None
        /\ Finish(c, {})
     \/ /\ orders[Target(c)] # None
        /\ tx' = [tx EXCEPT ![c].seen = orders[Target(c)]]
        /\ pc' = [pc EXCEPT ![c] = "set"]
        /\ UNCHANGED <<writes, answered>>
  /\ UNCHANGED <<now, tables, lock, cache, served>>

\* The fill of GetOrder, and the Set of an UpdateOrderStatus that changed nothing.
FillCache(c) ==
  /\ pc[c] = "set"
  /\ CachePut(Target(c), tx[c].seen)
  /\ UseOrder(c, tx[c].seen)
  /\ UNCHANGED <<now, tables, lock, served>>

(***************************************************************************)
(* Transactions of one order.  The first statement takes the row lock; a   *)
(* SELECT ... FOR UPDATE or DELETE of a missing row waits for nobody.      *)
(***************************************************************************)
Changed(row, status, t) == [row EXCEPT !.status = status, !.updated = t]

\* c's transaction, now holding the lock of o, does e to it.
Write(c, o, e) ==
  /\ writes' = [writes EXCEPT ![c][o] = e]
  /\ lock' = [lock EXCEPT ![o] = IF e.hit THEN c ELSE @]

Goto(c, label) == pc' = [pc EXCEPT ![c] = label]

\* AddOrder: INSERT waits for a transaction that touches the same id.
InsertOrder(c) ==
  LET o == Target(c)  r == Req(c)
      row == [recipient |-> r.user, until |-> r.until, status |-> "received",
              updated |-> tx[c].at]
  IN /\ pc[c] = "lock"
     /\ r.op = "create"
     /\ ~Blocked(c, o)
     /\ orders[o] = None
     /\ Write(c, o, [action |-> "ORDER_CREATED", old |-> "", row |-> row,
                     at |-> now, hit |-> TRUE])
     /\ Goto(c, "record")
     /\ UNCHANGED <<now, tables, cache, tx, served, answered>>

NothingIsSame(row, status) == FALSE

\* UpdateOrderStatus: any status may follow any other, itself is no change.
SameStatus(row, status) == row.status = status

ChangeStatus(c) ==
  LET o == Target(c)  row == orders[o]  status == Req(c).status
  IN /\ pc[c] = "lock"
     /\ Req(c).op = "update"
     /\ row # None
     /\ ~Blocked(c, o)
     /\ \/ /\ SameStatus(row, status)
           /\ tx' = [tx EXCEPT ![c].seen = row]
           /\ lock' = [lock EXCEPT ![o] = c]
           /\ Goto(c, "commit")
           /\ UNCHANGED writes
        \/ /\ ~SameStatus(row, status)
           /\ Write(c, o, [action |-> "STATUS_UPDATED", old |-> row.status,
                           row |-> Changed(row, status, now), at |-> now, hit |-> TRUE])
           /\ Goto(c, "record")
           /\ UNCHANGED tx
     /\ UNCHANGED <<now, tables, cache, served, answered>>

\* DeleteOrder: neither status nor storage time is looked at again, and a
\* DELETE of no row is not an error.
DeleteRow(c) ==
  LET o == Target(c)
  IN /\ pc[c] = "lock"
     /\ Req(c).op = "delete"
     /\ orders[o] = None \/ ~Blocked(c, o)
     /\ Write(c, o, [action |-> "ORDER_DELETED", old |-> "", row |-> None,
                     at |-> now, hit |-> orders[o] # None])
     /\ Goto(c, "record")
     /\ UNCHANGED <<now, tables, cache, tx, served, answered>>

ReturnsForAnybody(row, user, t) ==
  row.status = "issued" /\ t <= row.updated + ReturnWindow

\* AddReturn: the window is measured now, against the last change of the row.
MayReturn(row, user, t) ==
  /\ row.recipient = user
  /\ row.status = "issued"
  /\ t <= row.updated + ReturnWindow

ReturnOrder(c) ==
  LET o == Target(c)  row == orders[o]
  IN /\ pc[c] = "lock"
     /\ Req(c).op = "return"
     /\ row # None
     /\ ~Blocked(c, o)
     /\ MayReturn(row, Req(c).user, now)
     /\ Write(c, o, [action |-> "ORDER_RETURNED", old |-> row.status,
                     row |-> Changed(row, "returned", now), at |-> now, hit |-> TRUE])
     /\ Goto(c, "record")
     /\ UNCHANGED <<now, tables, cache, tx, served, answered>>

\* The error answers of the four: duplicate key, no such order, no return.
Refuse(c) ==
  LET o == Target(c)  row == orders[o]
  IN /\ pc[c] = "lock"
     /\ \/ Req(c).op = "create" /\ row # None /\ ~Blocked(c, o)
        \/ Req(c).op \in {"update", "return"} /\ row = None
        \/ /\ Req(c).op = "return"
           /\ row # None
           /\ ~Blocked(c, o)
           /\ ~MayReturn(row, Req(c).user, now)
     /\ Abort(c)

(***************************************************************************)
(* Transactions of several orders, IssueOrders and AcceptReturns: items in *)
(* the order of the request, each under its row lock, judged by the clock  *)
(* reading taken before the first lock.  An id met again sees the          *)
(* transaction's own write.  A refused item keeps its lock.                *)
(***************************************************************************)
IssuesExpired(row, user, t) == row.recipient = user /\ row.status = "received"

MayIssue(row, user, t) ==
  /\ row.recipient = user
  /\ row.status = "received"
  /\ t <= row.until

Accepts(c, row) ==
  \/ Req(c).op = "issue" /\ MayIssue(row, Req(c).user, tx[c].at)
  \/ Req(c).op = "accept" /\ MayReturn(row, Req(c).user, tx[c].at)

StampsEachItem(c, row) ==
  LET status == IF Req(c).op = "issue" THEN "issued" ELSE "returned"
  IN [action |-> IF status = "issued" THEN "ORDER_ISSUED" ELSE "ORDER_RETURN_ACCEPTED",
      old |-> row.status, row |-> Changed(row, status, now), at |-> now, hit |-> TRUE]

BulkEffect(c, row) ==
  LET t == tx[c].at
  IN IF Req(c).op = "issue"
     THEN [action |-> "ORDER_ISSUED", old |-> row.status,
           row |-> Changed(row, "issued", t), at |-> t, hit |-> TRUE]
     ELSE [action |-> "ORDER_RETURN_ACCEPTED", old |-> row.status,
           row |-> Changed(row, "returned", t), at |-> t, hit |-> TRUE]

BulkItem(c) ==
  LET o == Target(c)
      row == IF writes[c][o] # None THEN writes[c][o].row ELSE orders[o]
  IN /\ pc[c] = "lock"
     /\ Req(c).op \in BulkOps
     /\ row = None \/ ~Blocked(c, o)
     /\ lock' = [lock EXCEPT ![o] = IF row # None THEN c ELSE @]
     /\ IF row # None /\ Accepts(c, row)
        THEN writes' = [writes EXCEPT ![c][o] = BulkEffect(c, row)]
        ELSE UNCHANGED writes
     /\ tx' = [tx EXCEPT ![c].item = @ + 1]
     /\ IF tx[c].item = Len(Req(c).ids) THEN Goto(c, "record") ELSE UNCHANGED pc
     /\ UNCHANGED <<now, tables, cache, served, answered>>

(***************************************************************************)
(* The inserts into returns, order_history and outbox_tasks.  AddOrder and *)
(* AddReturn read the clock once more, after the statement on orders.      *)
(***************************************************************************)
Record(c) ==
  /\ pc[c] = "record"
  /\ writes' = [writes EXCEPT ![c] =
                  [o \in Orders |-> IF Req(c).op \in {"create", "return"} /\ @[o] # None
                                    THEN [@[o] EXCEPT !.at = now]
                                    ELSE @[o]]]
  /\ Goto(c, "commit")
  /\ UNCHANGED <<now, tables, lock, cache, tx, served, answered>>

(***************************************************************************)
(* The deferred commit or rollback.  The deferred function of the single   *)
(* operations assigns a failed commit to a variable that the return        *)
(* statement has already been evaluated from: the caller gets no error.    *)
(* The bulk operations clear the Success flags of their results.           *)
(***************************************************************************)
Hits(c, o) == writes[c][o] # None /\ writes[c][o].hit

AuditsOnlyHits(c, o) == Hits(c, o)

\* The transaction has an outbox task for o, even for a DELETE of no row.
Audits(c, o) == writes[c][o] # None

LogsOldStatus(e) ==
  [status |-> IF e.old = "" THEN e.row.status ELSE e.old, at |-> e.row.updated]

HistoryOf(e) ==
  [status |-> e.row.status, at |-> IF e.action = "ORDER_CREATED" THEN e.at ELSE e.row.updated]

AuditsNewAsOld(e) ==
  [action |-> e.action, old |-> IF e.row = None THEN "" ELSE e.row.status, new |-> ""]

\* createAuditPayload looks for key "status", which only AddOrder passes.
AuditOf(e) ==
  [action |-> e.action,
   old |-> e.old,
   new |-> IF e.action = "ORDER_CREATED" THEN e.row.status ELSE ""]

\* Deleting a row cascades to its history and returns.
Apply(c) ==
  /\ orders' = [o \in Orders |-> IF Hits(c, o) THEN writes[c][o].row ELSE orders[o]]
  /\ history' = [o \in Orders |->
       IF ~Hits(c, o) THEN history[o]
       ELSE IF writes[c][o].row = None THEN <<>>
       ELSE Append(history[o], HistoryOf(writes[c][o]))]
  /\ returns' = [o \in Orders |->
       IF ~Hits(c, o) THEN returns[o]
       ELSE IF writes[c][o].row = None THEN <<>>
       ELSE IF writes[c][o].action \notin ReturnActions THEN returns[o]
       ELSE Append(returns[o], [user |-> Req(c).user, at |-> writes[c][o].at])]
  /\ audit' = [o \in Orders |->
       IF Audits(c, o) THEN Append(audit[o], AuditOf(writes[c][o])) ELSE audit[o]]

AfterCommit(c) ==
  IF Req(c).op = "update" /\ Touched(c) = {}
  THEN Goto(c, "set") /\ UNCHANGED <<tx, writes, answered>>
  ELSE IF Touched(c) = {} THEN Finish(c, {})
  ELSE /\ Goto(c, "cache")
       /\ tx' = [tx EXCEPT ![c].todo = Touched(c)]
       /\ UNCHANGED <<writes, answered>>

Commit(c) ==
  /\ pc[c] = "commit"
  /\ Apply(c)
  /\ Unlock(c)
  /\ AfterCommit(c)
  /\ UNCHANGED <<now, cache, served>>

IgnoresCommitError(c) == Confirmed(c)

\* What the caller is told when tx.Commit returned an error.
CommitErrorAnswer(c) == IF Req(c).op \in BulkOps THEN {} ELSE Confirmed(c)

\* Commit returns an error and the transaction is gone.
CommitFails(c) ==
  /\ "commit" \in Faults
  /\ pc[c] = "commit"
  /\ Unlock(c)
  /\ Finish(c, CommitErrorAnswer(c))
  /\ UNCHANGED <<now, tables, cache, served>>

\* Commit returns an error although the server committed: the answer is lost.
CommitAckLost(c) ==
  /\ "ack" \in Faults
  /\ pc[c] = "commit"
  /\ Apply(c)
  /\ Unlock(c)
  /\ Finish(c, CommitErrorAnswer(c))
  /\ UNCHANGED <<now, cache, served>>

\* After the commit the cache is brought up to date, one order per call and
\* in no particular order; the answer is sent after the last.
UpdateCache(c) ==
  /\ pc[c] = "cache"
  /\ \E o \in tx[c].todo :
       /\ CachePut(o, writes[c][o].row)
       /\ IF tx[c].todo = {o}
          THEN Finish(c, Confirmed(c))
          ELSE /\ tx' = [tx EXCEPT ![c].todo = @ \ {o}]
               /\ UNCHANGED <<pc, writes, answered>>
  /\ UNCHANGED <<now, tables, lock, served>>

(***************************************************************************)
(* Failures.                                                               *)
(***************************************************************************)
\* A statement fails, or the caller's context is cancelled before commit.
StatementFails(c) ==
  /\ "statement" \in Faults
  /\ pc[c] \in {"fill", "lock", "record"}
  /\ Abort(c)

\* The transaction c waits for, if its next statement must wait.
WaitsFor(c) ==
  IF pc[c] = "lock" /\ Req(c).op \in BulkOps
  THEN LET o == Target(c) IN IF orders[o] # None /\ Blocked(c, o) THEN {lock[o]} ELSE {}
  ELSE {}

\* Postgres aborts a transaction that waits in a cycle.
DeadlockAbort(c) ==
  /\ \E D \in SUBSET Clients :
       /\ c \in D
       /\ \A d \in D : WaitsFor(d) # {} /\ WaitsFor(d) \subseteq D
       /\ D = UNION {WaitsFor(d) : d \in D}
  /\ Abort(c)

\* The process dies and starts again; LoadInitialData may fail, which main
\* only logs.
Restart ==
  /\ "restart" \in Faults
  /\ \E loaded \in BOOLEAN :
       cache' = [o \in Orders |->
                   IF loaded /\ orders[o] # None /\ orders[o].status \in ActiveStatuses
                   THEN orders[o] ELSE None]
  /\ lock' = [o \in Orders |-> None]
  /\ pc' = [c \in Clients |-> "idle"]
  /\ tx' = [c \in Clients |-> NoTx]
  /\ writes' = [c \in Clients |-> NoWrites]
  /\ UNCHANGED <<now, tables, served, answered>>

Tick ==
  /\ now < MaxTime
  /\ now' = now + 1
  /\ UNCHANGED <<tables, lock, cache, pc, tx, writes, served, answered>>

\* All MaxRequests requests are answered: the bounded run is over.
Done ==
  /\ served = MaxRequests
  /\ \A c \in Clients : pc[c] = "idle"
  /\ UNCHANGED vars

Proceed(c) ==
  \/ CacheHit(c) \/ CacheMiss(c) \/ GetByID(c) \/ FillCache(c)
  \/ InsertOrder(c) \/ ChangeStatus(c) \/ DeleteRow(c) \/ ReturnOrder(c) \/ Refuse(c)
  \/ BulkItem(c) \/ Record(c) \/ Commit(c) \/ UpdateCache(c)

Fail(c) == StatementFails(c) \/ CommitFails(c) \/ CommitAckLost(c)

Next ==
  \/ \E c \in Clients : Start(c) \/ Proceed(c) \/ Fail(c) \/ DeadlockAbort(c)
  \/ Restart
  \/ Tick
  \/ Done

Spec == Init /\ [][Next]_vars

\* A goroutine goes on, the server breaks lock cycles; nobody has to send a
\* request, the clock need not move and nothing has to fail.
Fairness == \A c \in Clients : WF_vars(Proceed(c)) /\ WF_vars(DeadlockAbort(c))
FairSpec == Spec /\ Fairness

-----------------------------------------------------------------------------
(***************************************************************************)
(* Properties.                                                             *)
(***************************************************************************)

\* A live order has a history that ends in the status of its row; an order
\* that is gone has neither history nor returns (the cascades).
HistoryTracksRow ==
  \A o \in Orders :
    IF orders[o] = None
    THEN history[o] = <<>> /\ returns[o] = <<>>
    ELSE history[o] # <<>> /\ Last(history[o]).status = orders[o].status

\* No two consecutive entries of a history have the same status: PUT of the
\* current status and the status checks under the lock keep repeats out.
NoRepeatedStatus ==
  \A o \in Orders : \A i \in 1..(Len(history[o]) - 1) :
    history[o][i].status # history[o][i + 1].status

\* What an uncommitted transaction is about to write was computed from the
\* row that is committed now, and the row cannot change before it commits.
Legal(e, row) ==
  /\ e.action = "ORDER_CREATED" => row = None /\ e.row # None /\ e.row.status = "received"
  /\ e.action = "ORDER_DELETED" => row # None /\ e.row = None
  /\ e.action \notin {"ORDER_CREATED", "ORDER_DELETED"} =>
       /\ row # None
       /\ e.row = Changed(row, e.row.status, e.row.updated)
       /\ e.old = row.status
       /\ e.row.status # row.status
  /\ e.action = "ORDER_ISSUED" => /\ MayIssue(row, row.recipient, e.row.updated)
                                  /\ e.row.status = "issued"
  /\ e.action \in ReturnActions => /\ MayReturn(row, row.recipient, e.row.updated)
                                   /\ e.row.status = "returned"

PendingIsCurrent ==
  \A c \in Clients, o \in Orders :
    Hits(c, o) /\ pc[c] # "cache" => lock[o] = c /\ Legal(writes[c][o], orders[o])

\* Where the tasks of a log stand that tell of the order since it was last created;
\* an ORDER_DELETED after that is the trace of a DELETE that hit no row.
Trail(log) ==
  {j \in DOMAIN log :
     /\ log[j].action # "ORDER_DELETED"
     /\ \A k \in DOMAIN log : k > j => log[k].action # "ORDER_CREATED"}

\* The how-manieth of them task j is: the entry of the history that it tells of.
Place(log, j) == Cardinality({k \in Trail(log) : k <= j})

\* The audit tasks of an order tell its history: one task per entry, the first of
\* the creation, each later one naming the status before it, its action agreeing
\* with the status after.
AuditTellsHistory ==
  \A o \in Orders : orders[o] # None =>
    /\ Cardinality(Trail(audit[o])) = Len(history[o])
    /\ \A j \in Trail(audit[o]) :
         LET task == audit[o][j]  i == Place(audit[o], j)
         IN IF i = 1 THEN task.action = "ORDER_CREATED"
            ELSE /\ task.old = history[o][i - 1].status
                 /\ task.action = "ORDER_ISSUED" => history[o][i].status = "issued"
                 /\ task.action \in ReturnActions => history[o][i].status = "returned"

\* Goods are handed out within the storage time and taken back within the
\* window that began when they were handed out, whatever clients interleave.
HandoversInTime ==
  \A o \in Orders : orders[o] # None =>
    \A j \in Trail(audit[o]) :
      LET action == audit[o][j].action
          i == Place(audit[o], j)
          before == history[o][i - 1]  after == history[o][i]
      IN /\ action = "ORDER_ISSUED" =>
              before.status = "received" /\ after.at <= orders[o].until
         /\ action \in ReturnActions =>
              before.status = "issued" /\ after.at <= before.at + ReturnWindow

\* The returns table has one row per audited return, by the order's owner.
ReturnsAreAudited ==
  \A o \in Orders : orders[o] # None =>
    /\ Len(returns[o]) =
         Cardinality({j \in Trail(audit[o]) : audit[o][j].action \in ReturnActions})
    /\ \A i \in 1..Len(returns[o]) : returns[o][i].user = orders[o].recipient

\* The tasks of a log that a caller may have been told of.
Reported(log) == {j \in DOMAIN log : log[j].action # "STATUS_UPDATED"}

\* Every change a caller was told is done has its task in the outbox.
AnsweredIsRecorded ==
  \A o \in Orders : answered[o] <= Cardinality(Reported(audit[o]))

\* With no request in progress the cache holds no row but the committed one.
CacheIsCurrentWhenIdle ==
  (\A c \in Clients : pc[c] = "idle") =>
    \A o \in Orders : cache[o] \in {None, orders[o]}

\* An order leaves the store only when it was never handed out (or came
\* back into "received") and its storage time is over.
CourierTakesOnlyExpired ==
  [][\A o \in Orders : orders[o] # None /\ orders'[o] = None =>
        orders[o].status = "received" /\ orders[o].until <= now]_vars

\* Every request gets its answer, in whatever order bulk requests lock rows.
RequestsAreAnswered == \A c \in Clients : pc[c] # "idle" ~> pc[c] = "idle"

Ledger == INSTANCE OrderLedger WITH
  now <- now, orders <- orders, history <- history, returns <- returns, audit <- audit

\* The storage implements the ledger: each commit is one atomic legal step on
\* the committed rows, and nothing else changes them.
ImplementsLedger == Ledger!Spec
=============================================================================
