--------------------------- MODULE OrderLedgerProofs --------------------------
(***************************************************************************)
(* The storage implements OrderLedger: a commit is a step of the ledger on *)
(* the rows committed at that moment, every other step leaves the tables.  *)
(*                                                                         *)
(* That effects are legal on those rows is PendingIsCurrent.  What else    *)
(* the ledger asks of a step comes from the request: one order or one      *)
(* batch of one action for one user, with times that lie between the       *)
(* request and now.  Staged says so of every open transaction.             *)
(***************************************************************************)
EXTENDS OrderStoreProofs

\* The effect that c has staged on o is not from the future.
Dated(c, o) ==
  /\ writes[c][o].at <= now
  /\ writes[c][o].row # None => writes[c][o].row.updated <= now

\* e is what the operation of request r, begun at t, makes.
Made(e, r, t) ==
  \/ /\ r.op = "create" /\ e.action = "ORDER_CREATED" /\ e.old = "" /\ e.hit /\ e.row # None
     /\ e.row.updated <= e.row.until /\ e.row.updated <= e.at
  \/ r.op = "update" /\ e.action = "STATUS_UPDATED" /\ e.hit /\ e.row # None
  \/ r.op = "delete" /\ e.action = "ORDER_DELETED" /\ e.old = "" /\ e.row = None
  \/ /\ r.op = "return" /\ e.action = "ORDER_RETURNED" /\ e.hit /\ e.row # None
     /\ e.row.recipient = r.user /\ e.row.updated <= e.at
  \/ /\ r.op = "issue" /\ e.action = "ORDER_ISSUED" /\ e.hit /\ e.row # None
     /\ e.row.recipient = r.user /\ e.row.updated = t
  \/ /\ r.op = "accept" /\ e.action = "ORDER_RETURN_ACCEPTED" /\ e.hit /\ e.row # None
     /\ e.row.recipient = r.user /\ e.row.updated = t /\ e.at = t

Fits(c, o) == Made(writes[c][o], Req(c), tx[c].at)

Effected(c, o) == Dated(c, o) /\ Fits(c, o)

\* The clock reading of the request.
Stamped(c) ==
  /\ tx[c].at <= now
  /\ pc[c] # "idle" /\ Req(c).op = "create" => tx[c].at <= Req(c).until

StagedBy(c) ==
  /\ Stamped(c)
  /\ pc[c] # "cache" =>
       /\ \A o \in Orders : writes[c][o] # None => Effected(c, o)
       /\ pc[c] # "idle" /\ Req(c).op \notin BulkOps =>
            \A o, p \in Orders : writes[c][o] # None /\ writes[c][p] # None => o = p

Staged == \A c \in Clients : StagedBy(c)

-----------------------------------------------------------------------------
(***************************************************************************)
(* Staged is inductive.                                                    *)
(***************************************************************************)

\* A step of c leaves what the others have staged; time may pass.
LEMMA StagedFrame ==
  ASSUME TypeOK, now' \in Nat, now <= now', Staged, NEW c \in Clients, StagedBy(c)',
         \A d \in Clients \ {c} : pc'[d] = pc[d] /\ tx'[d] = tx[d] /\ writes'[d] = writes[d]
  PROVE  Staged'
<1> SUFFICES ASSUME NEW d \in Clients, d # c PROVE StagedBy(d)'
  BY DEF Staged
<1>1. pc'[d] = pc[d] /\ tx'[d] = tx[d] /\ writes'[d] = writes[d]
  OBVIOUS
<1>2. now \in Nat /\ tx[d].at \in Nat /\ StagedBy(d)
  BY DEF Staged, TypeOK, TypesOK, TxType
<1>3. Stamped(d)'
  BY <1>1, <1>2 DEF StagedBy, Stamped, Req
<1>4. ASSUME NEW o \in Orders, writes[d][o] # None, Effected(d, o) PROVE Effected(d, o)'
  <2>1. writes[d][o] \in Effect
    BY <1>4 DEF TypeOK, TypesOK
  <2>2. writes[d][o].at \in Nat
    BY <2>1 DEF Effect
  <2>3. writes[d][o].row # None => writes[d][o].row.updated \in Nat
    BY <2>1 DEF Effect, Row
  <2>4. Dated(d, o)'
    BY <1>1, <1>2, <1>4, <2>2, <2>3 DEF Effected, Dated
  <2>5. Fits(d, o)'
    BY <1>1, <1>4, Zenon DEF Effected, Fits, Req
  <2> QED
    BY <2>4, <2>5 DEF Effected
<1> QED
  BY <1>1, <1>2, <1>3, <1>4 DEF StagedBy, Req

\* A request that ends has staged nothing.
LEMMA StagedFinish ==
  ASSUME TypeOK, Staged, NEW c \in Clients, NEW oks, Finish(c, oks), UNCHANGED now
  PROVE  Staged'
<1>1. \A d \in Clients \ {c} : pc'[d] = pc[d] /\ tx'[d] = tx[d] /\ writes'[d] = writes[d]
  BY DEF Finish, TypeOK, TypesOK
<1>2. pc'[c] = "idle" /\ tx'[c].at = 0 /\ \A o \in Orders : writes'[c][o] = None
  BY DEF Finish, NoTx, NoWrites, TypeOK, TypesOK
<1>3. now \in Nat
  BY DEF TypeOK, TypesOK
<1>4. StagedBy(c)'
  BY <1>2, <1>3 DEF StagedBy, Stamped
<1> QED
  BY <1>1, <1>3, <1>4, StagedFrame

\* A step that stages nothing new keeps the clock reading and the request.
LEMMA StagedQuiet ==
  ASSUME TypeOK, Staged, NEW c \in Clients, UNCHANGED now, pc[c] # "idle",
         \A d \in Clients \ {c} : pc'[d] = pc[d] /\ tx'[d] = tx[d] /\ writes'[d] = writes[d],
         tx'[c].at = tx[c].at /\ tx'[c].req = tx[c].req,
         \/ pc'[c] = "cache"
         \/ pc[c] # "cache" /\ writes'[c] = writes[c]
         \/ \A o \in Orders : writes'[c][o] = None
  PROVE  Staged'
<1>1. StagedBy(c) /\ now \in Nat
  BY DEF Staged, TypeOK, TypesOK
<1>2. Stamped(c)'
  BY <1>1 DEF StagedBy, Stamped, Req
<1>3. ASSUME NEW o \in Orders, Effected(c, o), writes'[c] = writes[c] PROVE Effected(c, o)'
  BY <1>3 DEF Effected, Fits, Dated, Req
<1>4. StagedBy(c)'
  BY <1>1, <1>2, <1>3 DEF StagedBy, Req
<1> QED
  BY <1>1, <1>4, StagedFrame

LEMMA StagedAbort ==
  ASSUME TypeOK, Staged, NEW c \in Clients, Abort(c)
  PROVE  Staged'
BY StagedFinish DEF Abort

LEMMA StagedStart ==
  ASSUME TypeOK, Staged, NEW c \in Clients, Start(c)
  PROVE  Staged'
<1>1. PICK r \in Requests :
        /\ r.op = "create" => now <= r.until
        /\ pc' = [pc EXCEPT ![c] = IF r.op \in {"get", "delete"} THEN "get" ELSE "lock"]
        /\ tx' = [tx EXCEPT ![c] = Begin(r)]
  BY DEF Start
<1>2. UNCHANGED <<now, writes>> /\ now \in Nat /\ \A o \in Orders : writes[c][o] = None
  BY DEF Start, TypeOK, TypesOK, Shaped
<1>3. \A d \in Clients \ {c} : pc'[d] = pc[d] /\ tx'[d] = tx[d] /\ writes'[d] = writes[d]
  BY <1>1, <1>2 DEF TypeOK, TypesOK
<1>4. tx'[c] = Begin(r)
  BY <1>1 DEF TypeOK, TypesOK
<1>5. /\ tx'[c].req = r
      /\ tx'[c].at = IF r.op \in BulkOps \union {"create"} THEN now ELSE 0
  BY <1>4 DEF Begin
<1>6. Stamped(c)'
  BY <1>1, <1>2, <1>5 DEF Stamped, Req
<1>7. StagedBy(c)'
  BY <1>2, <1>6 DEF StagedBy
<1> QED
  BY <1>2, <1>3, <1>7, StagedFrame

\* Steps of c that read: cache, table, and the cache again.
LEMMA StagedRead ==
  ASSUME TypeOK, Staged, NEW c \in Clients,
         CacheHit(c) \/ CacheMiss(c) \/ GetByID(c) \/ FillCache(c) \/ UpdateCache(c)
  PROVE  Staged'
<1>1. UNCHANGED now
  BY DEF CacheHit, CacheMiss, GetByID, FillCache, UpdateCache
<1>2. CASE \E oks : Finish(c, oks)
  BY <1>1, <1>2, StagedFinish
<1>3. CASE /\ pc[c] \in {"get", "fill", "set"}
           /\ \E l : pc' = [pc EXCEPT ![c] = l]
           /\ tx' = tx \/ \E s : tx' = [tx EXCEPT ![c].seen = s]
           /\ UNCHANGED writes
  <2>1. \A d \in Clients \ {c} : pc'[d] = pc[d] /\ tx'[d] = tx[d] /\ writes'[d] = writes[d]
    BY <1>3 DEF TypeOK, TypesOK
  <2>2. tx'[c].at = tx[c].at /\ tx'[c].req = tx[c].req
    BY <1>3 DEF TypeOK, TypesOK, TxType
  <2>3. \A o \in Orders : writes'[c][o] = None
    BY <1>3 DEF TypeOK, Shaped
  <2> QED
    BY <1>1, <1>3, <2>1, <2>2, <2>3, StagedQuiet
<1>4. CASE /\ pc[c] = "cache"
           /\ \E s : tx' = [tx EXCEPT ![c].todo = s]
           /\ UNCHANGED <<pc, writes>>
  <2>1. \A d \in Clients \ {c} : pc'[d] = pc[d] /\ tx'[d] = tx[d] /\ writes'[d] = writes[d]
    BY <1>4 DEF TypeOK, TypesOK
  <2>2. tx'[c].at = tx[c].at /\ tx'[c].req = tx[c].req
    BY <1>4 DEF TypeOK, TypesOK, TxType
  <2> QED
    BY <1>1, <1>4, <2>1, <2>2, StagedQuiet
<1> QED
  <2>1. ASSUME NEW row, UseOrder(c, row), pc[c] \in {"get", "set"} PROVE Staged'
    BY <2>1, <1>2, <1>3 DEF UseOrder
  <2>2. CASE CacheMiss(c)
    BY <2>2, <1>3 DEF CacheMiss
  <2>3. CASE CacheHit(c) \/ FillCache(c)
    BY <2>1, <2>3 DEF CacheHit, FillCache
  <2>4. CASE GetByID(c)
    BY <2>4, <1>2, <1>3 DEF GetByID
  <2>5. CASE UpdateCache(c)
    BY <2>5, <1>2, <1>4 DEF UpdateCache
  <2> QED
    BY <2>2, <2>3, <2>4, <2>5

\* Staging one effect: outside the bulk requests it is the only one.
LEMMA StagedWrite ==
  ASSUME TypeOK, Staged, NEW c \in Clients, NEW o \in Orders, UNCHANGED now,
         \A d \in Clients \ {c} : pc'[d] = pc[d] /\ tx'[d] = tx[d] /\ writes'[d] = writes[d],
         pc[c] = "lock", pc'[c] # "idle", tx'[c].at = tx[c].at, tx'[c].req = tx[c].req,
         \A p \in Orders \ {o} : writes'[c][p] = writes[c][p],
         Effected(c, o)'
  PROVE  Staged'
<1>1. StagedBy(c) /\ now \in Nat
  BY DEF Staged, TypeOK, TypesOK
<1>2. Stamped(c)'
  BY <1>1 DEF StagedBy, Stamped, Req
<1>3. ASSUME NEW p \in Orders \ {o}, Effected(c, p) PROVE Effected(c, p)'
  BY <1>3 DEF Effected, Fits, Dated, Req
<1>4. Req(c).op \notin BulkOps => \A p \in Orders : writes[c][p] = None
  BY DEF TypeOK, Shaped, Req
<1>5. StagedBy(c)'
  BY <1>1, <1>2, <1>3, <1>4 DEF StagedBy, Req
<1> QED
  BY <1>1, <1>5, StagedFrame

\* Write followed by the inserts: the shape of the single operations.
LEMMA StagedWriteStep ==
  ASSUME TypeOK, Staged, NEW c \in Clients, NEW o \in Orders, NEW e, Write(c, o, e),
         Goto(c, "record"), UNCHANGED <<now, tx>>, pc[c] = "lock",
         e.at <= now, e.row # None => e.row.updated <= now, Made(e, Req(c), tx[c].at)
  PROVE  Staged'
<1>1. /\ writes'[c][o] = e
      /\ \A p \in Orders \ {o} : writes'[c][p] = writes[c][p]
      /\ pc'[c] = "record"
      /\ \A d \in Clients \ {c} : pc'[d] = pc[d] /\ tx'[d] = tx[d] /\ writes'[d] = writes[d]
  BY DEF Write, Goto, TypeOK, TypesOK
<1>2. Effected(c, o)'
  BY <1>1 DEF Effected, Dated, Fits, Req
<1> QED
  BY <1>1, <1>2, StagedWrite

LEMMA StagedInsert ==
  ASSUME TypeOK, Staged, NEW c \in Clients, InsertOrder(c)
  PROVE  Staged'
<1> DEFINE o == Target(c)
           row == [recipient |-> Req(c).user, until |-> Req(c).until,
                   status |-> "received", updated |-> tx[c].at]
           e == [action |-> "ORDER_CREATED", old |-> "", row |-> row, at |-> now, hit |-> TRUE]
<1>1. o \in Orders /\ RequestType(Req(c)) /\ pc[c] = "lock" /\ Req(c).op = "create"
  BY TargetType DEF InsertOrder
<1>2. Write(c, o, e) /\ Goto(c, "record") /\ UNCHANGED <<now, tx>>
  BY DEF InsertOrder
<1>3. tx[c].at <= now /\ tx[c].at <= Req(c).until /\ now \in Nat
  BY <1>1 DEF Staged, StagedBy, Stamped, TypeOK, TypesOK
<1>4. tx[c].at \in Nat
  BY DEF TypeOK, TypesOK, TxType
<1>5. row \in Row
  BY <1>1, <1>4 DEF RequestType, Row, Statuses
<1>6. row # None /\ row.updated = tx[c].at /\ row.until = Req(c).until
  BY <1>5, NoneIsApart
<1>7. e.action = "ORDER_CREATED" /\ e.old = "" /\ e.hit
  OBVIOUS
<1>8. e.at = now /\ e.row = row
  OBVIOUS
<1> HIDE DEF e, row, o
<1>9. e.at <= now /\ e.row.updated <= now /\ e.row.updated <= e.row.until /\ e.row.updated <= e.at
  BY <1>3, <1>4, <1>6, <1>8
<1>10. Made(e, Req(c), tx[c].at)
  BY <1>1, <1>6, <1>7, <1>8, <1>9, Zenon DEF Made
<1> QED
  BY <1>1, <1>2, <1>9, <1>10, StagedWriteStep

LEMMA StagedChangeStatus ==
  ASSUME TypeOK, Staged, NEW c \in Clients, ChangeStatus(c)
  PROVE  Staged'
<1> DEFINE o == Target(c)
           row == orders[o]
           new == Changed(row, Req(c).status, now)
           e == [action |-> "STATUS_UPDATED", old |-> row.status, row |-> new,
                 at |-> now, hit |-> TRUE]
<1>1. /\ o \in Orders /\ RequestType(Req(c)) /\ pc[c] = "lock" /\ Req(c).op = "update"
      /\ row \in Row /\ now \in Nat /\ UNCHANGED now
  BY TargetType DEF ChangeStatus, TypeOK, TypesOK
<1>2. CASE UNCHANGED writes /\ tx' = [tx EXCEPT ![c].seen = row] /\ Goto(c, "commit")
  <2>1. \A d \in Clients \ {c} : pc'[d] = pc[d] /\ tx'[d] = tx[d] /\ writes'[d] = writes[d]
    BY <1>2 DEF Goto, TypeOK, TypesOK
  <2>2. tx'[c].at = tx[c].at /\ tx'[c].req = tx[c].req
    BY <1>2 DEF TypeOK, TypesOK, TxType
  <2> QED
    BY <1>1, <1>2, <2>1, <2>2, StagedQuiet
<1>3. CASE Write(c, o, e) /\ Goto(c, "record") /\ UNCHANGED tx
  <2>1. new # None /\ new.updated = now
    BY <1>1, ChangedType DEF RequestType
  <2>2. e.action = "STATUS_UPDATED" /\ e.hit /\ e.at = now /\ e.row = new
    OBVIOUS
  <2> HIDE DEF e, new, o
  <2>3. e.at <= now /\ e.row.updated <= now
    BY <1>1, <2>1, <2>2
  <2>4. Made(e, Req(c), tx[c].at)
    BY <1>1, <2>1, <2>2, Zenon DEF Made
  <2> QED
    BY <1>1, <1>3, <2>3, <2>4, StagedWriteStep
<1> QED
  BY <1>2, <1>3 DEF ChangeStatus

LEMMA StagedDelete ==
  ASSUME TypeOK, Staged, NEW c \in Clients, DeleteRow(c)
  PROVE  Staged'
<1> DEFINE o == Target(c)
           e == [action |-> "ORDER_DELETED", old |-> "", row |-> None,
                 at |-> now, hit |-> orders[o] # None]
<1>1. o \in Orders /\ pc[c] = "lock" /\ Req(c).op = "delete" /\ now \in Nat
  BY TargetType DEF DeleteRow, TypeOK, TypesOK
<1>2. Write(c, o, e) /\ Goto(c, "record") /\ UNCHANGED <<now, tx>>
  BY DEF DeleteRow
<1>3. e.action = "ORDER_DELETED" /\ e.old = "" /\ e.row = None
  OBVIOUS
<1>4. e.at = now
  OBVIOUS
<1> HIDE DEF e, o
<1>5. Made(e, Req(c), tx[c].at)
  BY <1>1, <1>3, Zenon DEF Made
<1>6. e.at <= now
  BY <1>1, <1>4
<1> QED
  BY <1>1, <1>2, <1>3, <1>5, <1>6, StagedWriteStep

LEMMA StagedReturn ==
  ASSUME TypeOK, Staged, NEW c \in Clients, ReturnOrder(c)
  PROVE  Staged'
<1> DEFINE o == Target(c)
           row == orders[o]
           new == Changed(row, "returned", now)
           e == [action |-> "ORDER_RETURNED", old |-> row.status, row |-> new,
                 at |-> now, hit |-> TRUE]
<1>1. /\ o \in Orders /\ pc[c] = "lock" /\ Req(c).op = "return"
      /\ row \in Row /\ now \in Nat /\ row.recipient = Req(c).user
  BY TargetType DEF ReturnOrder, MayReturn, TypeOK, TypesOK
<1>2. Write(c, o, e) /\ Goto(c, "record") /\ UNCHANGED <<now, tx>>
  BY DEF ReturnOrder
<1>3. new # None /\ new.updated = now
  BY <1>1, ChangedType DEF Statuses
<1>4. new.recipient = Req(c).user
  BY <1>1 DEF Changed, Row
<1>5. e.action = "ORDER_RETURNED" /\ e.hit /\ e.at = now /\ e.row = new
  OBVIOUS
<1> HIDE DEF e, new, o
<1>6. e.at <= now /\ e.row.updated <= now /\ e.row.updated <= e.at
  BY <1>1, <1>3, <1>5
<1>7. Made(e, Req(c), tx[c].at)
  BY <1>1, <1>3, <1>4, <1>5, <1>6, Zenon DEF Made
<1> QED
  BY <1>1, <1>2, <1>6, <1>7, StagedWriteStep

\* An item accepted has not been written before; a refused one stages nothing.
LEMMA StagedBulkItem ==
  ASSUME TypeOK, Staged, NEW c \in Clients, BulkItem(c)
  PROVE  Staged'
<1>1. /\ Target(c) \in Orders /\ pc[c] = "lock" /\ Req(c).op \in BulkOps
      /\ tx' = [tx EXCEPT ![c].item = tx[c].item + 1] /\ UNCHANGED now
      /\ IF tx[c].item = Len(Req(c).ids) THEN Goto(c, "record") ELSE UNCHANGED pc
  BY TargetType DEF BulkItem
<1>2. pc'[c] \in {"lock", "record"} /\ \A d \in Clients \ {c} : pc'[d] = pc[d]
  BY <1>1 DEF Goto, TypeOK, TypesOK
<1>3. /\ tx'[c].at = tx[c].at /\ tx'[c].req = tx[c].req
      /\ \A d \in Clients \ {c} : tx'[d] = tx[d]
  BY <1>1 DEF TypeOK, TypesOK, TxType
<1>4. CASE UNCHANGED writes
  BY <1>1, <1>2, <1>3, <1>4, StagedQuiet
<1>5. ASSUME NEW o \in Orders, o = Target(c), NEW row, row # None, Accepts(c, row),
             row = IF writes[c][o] # None THEN writes[c][o].row ELSE orders[o],
             writes' = [writes EXCEPT ![c][o] = BulkEffect(c, row)]
      PROVE  Staged'
  <2>1. PICK t : t = tx[c].at
    OBVIOUS
  <2>2. row \in Row /\ t \in Nat /\ now \in Nat /\ t <= now
    <3>1. t \in Nat /\ now \in Nat /\ t <= now
      BY <2>1 DEF TypeOK, TypesOK, TxType, Staged, StagedBy, Stamped
    <3>2. CASE writes[c][o] # None
      <4>1. writes[c][o] \in Effect /\ row = writes[c][o].row
        BY <1>5, <3>2 DEF TypeOK, TypesOK
      <4> QED
        BY <1>5, <3>1, <4>1 DEF Effect
    <3>3. CASE writes[c][o] = None
      BY <1>5, <3>1, <3>3 DEF TypeOK, TypesOK
    <3> QED
      BY <3>2, <3>3
  <2>3. PICK e : e = BulkEffect(c, row)
    OBVIOUS
  <2>4. e \in Effect /\ e.hit /\ e.row # None
    BY <2>2, <2>3, BulkEffectType
  <2>5. /\ writes'[c][o] = e
        /\ \A p \in Orders \ {o} : writes'[c][p] = writes[c][p]
        /\ \A d \in Clients \ {c} : writes'[d] = writes[d]
    BY <1>5, <2>3 DEF TypeOK, TypesOK
  <2>6. /\ Changed(row, "issued", t).updated = t
        /\ Changed(row, "issued", t).recipient = row.recipient
        /\ Changed(row, "returned", t).updated = t
        /\ Changed(row, "returned", t).recipient = row.recipient
    BY <2>2 DEF Changed, Row
  <2>7. e.at = t /\ e.row.updated = t /\ e.row.recipient = row.recipient
    BY <2>1, <2>3, <2>6 DEF BulkEffect
  <2>8. row.recipient = Req(c).user
    BY <1>5 DEF Accepts, MayIssue, MayReturn
  <2>9. Made(e, Req(c), t)
    <3>1. CASE Req(c).op = "issue"
      <4>1. e.action = "ORDER_ISSUED"
        BY <2>3, <3>1 DEF BulkEffect
      <4> QED
        BY <2>4, <2>7, <2>8, <3>1, <4>1, Zenon DEF Made
    <3>2. CASE Req(c).op = "accept"
      <4>1. e.action = "ORDER_RETURN_ACCEPTED"
        BY <2>3, <3>2 DEF BulkEffect
      <4> QED
        BY <2>4, <2>7, <2>8, <3>2, <4>1, Zenon DEF Made
    <3> QED
      BY <1>1, <3>1, <3>2 DEF BulkOps
  <2>10. Effected(c, o)'
    BY <1>1, <1>3, <2>1, <2>2, <2>5, <2>7, <2>9 DEF Effected, Dated, Fits, Req
  <2> QED
    BY <1>1, <1>2, <1>3, <2>5, <2>10, StagedWrite
<1> QED
  <2>1. PICK o \in Orders : o = Target(c)
    BY <1>1
  <2>2. PICK row : row = IF writes[c][o] # None THEN writes[c][o].row ELSE orders[o]
    OBVIOUS
  <2>3. IF row # None /\ Accepts(c, row)
        THEN writes' = [writes EXCEPT ![c][o] = BulkEffect(c, row)]
        ELSE UNCHANGED writes
    BY <2>1, <2>2 DEF BulkItem
  <2> QED
    BY <1>4, <1>5, <2>1, <2>2, <2>3

\* The last clock reading is no earlier than the first.
LEMMA StagedRecord ==
  ASSUME TypeOK, Staged, NEW c \in Clients, Record(c)
  PROVE  Staged'
<1>1. pc[c] = "record" /\ pc'[c] = "commit" /\ UNCHANGED <<now, tx>> /\ now \in Nat
  BY DEF Record, Goto, TypeOK, TypesOK
<1>2. \A d \in Clients \ {c} : pc'[d] = pc[d] /\ tx'[d] = tx[d] /\ writes'[d] = writes[d]
  BY DEF Record, Goto, TypeOK, TypesOK
<1>3. StagedBy(c) /\ Stamped(c)'
  BY <1>1 DEF Staged, StagedBy, Stamped, Req
<1>4. \A o \in Orders :
        \/ writes'[c][o] = writes[c][o]
        \/ /\ Req(c).op \in {"create", "return"} /\ writes[c][o] # None
           /\ writes'[c][o] = [writes[c][o] EXCEPT !.at = now]
  BY DEF Record, TypeOK, TypesOK
<1>5. ASSUME NEW o \in Orders, writes'[c][o] # None
      PROVE  writes[c][o] # None /\ Effected(c, o)'
  <2>1. CASE writes'[c][o] = writes[c][o]
    BY <1>1, <1>3, <1>5, <2>1 DEF StagedBy, Effected, Dated, Fits, Req
  <2>2. CASE /\ Req(c).op \in {"create", "return"} /\ writes[c][o] # None
             /\ writes'[c][o] = [writes[c][o] EXCEPT !.at = now]
    <3>1. writes[c][o] \in Effect /\ Effected(c, o)
      BY <1>1, <1>3, <2>2 DEF StagedBy, TypeOK, TypesOK
    <3>2. PICK e, f : e = writes[c][o] /\ f = writes'[c][o]
      OBVIOUS
    <3>3. f = [e EXCEPT !.at = now] /\ e \in Effect
      BY <2>2, <3>1, <3>2
    <3>4. /\ f.at = now /\ f.row = e.row /\ f.action = e.action /\ f.old = e.old
          /\ f.hit = e.hit
      BY <3>3 DEF Effect
    <3>5. /\ e.row # None => e.row.updated <= now
          /\ Made(e, Req(c), tx[c].at)
      BY <3>1, <3>2 DEF Effected, Dated, Fits
    <3>6. f.row # None => f.row.updated <= f.at
      BY <3>4, <3>5
    <3>7. Made(f, Req(c), tx[c].at)
      <4>1. CASE Req(c).op = "create"
        BY <3>4, <3>5, <3>6, <4>1, Zenon DEF Made
      <4>2. CASE Req(c).op = "return"
        BY <3>4, <3>5, <3>6, <4>2, Zenon DEF Made
      <4> QED
        BY <2>2, <4>1, <4>2
    <3> QED
      BY <1>1, <2>2, <3>2, <3>4, <3>5, <3>7 DEF Effected, Dated, Fits, Req
  <2> QED
    BY <1>4, <2>1, <2>2
<1>6. StagedBy(c)'
  BY <1>1, <1>3, <1>5 DEF StagedBy, Req
<1> QED
  BY <1>1, <1>2, <1>6, StagedFrame

LEMMA StagedCommit ==
  ASSUME TypeOK, Staged, NEW c \in Clients, Commit(c)
  PROVE  Staged'
<1>1. pc[c] = "commit" /\ UNCHANGED now
  BY DEF Commit
<1>2. CASE Finish(c, {})
  BY <1>1, <1>2, StagedFinish
<1>3. CASE Goto(c, "set") /\ UNCHANGED <<tx, writes>>
  <2>1. /\ \A d \in Clients \ {c} : pc'[d] = pc[d] /\ tx'[d] = tx[d] /\ writes'[d] = writes[d]
        /\ tx'[c].at = tx[c].at /\ tx'[c].req = tx[c].req
    BY <1>3 DEF Goto, TypeOK, TypesOK
  <2> QED
    BY <1>1, <1>3, <2>1, StagedQuiet
<1>4. CASE Goto(c, "cache") /\ UNCHANGED writes /\ tx' = [tx EXCEPT ![c].todo = Touched(c)]
  <2>1. /\ \A d \in Clients \ {c} : pc'[d] = pc[d] /\ tx'[d] = tx[d] /\ writes'[d] = writes[d]
        /\ pc'[c] = "cache"
    BY <1>4 DEF Goto, TypeOK, TypesOK
  <2>2. tx'[c].at = tx[c].at /\ tx'[c].req = tx[c].req
    BY <1>4 DEF TypeOK, TypesOK, TxType
  <2> QED
    BY <1>1, <2>1, <2>2, StagedQuiet
<1> QED
  BY <1>2, <1>3, <1>4 DEF Commit, AfterCommit

LEMMA StagedRestart ==
  ASSUME TypeOK, Staged, Restart
  PROVE  Staged'
<1>1. now \in Nat /\ UNCHANGED now
  BY DEF Restart, TypeOK, TypesOK
<1> SUFFICES ASSUME NEW c \in Clients PROVE StagedBy(c)'
  BY DEF Staged
<1>2. pc'[c] = "idle" /\ tx'[c].at = 0 /\ \A o \in Orders : writes'[c][o] = None
  BY DEF Restart, NoTx, NoWrites
<1> QED
  BY <1>1, <1>2 DEF StagedBy, Stamped

LEMMA StagedPass ==
  ASSUME TypeOK, Staged, now' \in Nat, now <= now', UNCHANGED <<pc, tx, writes>>
  PROVE  Staged'
<1> SUFFICES ASSUME NEW c \in Clients PROVE StagedBy(c)'
  BY DEF Staged
<1>1. /\ now \in Nat /\ tx[c].at \in Nat /\ StagedBy(c)
      /\ \A o \in Orders : writes[c][o] # None => writes[c][o] \in Effect
  BY DEF Staged, TypeOK, TypesOK, TxType
<1>2. Stamped(c)'
  BY <1>1 DEF StagedBy, Stamped, Req
<1>3. ASSUME NEW o \in Orders, writes[c][o] # None, Effected(c, o) PROVE Effected(c, o)'
  <2>1. writes[c][o].at \in Nat /\ (writes[c][o].row # None => writes[c][o].row.updated \in Nat)
    BY <1>1, <1>3 DEF Effect, Row
  <2> QED
    BY <1>1, <1>3, <2>1 DEF Effected, Dated, Fits, Req
<1> QED
  BY <1>1, <1>2, <1>3 DEF StagedBy, Req

LEMMA InitStaged == Init => Staged
<1> SUFFICES ASSUME Init, NEW c \in Clients PROVE StagedBy(c)
  BY DEF Staged
<1>1. now = 0 /\ pc[c] = "idle" /\ tx[c].at = 0 /\ \A o \in Orders : writes[c][o] = None
  BY DEF Init, NoTx, NoWrites
<1> QED
  BY <1>1 DEF StagedBy, Stamped

LEMMA StepStaged == TypeOK /\ Staged /\ [Next]_vars => Staged'
<1> SUFFICES ASSUME TypeOK, Staged, [Next]_vars PROVE Staged'
  OBVIOUS
<1>1. ASSUME NEW c \in Clients, Start(c) PROVE Staged'
  BY <1>1, StagedStart
<1>2. ASSUME NEW c \in Clients, Proceed(c) PROVE Staged'
  <2>1. CASE CacheHit(c) \/ CacheMiss(c) \/ GetByID(c) \/ FillCache(c) \/ UpdateCache(c)
    BY <2>1, StagedRead
  <2>2. CASE Refuse(c)
    BY <2>2, StagedAbort DEF Refuse
  <2> QED
    BY <1>2, <2>1, <2>2, StagedInsert, StagedChangeStatus, StagedDelete, StagedReturn,
       StagedBulkItem, StagedRecord, StagedCommit DEF Proceed
<1>3. ASSUME NEW c \in Clients, Fail(c) \/ DeadlockAbort(c) PROVE Staged'
  BY <1>3, StagedAbort, StagedFinish DEF Fail, StatementFails, CommitFails, CommitAckLost,
     DeadlockAbort
<1>4. CASE Restart
  BY <1>4, StagedRestart
<1>5. CASE Tick \/ Done \/ UNCHANGED vars
  <2>1. now \in Nat
    BY DEF TypeOK, TypesOK
  <2>2. now' \in Nat /\ now <= now' /\ UNCHANGED <<pc, tx, writes>>
    BY <1>5, <2>1 DEF Tick, Done, vars
  <2> QED
    BY <2>2, StagedPass
<1> QED
  BY <1>1, <1>2, <1>3, <1>4, <1>5 DEF Next

-----------------------------------------------------------------------------
(***************************************************************************)
(* A commit is a step of the ledger.                                       *)
(***************************************************************************)

\* The rows that a commit leaves alone.
LEMMA ApplyUntouched ==
  ASSUME NEW c \in Clients, Apply(c), NEW o \in Orders, writes[c][o] = None
  PROVE  UNCHANGED <<orders[o], history[o], returns[o], audit[o]>>
BY DEF Apply, Hits, Audits

\* What a commit does to an order whose row the transaction has written.
LEMMA ApplyHit ==
  ASSUME NEW c \in Clients, Apply(c), NEW o \in Orders, NEW e, e = writes[c][o],
         e # None, e.hit, e.row # None
  PROVE  /\ orders'[o] = e.row
         /\ history'[o] = Append(history[o], HistoryOf(e))
         /\ returns'[o] = IF e.action \notin ReturnActions THEN returns[o]
                          ELSE Append(returns[o], [user |-> Req(c).user, at |-> e.at])
         /\ audit'[o] = Append(audit[o], AuditOf(e))
BY DEF Apply, Hits, Audits

LEMMA ApplyDelete ==
  ASSUME NEW c \in Clients, Apply(c), NEW o \in Orders, NEW e, e = writes[c][o],
         e # None, e.row = None
  PROVE  /\ IF e.hit THEN orders'[o] = None /\ history'[o] = <<>> /\ returns'[o] = <<>>
                     ELSE UNCHANGED <<orders[o], history[o], returns[o]>>
         /\ audit'[o] = Append(audit[o], AuditOf(e))
BY DEF Apply, Hits, Audits

\* What is known of an effect about to be committed.
LEMMA AtCommit ==
  ASSUME TypeOK, PendingIsCurrent, Staged, NEW c \in Clients, pc[c] = "commit",
         NEW o \in Orders, NEW e, e = writes[c][o], e # None
  PROVE  /\ e \in Effect
         /\ e.at \in Nat /\ e.at <= now
         /\ e.row # None => e.row \in Row /\ e.row.updated \in Nat /\ e.row.updated <= now
         /\ Made(e, Req(c), tx[c].at)
         /\ e.hit => Legal(e, orders[o])
<1>1. e \in Effect
  BY DEF TypeOK, TypesOK
<1>2. Effected(c, o)
  BY DEF Staged, StagedBy
<1>3. e.hit => Legal(e, orders[o])
  BY DEF PendingIsCurrent, Hits
<1> QED
  BY <1>1, <1>2, <1>3 DEF Effect, Row, Effected, Dated, Fits

LEMMA CommitRegisters ==
  ASSUME TypeOK, PendingIsCurrent, Staged, NEW c \in Clients, pc[c] = "commit", Apply(c),
         NEW o \in Orders, writes[c][o] # None, Req(c).op = "create"
  PROVE  Ledger!Register(o)
<1>1. PICK e : e = writes[c][o]
  OBVIOUS
<1>2. /\ e \in Effect /\ e.at \in Nat /\ e.at <= now /\ Made(e, Req(c), tx[c].at)
      /\ e.row # None => e.row \in Row /\ e.row.updated \in Nat /\ e.row.updated <= now
      /\ e.hit => Legal(e, orders[o])
  BY <1>1, AtCommit
<1>3. e.action = "ORDER_CREATED" /\ e.hit /\ e.row # None
  BY <1>2, Zenon DEF Made
<1>4. e.row.updated <= e.row.until /\ e.row.updated <= e.at
  BY <1>2, Zenon DEF Made
<1>5. orders[o] = None /\ e.row.status = "received"
  BY <1>2, <1>3 DEF Legal
<1>6. /\ orders'[o] = e.row
      /\ history'[o] = Append(history[o], HistoryOf(e))
      /\ returns'[o] = IF e.action \notin ReturnActions THEN returns[o]
                       ELSE Append(returns[o], [user |-> Req(c).user, at |-> e.at])
      /\ audit'[o] = Append(audit[o], AuditOf(e))
  BY <1>1, <1>3, ApplyHit, Zenon
<1>7. HistoryOf(e) = [status |-> "received", at |-> e.at]
  BY <1>3, <1>5 DEF HistoryOf
<1>8. AuditOf(e) = [action |-> "ORDER_CREATED", old |-> "", new |-> "received"]
  <2>1. e.old = ""
    BY <1>2, <1>3, Zenon DEF Made
  <2> QED
    BY <1>3, <1>5, <2>1, Zenon DEF AuditOf
<1>9. returns'[o] = returns[o]
  BY <1>3, <1>6 DEF ReturnActions
<1>10. e.at \in e.row.updated..now
  <2>1. now \in Nat /\ e.at <= now /\ e.at \in Nat /\ e.row.updated \in Nat
    BY <1>2, <1>3 DEF TypeOK, TypesOK
  <2> QED
    BY <1>4, <2>1
<1>11. orders'[o] \in Ledger!Row
  BY <1>2, <1>3, <1>6 DEF Row, Ledger!Row, Statuses, Ledger!Statuses
<1>12. Ledger!Logged(o, "received", e.at)
  BY <1>6, <1>7 DEF Ledger!Logged
<1>13. Ledger!Audited(o, "ORDER_CREATED", "", "received")
  BY <1>6, <1>8 DEF Ledger!Audited
<1> QED
  BY <1>2, <1>3, <1>4, <1>5, <1>6, <1>9, <1>10, <1>11, <1>12, <1>13 DEF Ledger!Register

LEMMA ChangedKeepsRecipient ==
  ASSUME NEW row \in Row, NEW status, NEW t
  PROVE  Changed(row, status, t).recipient = row.recipient
BY DEF Changed, Row

\* Effects that change the status of a row.
LEMMA CommitBecomes ==
  ASSUME NEW c \in Clients, Apply(c), NEW o \in Orders, NEW e, e = writes[c][o], e # None,
         e.hit, Legal(e, orders[o]),
         e.action \notin {"ORDER_CREATED", "ORDER_DELETED"}, e.row # None
  PROVE  /\ Ledger!Becomes(o, e.row.status, e.row.updated)
         /\ Ledger!Audited(o, e.action, orders[o].status, "")
         /\ orders'[o] = e.row
         /\ returns'[o] = IF e.action \notin ReturnActions THEN returns[o]
                          ELSE Append(returns[o], [user |-> Req(c).user, at |-> e.at])
<1>1. /\ orders[o] # None /\ e.row.status # orders[o].status /\ e.old = orders[o].status
      /\ e.row = Changed(orders[o], e.row.status, e.row.updated)
  BY DEF Legal
<1>2. /\ orders'[o] = e.row
      /\ history'[o] = Append(history[o], HistoryOf(e))
      /\ returns'[o] = IF e.action \notin ReturnActions THEN returns[o]
                       ELSE Append(returns[o], [user |-> Req(c).user, at |-> e.at])
      /\ audit'[o] = Append(audit[o], AuditOf(e))
  BY DEF Apply, Hits, Audits
<1>3. HistoryOf(e) = [status |-> e.row.status, at |-> e.row.updated]
  BY DEF HistoryOf
<1>4. AuditOf(e) = [action |-> e.action, old |-> e.old, new |-> ""]
  BY Zenon DEF AuditOf
<1>5. Ledger!Becomes(o, e.row.status, e.row.updated)
  BY <1>1, <1>2, <1>3 DEF Ledger!Becomes, Ledger!Logged, Changed
<1>6. Ledger!Audited(o, e.action, orders[o].status, "")
  BY <1>1, <1>2, <1>4 DEF Ledger!Audited
<1> QED
  BY <1>2, <1>5, <1>6

LEMMA CommitRestatus ==
  ASSUME TypeOK, PendingIsCurrent, Staged, NEW c \in Clients, pc[c] = "commit", Apply(c),
         NEW o \in Orders, writes[c][o] # None, Req(c).op = "update"
  PROVE  \E t \in 0..now : Ledger!Restatus(o, t)
<1>1. PICK e : e = writes[c][o]
  OBVIOUS
<1>2. /\ Made(e, Req(c), tx[c].at)
      /\ e.row # None => e.row \in Row /\ e.row.updated \in Nat /\ e.row.updated <= now
      /\ e.hit => Legal(e, orders[o])
  BY <1>1, AtCommit
<1>3. e.action = "STATUS_UPDATED" /\ e.hit /\ e.row # None
  BY <1>2, Zenon DEF Made
<1>4. e.action \notin {"ORDER_CREATED", "ORDER_DELETED"} /\ e.action \notin ReturnActions
  BY <1>3 DEF ReturnActions
<1>5. /\ Ledger!Becomes(o, e.row.status, e.row.updated)
      /\ Ledger!Audited(o, e.action, orders[o].status, "")
      /\ orders'[o] = e.row
      /\ returns'[o] = IF e.action \notin ReturnActions THEN returns[o]
                       ELSE Append(returns[o], [user |-> Req(c).user, at |-> e.at])
  BY <1>1, <1>2, <1>3, <1>4, CommitBecomes, Zenon
<1>6. Ledger!Restatus(o, e.row.updated)
  BY <1>3, <1>4, <1>5 DEF Ledger!Restatus
<1>7. e.row.updated \in 0..now
  BY <1>2, <1>3 DEF TypeOK, TypesOK
<1> QED
  BY <1>6, <1>7

LEMMA CommitRemoves ==
  ASSUME TypeOK, PendingIsCurrent, Staged, NEW c \in Clients, pc[c] = "commit", Apply(c),
         NEW o \in Orders, writes[c][o] # None, Req(c).op = "delete"
  PROVE  Ledger!Remove(o) \/ Ledger!RemoveNothing(o)
<1>1. PICK e : e = writes[c][o]
  OBVIOUS
<1>2. /\ Made(e, Req(c), tx[c].at)
      /\ e.hit => Legal(e, orders[o])
  BY <1>1, AtCommit
<1>3. e.action = "ORDER_DELETED" /\ e.row = None
  BY <1>2, Zenon DEF Made
<1>4. e.hit => orders[o] # None
  BY <1>2, <1>3 DEF Legal
<1>5. /\ IF e.hit THEN orders'[o] = None /\ history'[o] = <<>> /\ returns'[o] = <<>>
                  ELSE UNCHANGED <<orders[o], history[o], returns[o]>>
      /\ audit'[o] = Append(audit[o], AuditOf(e))
  BY <1>1, <1>3, ApplyDelete, Zenon
<1>6. AuditOf(e) = [action |-> "ORDER_DELETED", old |-> "", new |-> ""]
  <2>1. e.old = ""
    BY <1>2, <1>3, Zenon DEF Made
  <2> QED
    BY <1>3, <2>1 DEF AuditOf
<1>7. Ledger!Audited(o, "ORDER_DELETED", "", "")
  BY <1>5, <1>6 DEF Ledger!Audited
<1> QED
  BY <1>4, <1>5, <1>7 DEF Ledger!Remove, Ledger!RemoveNothing

LEMMA CommitHandsOut ==
  ASSUME TypeOK, PendingIsCurrent, Staged, NEW c \in Clients, pc[c] = "commit", Apply(c),
         NEW o \in Orders, writes[c][o] # None, Req(c).op = "issue"
  PROVE  Ledger!HandOut(o, Req(c).user, tx[c].at)
<1>1. PICK e : e = writes[c][o]
  OBVIOUS
<1>2. Made(e, Req(c), tx[c].at) /\ (e.hit => Legal(e, orders[o]))
  BY <1>1, AtCommit
<1>3. /\ e.action = "ORDER_ISSUED" /\ e.hit /\ e.row # None
      /\ e.row.recipient = Req(c).user /\ e.row.updated = tx[c].at
  BY <1>2, Zenon DEF Made
<1>4. e.action \notin {"ORDER_CREATED", "ORDER_DELETED"} /\ e.action \notin ReturnActions
  BY <1>3 DEF ReturnActions
<1>5. /\ Ledger!Becomes(o, e.row.status, e.row.updated)
      /\ Ledger!Audited(o, e.action, orders[o].status, "")
      /\ orders'[o] = e.row
      /\ returns'[o] = IF e.action \notin ReturnActions THEN returns[o]
                       ELSE Append(returns[o], [user |-> Req(c).user, at |-> e.at])
  BY <1>1, <1>2, <1>3, <1>4, CommitBecomes, Zenon
<1>6. /\ e.row.status = "issued" /\ orders[o] # None /\ orders[o].status = "received"
      /\ e.row.updated <= orders[o].until
      /\ e.row = Changed(orders[o], e.row.status, e.row.updated)
  BY <1>2, <1>3, <1>4 DEF Legal, MayIssue
<1>7. e.row.recipient = orders[o].recipient
  BY <1>6 DEF Changed, TypeOK, TypesOK, Row
<1> QED
  BY <1>3, <1>4, <1>5, <1>6, <1>7 DEF Ledger!HandOut

\* The two ways of taking an order back differ in the time they enter.
LEMMA CommitTakesBack ==
  ASSUME TypeOK, PendingIsCurrent, Staged, NEW c \in Clients, pc[c] = "commit", Apply(c),
         NEW o \in Orders, NEW e, e = writes[c][o], e # None,
         e.action \in ReturnActions, e.hit, e.row # None, e.row.recipient = Req(c).user
  PROVE  Ledger!TakeBack(o, Req(c).user, e.row.updated, e.at, e.action)
<1>1. Legal(e, orders[o])
  BY AtCommit
<1>2. e.action \notin {"ORDER_CREATED", "ORDER_DELETED"}
  BY DEF ReturnActions
<1>3. /\ Ledger!Becomes(o, e.row.status, e.row.updated)
      /\ Ledger!Audited(o, e.action, orders[o].status, "")
      /\ orders'[o] = e.row
      /\ returns'[o] = IF e.action \notin ReturnActions THEN returns[o]
                       ELSE Append(returns[o], [user |-> Req(c).user, at |-> e.at])
  BY <1>1, <1>2, CommitBecomes, Zenon
<1>4. /\ e.row.status = "returned" /\ orders[o] # None /\ orders[o].status = "issued"
      /\ e.row.updated <= orders[o].updated + ReturnWindow
      /\ e.row = Changed(orders[o], e.row.status, e.row.updated)
  BY <1>1, <1>2 DEF Legal, MayReturn
<1>5. e.row.recipient = orders[o].recipient
  <2>1. orders[o] \in Row
    BY <1>4 DEF TypeOK, TypesOK
  <2>2. Changed(orders[o], e.row.status, e.row.updated).recipient = orders[o].recipient
    BY <2>1, ChangedKeepsRecipient
  <2> QED
    BY <1>4, <2>2, Zenon
<1> QED
  BY <1>3, <1>4, <1>5 DEF Ledger!TakeBack

LEMMA CommitReturns ==
  ASSUME TypeOK, PendingIsCurrent, Staged, NEW c \in Clients, pc[c] = "commit", Apply(c),
         NEW o \in Orders, writes[c][o] # None, Req(c).op = "return"
  PROVE  \E t \in 0..now, user \in Users : \E entered \in t..now :
           Ledger!TakeBack(o, user, t, entered, "ORDER_RETURNED")
<1>1. PICK e : e = writes[c][o]
  OBVIOUS
<1>2. /\ Made(e, Req(c), tx[c].at) /\ e.at \in Nat /\ e.at <= now
      /\ e.row # None => e.row \in Row /\ e.row.updated \in Nat /\ e.row.updated <= now
  BY <1>1, AtCommit
<1>3. /\ e.action = "ORDER_RETURNED" /\ e.hit /\ e.row # None
      /\ e.row.recipient = Req(c).user /\ e.row.updated <= e.at
  BY <1>2, Zenon DEF Made
<1>4. Ledger!TakeBack(o, Req(c).user, e.row.updated, e.at, "ORDER_RETURNED")
  <2>1. e.action \in ReturnActions
    BY <1>3 DEF ReturnActions
  <2>2. Ledger!TakeBack(o, Req(c).user, e.row.updated, e.at, e.action)
    BY <1>1, <1>3, <2>1, CommitTakesBack, Zenon
  <2> QED
    BY <1>3, <2>2
<1>5. Req(c).user \in Users /\ e.row.updated \in 0..now /\ e.at \in e.row.updated..now
  <2>1. now \in Nat /\ e.at \in Nat /\ e.row.updated \in Nat
    BY <1>2, <1>3 DEF TypeOK, TypesOK
  <2>2. Req(c).user \in Users
    BY RequestOf DEF RequestType
  <2>3. e.row.updated <= e.at /\ e.at <= now
    BY <1>2, <1>3
  <2> QED
    BY <2>1, <2>2, <2>3
<1> QED
  BY <1>4, <1>5

LEMMA CommitAccepts ==
  ASSUME TypeOK, PendingIsCurrent, Staged, NEW c \in Clients, pc[c] = "commit", Apply(c),
         NEW o \in Orders, writes[c][o] # None, Req(c).op = "accept"
  PROVE  Ledger!TakeBack(o, Req(c).user, tx[c].at, tx[c].at, "ORDER_RETURN_ACCEPTED")
<1>1. PICK e : e = writes[c][o]
  OBVIOUS
<1>2. Made(e, Req(c), tx[c].at)
  BY <1>1, AtCommit
<1>3. /\ e.action = "ORDER_RETURN_ACCEPTED" /\ e.hit /\ e.row # None
      /\ e.row.recipient = Req(c).user /\ e.row.updated = tx[c].at /\ e.at = tx[c].at
  BY <1>2, Zenon DEF Made
<1>4. e.action \in ReturnActions
  BY <1>3 DEF ReturnActions
<1>5. Ledger!TakeBack(o, Req(c).user, e.row.updated, e.at, e.action)
  BY <1>1, <1>3, <1>4, CommitTakesBack, Zenon
<1> QED
  BY <1>3, <1>5

\* A commit books the request: a single order or the batch that it touched.
LEMMA CommitIsBooked ==
  ASSUME TypeOK, PendingIsCurrent, Staged, NEW c \in Clients, pc[c] = "commit", Apply(c),
         UNCHANGED now
  PROVE  Ledger!Next \/ UNCHANGED Ledger!vars
<1>1. CASE Touched(c) = {}
  <2>1. \A o \in Orders : writes[c][o] = None
    BY <1>1 DEF Touched
  <2>2. UNCHANGED <<orders, history, returns, audit>>
    BY <2>1 DEF Apply, Hits, Audits, TypeOK, TypesOK
  <2> QED
    BY <2>2 DEF Ledger!vars
<1>2. \A o \in Orders : o \notin Touched(c) =>
        UNCHANGED <<orders[o], history[o], returns[o], audit[o]>>
  BY ApplyUntouched DEF Touched
<1>3. RequestType(Req(c)) /\ tx[c].at \in 0..now
  <2>1. now \in Nat /\ tx[c].at \in Nat /\ tx[c].at <= now
    BY DEF TypeOK, TypesOK, TxType, Staged, StagedBy, Stamped
  <2> QED
    BY <2>1, RequestOf
<1>4. CASE Touched(c) # {} /\ Req(c).op \notin BulkOps
  <2>1. PICK o \in Orders : writes[c][o] # None
    BY <1>4 DEF Touched
  <2>2. \A p \in Orders : p # o => p \notin Touched(c)
    BY <1>4, <2>1 DEF Staged, StagedBy, Touched
  <2>3. Ledger!Only({o})
    BY <1>2, <2>2 DEF Ledger!Only
  <2>4. Ledger!Single(o)
    <3>1. CASE Req(c).op = "create"
      BY <2>1, <3>1, CommitRegisters DEF Ledger!Single
    <3>2. CASE Req(c).op = "update"
      BY <2>1, <3>2, CommitRestatus DEF Ledger!Single
    <3>3. CASE Req(c).op = "delete"
      BY <2>1, <3>3, CommitRemoves DEF Ledger!Single
    <3>4. CASE Req(c).op = "return"
      BY <2>1, <3>4, CommitReturns DEF Ledger!Single
    <3>5. Req(c).op # "get"
      <4>1. Made(writes[c][o], Req(c), tx[c].at)
        BY <2>1, AtCommit
      <4> QED
        BY <4>1 DEF Made
    <3> QED
      BY <1>3, <1>4, <3>1, <3>2, <3>3, <3>4, <3>5 DEF RequestType, Ops, BulkOps
  <2> QED
    BY <2>3, <2>4 DEF Ledger!Next, Ledger!Book
<1>5. CASE Touched(c) # {} /\ Req(c).op \in BulkOps
  <2>1. Touched(c) \in SUBSET Orders /\ Ledger!Only(Touched(c))
    BY <1>2 DEF Touched, Ledger!Only
  <2>2. Req(c).user \in Users
    BY <1>3 DEF RequestType
  <2>3. Ledger!Batch(Touched(c))
    <3>1. CASE Req(c).op = "issue"
      <4>1. \A o \in Touched(c) : Ledger!HandOut(o, Req(c).user, tx[c].at)
        BY <3>1, CommitHandsOut DEF Touched
      <4> QED
        BY <1>3, <2>2, <4>1 DEF Ledger!Batch
    <3>2. CASE Req(c).op = "accept"
      <4>1. \A o \in Touched(c) :
              Ledger!TakeBack(o, Req(c).user, tx[c].at, tx[c].at, "ORDER_RETURN_ACCEPTED")
        BY <3>2, CommitAccepts DEF Touched
      <4> QED
        BY <1>3, <2>2, <4>1 DEF Ledger!Batch
    <3> QED
      BY <1>5, <3>1, <3>2 DEF BulkOps
  <2> QED
    BY <1>5, <2>1, <2>3 DEF Ledger!Next, Ledger!Book
<1> QED
  BY <1>1, <1>4, <1>5

LEMMA StepLedger ==
  TypeOK /\ PendingIsCurrent /\ Staged /\ [Next]_vars => [Ledger!Next]_(Ledger!vars)
<1> SUFFICES ASSUME TypeOK, PendingIsCurrent, Staged, [Next]_vars
             PROVE  Ledger!Next \/ UNCHANGED Ledger!vars
  OBVIOUS
<1>1. ASSUME NEW c \in Clients, Commit(c) \/ CommitAckLost(c)
      PROVE  Ledger!Next \/ UNCHANGED Ledger!vars
  BY <1>1, CommitIsBooked DEF Commit, CommitAckLost
<1>2. ASSUME NEW c \in Clients, Start(c) \/ DeadlockAbort(c)
      PROVE  UNCHANGED Ledger!vars
  BY <1>2 DEF Start, DeadlockAbort, Abort, tables, Ledger!vars
<1>3. ASSUME NEW c \in Clients, Proceed(c), ~Commit(c) PROVE UNCHANGED Ledger!vars
  BY <1>3 DEF Proceed, CacheHit, CacheMiss, GetByID, FillCache, InsertOrder, ChangeStatus,
     DeleteRow, ReturnOrder, Refuse, BulkItem, Record, UpdateCache, Abort, tables, Ledger!vars
<1>4. ASSUME NEW c \in Clients, Fail(c), ~CommitAckLost(c) PROVE UNCHANGED Ledger!vars
  BY <1>4 DEF Fail, StatementFails, CommitFails, Abort, tables, Ledger!vars
<1>5. CASE Restart \/ Done \/ UNCHANGED vars
  BY <1>5 DEF Restart, Done, vars, tables, Ledger!vars
<1>6. CASE Tick
  <2>1. now \in Nat
    BY DEF TypeOK, TypesOK
  <2> QED
    BY <1>6, <2>1 DEF Tick, tables, Ledger!Next, Ledger!Tick
<1> QED
  BY <1>1, <1>2, <1>3, <1>4, <1>5, <1>6 DEF Next, Proceed, Fail

\* Whatever requests interleave and whatever fails, a reader of the tables sees
\* a ledger: one order created, removed or changed at a time, or a whole batch
\* of one recipient, each change legal for the rows that stood there.
THEOREM StorageImplementsLedger == Spec => ImplementsLedger
<1>1. Init => Ledger!Init
  BY DEF Init, Ledger!Init
<1>2. Init => PendingIsCurrent
  BY DEF Init, PendingIsCurrent, Hits, NoWrites
<1> QED
  BY <1>1, <1>2, InitStaged, InitType, StepType, StepPending, StepStaged, StepLedger, PTL
     DEF Spec, ImplementsLedger, Ledger!Spec
=============================================================================
