--------------------------- MODULE OrderStoreProofs ---------------------------
(***************************************************************************)
(* Theorems about OrderStore, for any orders, users, clients, requests,    *)
(* faults and bounds.                                                      *)
(***************************************************************************)
EXTENDS OrderStore, TLAPS

-----------------------------------------------------------------------------
(***************************************************************************)
(* Lemmas about the operators actions are built from.                      *)
(***************************************************************************)

\* The order and the request of a client at the calls that name an order.
LEMMA TargetType ==
  ASSUME TypeOK, NEW c \in Clients, pc[c] \in {"get", "fill", "set", "lock"}
  PROVE  Req(c) \in Requests /\ RequestType(Req(c)) /\ Target(c) \in Orders
<1>1. tx[c] \in TxType /\ Shaped(c)
  BY DEF TypeOK, TypesOK
<1>2. Req(c) \in Requests /\ tx[c].item \in Nat \ {0} /\ tx[c].item <= Len(Req(c).ids)
  BY <1>1 DEF Shaped, Req, TxType
<1>3. RequestType(Req(c))
  BY <1>2, RequestsTyped
<1>4. Req(c).ids \in Seq(Orders)
  BY <1>3 DEF RequestType
<1>5. tx[c].item \in 1..Len(Req(c).ids)
  BY <1>2, <1>4
<1>6. Target(c) \in Orders
  BY <1>4, <1>5 DEF Target
<1> QED
  BY <1>2, <1>3, <1>6

LEMMA RequestOf ==
  ASSUME TypeOK, NEW c \in Clients, pc[c] # "idle"
  PROVE  Req(c) \in Requests /\ RequestType(Req(c))
BY RequestsTyped DEF TypeOK, Shaped, Req

\* A step of c leaves every other request in shape.
LEMMA ShapedFrame ==
  ASSUME TypeOK, NEW c \in Clients, Shaped(c)',
         \A d \in Clients \ {c} :
           pc'[d] = pc[d] /\ tx'[d] = tx[d] /\ writes'[d] = writes[d]
  PROVE  \A d \in Clients : Shaped(d)'
<1> TAKE d \in Clients
<1>1. CASE d = c
  BY <1>1
<1>2. CASE d # c
  <2>1. Shaped(d) /\ pc'[d] = pc[d] /\ tx'[d] = tx[d] /\ writes'[d] = writes[d]
    BY <1>2 DEF TypeOK
  <2> QED
    BY <2>1 DEF Shaped
<1> QED
  BY <1>1, <1>2

\* Writing a row to the cache.
LEMMA CachePutType ==
  ASSUME TypesOK, NEW o \in Orders, NEW row \in Row \union {None}, CachePut(o, row)
  PROVE  cache' \in [Orders -> Row \union {None}]
BY DEF TypesOK, CachePut

\* Ending a request.
LEMMA FinishType ==
  ASSUME TypeOK, NEW c \in Clients, NEW oks, Finish(c, oks)
  PROVE  /\ pc' \in [Clients -> PCs]
         /\ tx' \in [Clients -> TxType]
         /\ writes' \in [Clients -> [Orders -> Effect \union {None}]]
         /\ answered' \in [Orders -> Nat]
         /\ \A d \in Clients : Shaped(d)'
<1>1. NoTx \in TxType /\ NoWrites \in [Orders -> Effect \union {None}]
  BY DEF NoTx, TxType, NoWrites
<1>2. /\ pc' \in [Clients -> PCs]
      /\ tx' \in [Clients -> TxType]
      /\ writes' \in [Clients -> [Orders -> Effect \union {None}]]
      /\ answered' \in [Orders -> Nat]
  BY <1>1 DEF TypeOK, TypesOK, Finish, PCs
<1>3. pc'[c] = "idle" /\ tx'[c] = NoTx /\ writes'[c] = NoWrites
  BY DEF TypeOK, TypesOK, Finish
<1>4. Shaped(c)'
  BY <1>3 DEF Shaped, NoTx, NoWrites
<1>5. \A d \in Clients \ {c} : pc'[d] = pc[d] /\ tx'[d] = tx[d] /\ writes'[d] = writes[d]
  BY DEF TypeOK, TypesOK, Finish
<1> QED
  BY <1>2, <1>4, <1>5, ShapedFrame

LEMMA UnlockType ==
  ASSUME TypesOK, NEW c \in Clients, Unlock(c)
  PROVE  lock' \in [Orders -> Clients \union {None}]
BY DEF TypesOK, Unlock

LEMMA AbortType ==
  ASSUME TypeOK, NEW c \in Clients, Abort(c)
  PROVE  TypeOK'
<1>1. /\ pc' \in [Clients -> PCs]
      /\ tx' \in [Clients -> TxType]
      /\ writes' \in [Clients -> [Orders -> Effect \union {None}]]
      /\ answered' \in [Orders -> Nat]
      /\ \A d \in Clients : Shaped(d)'
  BY FinishType DEF Abort
<1>2. lock' \in [Orders -> Clients \union {None}]
  BY UnlockType DEF Abort, TypeOK
<1> QED
  BY <1>1, <1>2 DEF TypeOK, TypesOK, Abort, tables

\* An effect, and the row it stands on, after the first statement of c.
LEMMA WriteType ==
  ASSUME TypeOK, NEW c \in Clients, NEW o \in Orders, NEW e \in Effect, Write(c, o, e)
  PROVE  /\ writes' \in [Clients -> [Orders -> Effect \union {None}]]
         /\ lock' \in [Orders -> Clients \union {None}]
         /\ writes'[c][o] = e
         /\ \A p \in Orders \ {o} : writes'[c][p] = writes[c][p]
         /\ \A d \in Clients \ {c} : writes'[d] = writes[d]
BY DEF TypeOK, TypesOK, Write

-----------------------------------------------------------------------------
(***************************************************************************)
(* Typing: every step preserves TypeOK.                                    *)
(***************************************************************************)

LEMMA StartType ==
  ASSUME TypeOK, NEW c \in Clients, Start(c)
  PROVE  TypeOK'
<1>1. PICK r \in Requests :
        /\ pc' = [pc EXCEPT ![c] = IF r.op \in {"get", "delete"} THEN "get" ELSE "lock"]
        /\ tx' = [tx EXCEPT ![c] = Begin(r)]
  BY DEF Start
<1>2. Begin(r) \in TxType /\ Begin(r).req = r /\ Begin(r).item = 1 /\ Begin(r).todo = {}
  BY DEF Begin, TxType, TypeOK, TypesOK
<1>3. r.ids # <<>> /\ r.ids \in Seq(Orders)
  BY RequestsTyped DEF RequestType
<1>4. tx' \in [Clients -> TxType] /\ tx'[c] = Begin(r)
  BY <1>1, <1>2 DEF TypeOK, TypesOK
<1>5. pc' \in [Clients -> PCs] /\ pc'[c] \in {"get", "lock"}
  BY <1>1 DEF TypeOK, TypesOK, PCs
<1>6. writes' = writes /\ \A o \in Orders : writes[c][o] = None
  BY DEF Start, TypeOK, Shaped
<1>7. Len(r.ids) >= 1
  BY <1>3
<1>8. Shaped(c)'
  BY <1>2, <1>4, <1>5, <1>6, <1>7 DEF Shaped
<1>9. \A d \in Clients : Shaped(d)'
  BY <1>1, <1>6, <1>8, ShapedFrame DEF TypeOK, TypesOK
<1> QED
  BY <1>4, <1>5, <1>9 DEF TypeOK, TypesOK, Start, tables

\* GetOrder, whoever it is for.
LEMMA UseOrderType ==
  ASSUME TypeOK, NEW c \in Clients, pc[c] \in {"get", "set"}, NEW row, UseOrder(c, row)
  PROVE  /\ pc' \in [Clients -> PCs]
         /\ tx' \in [Clients -> TxType]
         /\ writes' \in [Clients -> [Orders -> Effect \union {None}]]
         /\ answered' \in [Orders -> Nat]
         /\ \A d \in Clients : Shaped(d)'
<1>1. CASE Req(c).op = "delete" /\ Returnable(row)
  <2>1. /\ pc' = [pc EXCEPT ![c] = "lock"]
        /\ tx' = [tx EXCEPT ![c].seen = None]
        /\ UNCHANGED <<writes, answered>>
    BY <1>1 DEF UseOrder
  <2>2. /\ pc' \in [Clients -> PCs] /\ pc'[c] = "lock"
        /\ tx' \in [Clients -> TxType]
        /\ tx'[c].req = tx[c].req /\ tx'[c].item = tx[c].item /\ tx'[c].todo = tx[c].todo
    BY <2>1 DEF TypeOK, TypesOK, TxType, PCs
  <2>3. Shaped(c)'
    BY <2>1, <2>2 DEF TypeOK, Shaped
  <2>4. \A d \in Clients \ {c} : pc'[d] = pc[d] /\ tx'[d] = tx[d] /\ writes'[d] = writes[d]
    BY <2>1 DEF TypeOK, TypesOK
  <2> QED
    BY <2>1, <2>2, <2>3, <2>4, ShapedFrame DEF TypeOK, TypesOK
<1>2. CASE ~(Req(c).op = "delete" /\ Returnable(row))
  BY <1>2, FinishType DEF UseOrder
<1> QED
  BY <1>1, <1>2

LEMMA CacheHitType ==
  ASSUME TypeOK, NEW c \in Clients, CacheHit(c)
  PROVE  TypeOK'
<1>1. UseOrder(c, cache[Target(c)]) /\ pc[c] = "get"
  BY DEF CacheHit
<1>2. /\ pc' \in [Clients -> PCs]
      /\ tx' \in [Clients -> TxType]
      /\ writes' \in [Clients -> [Orders -> Effect \union {None}]]
      /\ answered' \in [Orders -> Nat]
      /\ \A d \in Clients : Shaped(d)'
  BY <1>1, UseOrderType
<1> QED
  BY <1>2 DEF TypeOK, TypesOK, CacheHit, tables

LEMMA CacheMissType ==
  ASSUME TypeOK, NEW c \in Clients, CacheMiss(c)
  PROVE  TypeOK'
<1>1. pc' \in [Clients -> PCs] /\ pc'[c] = "fill" /\ pc[c] = "get"
  BY DEF CacheMiss, TypeOK, TypesOK, PCs
<1>2. Shaped(c)'
  BY <1>1 DEF CacheMiss, TypeOK, Shaped
<1>3. \A d \in Clients : Shaped(d)'
  BY <1>2, ShapedFrame DEF CacheMiss, TypeOK, TypesOK
<1> QED
  BY <1>1, <1>3 DEF TypeOK, TypesOK, CacheMiss, tables

LEMMA GetByIDType ==
  ASSUME TypeOK, NEW c \in Clients, GetByID(c)
  PROVE  TypeOK'
<1>1. Target(c) \in Orders /\ pc[c] = "fill"
  BY TargetType DEF GetByID
<1>2. CASE Finish(c, {})
  BY <1>2, FinishType DEF GetByID, TypeOK, TypesOK, tables
<1>3. CASE /\ orders[Target(c)] # None
           /\ tx' = [tx EXCEPT ![c].seen = orders[Target(c)]]
           /\ pc' = [pc EXCEPT ![c] = "set"]
           /\ UNCHANGED <<writes, answered>>
  <2>1. orders[Target(c)] \in Row
    BY <1>1, <1>3 DEF TypeOK, TypesOK
  <2>2. /\ pc' \in [Clients -> PCs] /\ pc'[c] = "set"
        /\ tx' \in [Clients -> TxType] /\ tx'[c].seen = orders[Target(c)]
        /\ tx'[c].req = tx[c].req /\ tx'[c].item = tx[c].item /\ tx'[c].todo = tx[c].todo
    BY <1>3, <2>1 DEF TypeOK, TypesOK, TxType, PCs
  <2>3. Shaped(c)'
    BY <1>1, <1>3, <2>2 DEF TypeOK, Shaped
  <2>4. \A d \in Clients : Shaped(d)'
    BY <1>3, <2>3, ShapedFrame DEF TypeOK, TypesOK
  <2> QED
    BY <1>3, <2>2, <2>4 DEF GetByID, TypeOK, TypesOK, tables
<1> QED
  BY <1>2, <1>3 DEF GetByID

LEMMA FillCacheType ==
  ASSUME TypeOK, NEW c \in Clients, FillCache(c)
  PROVE  TypeOK'
<1>1. Target(c) \in Orders /\ pc[c] = "set" /\ tx[c].seen \in Row \union {None}
  BY TargetType DEF FillCache, TypeOK, TypesOK, TxType
<1>2. cache' \in [Orders -> Row \union {None}]
  BY <1>1, CachePutType DEF FillCache, TypeOK
<1>3. /\ pc' \in [Clients -> PCs]
      /\ tx' \in [Clients -> TxType]
      /\ writes' \in [Clients -> [Orders -> Effect \union {None}]]
      /\ answered' \in [Orders -> Nat]
      /\ \A d \in Clients : Shaped(d)'
  BY <1>1, UseOrderType DEF FillCache
<1> QED
  BY <1>2, <1>3 DEF TypeOK, TypesOK, FillCache, tables

\* The first statement of a transaction of one order.
LEMMA WriteStepType ==
  ASSUME TypeOK, NEW c \in Clients, pc[c] = "lock", NEW o \in Orders, NEW e \in Effect,
         e.action = "ORDER_CREATED" => e.row # None,
         Write(c, o, e), Goto(c, "record"),
         UNCHANGED <<now, tables, cache, tx, served, answered>>
  PROVE  TypeOK'
<1>1. pc' \in [Clients -> PCs] /\ pc'[c] = "record"
      /\ \A d \in Clients \ {c} : pc'[d] = pc[d]
  BY DEF Goto, TypeOK, TypesOK, PCs
<1>2. /\ writes' \in [Clients -> [Orders -> Effect \union {None}]]
      /\ lock' \in [Orders -> Clients \union {None}]
      /\ writes'[c][o] = e
      /\ \A p \in Orders \ {o} : writes'[c][p] = writes[c][p]
      /\ \A d \in Clients \ {c} : writes'[d] = writes[d]
  BY WriteType
<1>3. e # None
  BY NoneIsApart
<1>4. Shaped(c)'
  <2>1. Shaped(c) /\ tx'[c] = tx[c]
    BY DEF TypeOK
  <2>2. tx'[c].req \in Requests
    BY <2>1 DEF Shaped
  <2>3. \A p \in tx'[c].todo : writes'[c][p] # None
    BY <2>1, <1>2, <1>3 DEF Shaped, TypeOK, TypesOK, TxType
  <2>4. \A p \in Orders : writes'[c][p] # None =>
          (writes'[c][p].action = "ORDER_CREATED" => writes'[c][p].row # None)
    BY <2>1, <1>2, <1>3 DEF Shaped
  <2>5. tx'[c].item <= Len(tx'[c].req.ids) /\ writes'[c][o] # None
    BY <2>1, <1>2, <1>3 DEF Shaped
  <2> QED
    BY <1>1, <2>2, <2>3, <2>4, <2>5 DEF Shaped
<1>5. \A d \in Clients : Shaped(d)'
  BY <1>1, <1>2, <1>4, ShapedFrame
<1> QED
  BY <1>1, <1>2, <1>5 DEF TypeOK, TypesOK, tables

LEMMA InsertOrderType ==
  ASSUME TypeOK, NEW c \in Clients, InsertOrder(c)
  PROVE  TypeOK'
<1> DEFINE row == [recipient |-> Req(c).user, until |-> Req(c).until,
                   status |-> "received", updated |-> tx[c].at]
           e == [action |-> "ORDER_CREATED", old |-> "", row |-> row, at |-> now, hit |-> TRUE]
<1>1. RequestType(Req(c)) /\ Target(c) \in Orders /\ pc[c] = "lock"
  BY TargetType DEF InsertOrder
<1>2. row \in Row
  BY <1>1 DEF RequestType, Row, Statuses, TypeOK, TypesOK, TxType
<1>3. e \in Effect /\ e.row # None
  BY <1>2, NoneIsApart DEF Effect, Actions, TypeOK, TypesOK
<1>4. Write(c, Target(c), e) /\ Goto(c, "record")
      /\ UNCHANGED <<now, tables, cache, tx, served, answered>>
  BY DEF InsertOrder
<1> HIDE DEF e
<1> QED
  BY <1>1, <1>3, <1>4, WriteStepType

LEMMA ChangedType ==
  ASSUME NEW row \in Row, NEW status \in Statuses, NEW t \in Nat
  PROVE  /\ Changed(row, status, t) \in Row
         /\ Changed(row, status, t).status = status
         /\ Changed(row, status, t).updated = t
         /\ Changed(row, status, t) # None
BY NoneIsApart DEF Changed, Row

LEMMA ChangeStatusType ==
  ASSUME TypeOK, NEW c \in Clients, ChangeStatus(c)
  PROVE  TypeOK'
<1> DEFINE o == Target(c)
           row == orders[o]
           status == Req(c).status
           e == [action |-> "STATUS_UPDATED", old |-> row.status,
                 row |-> Changed(row, status, now), at |-> now, hit |-> TRUE]
<1>1. /\ RequestType(Req(c)) /\ o \in Orders /\ pc[c] = "lock" /\ row \in Row
      /\ Req(c).op = "update"
  BY TargetType DEF ChangeStatus, TypeOK, TypesOK
<1>2. CASE row.status = status
  <2>1. /\ tx' = [tx EXCEPT ![c].seen = row]
        /\ lock' = [lock EXCEPT ![o] = c]
        /\ pc' = [pc EXCEPT ![c] = "commit"]
        /\ UNCHANGED <<writes, now, tables, cache, served, answered>>
    BY <1>2 DEF ChangeStatus, SameStatus, Goto
  <2>2. /\ pc' \in [Clients -> PCs] /\ pc'[c] = "commit"
        /\ tx' \in [Clients -> TxType]
        /\ tx'[c].req = tx[c].req /\ tx'[c].todo = tx[c].todo
        /\ tx'[c].item = tx[c].item /\ tx'[c].seen # None
        /\ lock' \in [Orders -> Clients \union {None}]
    BY NoneIsApart, <1>1, <2>1 DEF TypeOK, TypesOK, TxType, PCs
  <2>3. Shaped(c)'
    BY <1>1, <2>1, <2>2 DEF TypeOK, Shaped
  <2>4. \A d \in Clients : Shaped(d)'
    BY <2>1, <2>3, ShapedFrame DEF TypeOK, TypesOK
  <2> QED
    BY <2>1, <2>2, <2>4 DEF TypeOK, TypesOK, tables
<1>3. CASE row.status # status
  <2>1. Changed(row, status, now) \in Row /\ row.status \in Statuses
    BY <1>1, ChangedType DEF RequestType, TypeOK, TypesOK, Row
  <2>2. e \in Effect
    BY <2>1 DEF Effect, Actions, TypeOK, TypesOK
  <2>3. Write(c, o, e) /\ Goto(c, "record") /\ UNCHANGED <<now, tables, cache, tx, served, answered>>
    BY <1>3 DEF ChangeStatus, SameStatus
  <2>4. e.action # "ORDER_CREATED"
    OBVIOUS
  <2> HIDE DEF e
  <2> QED
    BY <1>1, <2>2, <2>3, <2>4, WriteStepType
<1> QED
  BY <1>2, <1>3

LEMMA DeleteRowType ==
  ASSUME TypeOK, NEW c \in Clients, DeleteRow(c)
  PROVE  TypeOK'
<1> DEFINE e == [action |-> "ORDER_DELETED", old |-> "", row |-> None,
                 at |-> now, hit |-> orders[Target(c)] # None]
<1>1. Target(c) \in Orders /\ pc[c] = "lock"
  BY TargetType DEF DeleteRow
<1>2. e \in Effect /\ e.action # "ORDER_CREATED"
  BY DEF Effect, Actions, TypeOK, TypesOK
<1>3. Write(c, Target(c), e) /\ Goto(c, "record")
      /\ UNCHANGED <<now, tables, cache, tx, served, answered>>
  BY DEF DeleteRow
<1> HIDE DEF e
<1> QED
  BY <1>1, <1>2, <1>3, WriteStepType

LEMMA ReturnOrderType ==
  ASSUME TypeOK, NEW c \in Clients, ReturnOrder(c)
  PROVE  TypeOK'
<1> DEFINE row == orders[Target(c)]
           e == [action |-> "ORDER_RETURNED", old |-> row.status,
                 row |-> Changed(row, "returned", now), at |-> now, hit |-> TRUE]
<1>1. Target(c) \in Orders /\ pc[c] = "lock" /\ row \in Row
  BY TargetType DEF ReturnOrder, TypeOK, TypesOK
<1>2. Changed(row, "returned", now) \in Row /\ row.status \in Statuses
  BY <1>1, ChangedType DEF Statuses, TypeOK, TypesOK, Row
<1>3. e \in Effect /\ e.action # "ORDER_CREATED"
  BY <1>2 DEF Effect, Actions, TypeOK, TypesOK
<1>4. Write(c, Target(c), e) /\ Goto(c, "record")
      /\ UNCHANGED <<now, tables, cache, tx, served, answered>>
  BY DEF ReturnOrder
<1> HIDE DEF e
<1> QED
  BY <1>1, <1>3, <1>4, WriteStepType

LEMMA RefuseType ==
  ASSUME TypeOK, NEW c \in Clients, Refuse(c)
  PROVE  TypeOK'
BY AbortType DEF Refuse

\* What an item of a bulk request does to a row that it accepts.
LEMMA BulkEffectType ==
  ASSUME TypeOK, NEW c \in Clients, NEW row \in Row
  PROVE  LET e == BulkEffect(c, row)
         IN /\ e \in Effect /\ e.hit /\ e.action # "ORDER_CREATED" /\ e.row # None
            /\ e.row.status = IF Req(c).op = "issue" THEN "issued" ELSE "returned"
<1>1. tx[c].at \in Nat /\ row.status \in Statuses
  BY DEF TypeOK, TypesOK, TxType, Row
<1>2. "issued" \in Statuses /\ "returned" \in Statuses
  BY DEF Statuses
<1>3. CASE Req(c).op = "issue"
  <2>1. /\ Changed(row, "issued", tx[c].at) \in Row
        /\ Changed(row, "issued", tx[c].at).status = "issued"
        /\ Changed(row, "issued", tx[c].at) # None
    BY <1>1, <1>2, NoneIsApart DEF Changed, Row
  <2> QED
    BY <1>1, <1>3, <2>1 DEF BulkEffect, Effect, Actions
<1>4. CASE Req(c).op # "issue"
  <2>1. /\ Changed(row, "returned", tx[c].at) \in Row
        /\ Changed(row, "returned", tx[c].at).status = "returned"
        /\ Changed(row, "returned", tx[c].at) # None
    BY <1>1, <1>2, NoneIsApart DEF Changed, Row
  <2> QED
    BY <1>1, <1>4, <2>1 DEF BulkEffect, Effect, Actions
<1> QED
  BY <1>3, <1>4

LEMMA BulkItemType ==
  ASSUME TypeOK, NEW c \in Clients, BulkItem(c)
  PROVE  TypeOK'
<1> DEFINE o == Target(c)
           row == IF writes[c][o] # None THEN writes[c][o].row ELSE orders[o]
           e == BulkEffect(c, row)
<1>1. /\ Req(c) \in Requests /\ RequestType(Req(c)) /\ o \in Orders
      /\ pc[c] = "lock" /\ Req(c).op \in BulkOps
  BY TargetType DEF BulkItem
<1>2. row \in Row \union {None}
  BY <1>1 DEF TypeOK, TypesOK, Effect
<1>3. \/ row # None /\ writes' = [writes EXCEPT ![c][o] = e]
      \/ writes' = writes
  BY DEF BulkItem
<1>4. row # None => /\ e \in Effect /\ e.action # "ORDER_CREATED" /\ e.row # None
                    /\ e.row.status = IF Req(c).op = "issue" THEN "issued" ELSE "returned"
  BY <1>2, BulkEffectType
<1> HIDE DEF e, row
<1>5. writes' \in [Clients -> [Orders -> Effect \union {None}]]
  <2>1. CASE row # None /\ writes' = [writes EXCEPT ![c][o] = e]
    <3>1. e \in Effect \union {None}
      BY <1>4, <2>1
    <3>2. writes \in [Clients -> [Orders -> Effect \union {None}]]
      BY DEF TypeOK, TypesOK
    <3> QED
      BY <1>1, <2>1, <3>1, <3>2
  <2>2. CASE writes' = writes
    BY <2>2 DEF TypeOK, TypesOK
  <2> QED
    BY <1>3, <2>1, <2>2
<1>6. lock' \in [Orders -> Clients \union {None}]
  BY <1>1 DEF BulkItem, TypeOK, TypesOK
<1>7. /\ tx' = [tx EXCEPT ![c].item = tx[c].item + 1]
      /\ tx' \in [Clients -> TxType]
      /\ tx'[c].req = tx[c].req /\ tx'[c].todo = tx[c].todo
      /\ tx'[c].item = tx[c].item + 1
  <2>1. tx' = [tx EXCEPT ![c].item = tx[c].item + 1]
    BY DEF BulkItem
  <2>2. tx \in [Clients -> TxType] /\ tx[c].item + 1 \in Nat \ {0}
    BY DEF TypeOK, TypesOK, TxType
  <2> QED
    BY <2>1, <2>2 DEF TxType
<1>8. /\ pc' \in [Clients -> PCs]
      /\ IF tx[c].item = Len(Req(c).ids) THEN pc'[c] = "record" ELSE pc'[c] = "lock"
      /\ \A d \in Clients \ {c} : pc'[d] = pc[d]
  BY <1>1 DEF BulkItem, Goto, TypeOK, TypesOK, PCs
<1>9. Shaped(c)'
  <2>1. Shaped(c) /\ tx[c].item \in Nat /\ Req(c).ids \in Seq(Orders)
        /\ tx[c].todo \subseteq Orders
    BY <1>1 DEF TypeOK, TypesOK, TxType, RequestType
  <2>2. tx'[c].req \in Requests /\ tx'[c].req = Req(c)
    BY <1>1, <1>7 DEF Req
  <2>3. pc'[c] = "lock" => tx'[c].item <= Len(tx'[c].req.ids)
    BY <1>1, <1>7, <1>8, <2>1, <2>2 DEF Shaped, Req
  <2>4. \A p \in Orders : \/ writes'[c][p] = writes[c][p]
                          \/ row # None /\ writes'[c][p] = e
    BY <1>1, <1>3 DEF TypeOK, TypesOK
  <2>5. row # None => e # None
    BY <1>4, NoneIsApart
  <2>6. \A p \in tx'[c].todo : writes'[c][p] # None
    BY <1>7, <2>1, <2>4, <2>5 DEF Shaped
  <2>7. \A p \in Orders : writes'[c][p] # None =>
          /\ writes'[c][p].action = "ORDER_CREATED" => writes'[c][p].row # None
          /\ /\ Req(c).op \in BulkOps
             /\ writes'[c][p].row # None
             /\ writes'[c][p].row.status = IF Req(c).op = "issue" THEN "issued" ELSE "returned"
    <3> SUFFICES ASSUME NEW p \in Orders, writes'[c][p] # None
                 PROVE  /\ writes'[c][p].row # None
                        /\ writes'[c][p].row.status =
                             IF Req(c).op = "issue" THEN "issued" ELSE "returned"
      BY <1>1
    <3>1. CASE writes'[c][p] = writes[c][p]
      BY <1>1, <2>1, <3>1 DEF Shaped, Req
    <3>2. CASE row # None /\ writes'[c][p] = e
      BY <1>4, <3>2
    <3> QED
      BY <2>4, <3>1, <3>2
  <2> QED
    BY <1>1, <1>8, <2>2, <2>3, <2>6, <2>7 DEF Shaped, BulkOps
<1>10. \A d \in Clients \ {c} : pc'[d] = pc[d] /\ tx'[d] = tx[d] /\ writes'[d] = writes[d]
  BY <1>3, <1>7, <1>8 DEF TypeOK, TypesOK
<1>11. \A d \in Clients : Shaped(d)'
  BY <1>9, <1>10, ShapedFrame
<1> QED
  BY <1>5, <1>6, <1>7, <1>8, <1>11 DEF TypeOK, TypesOK, BulkItem, tables

LEMMA RecordType ==
  ASSUME TypeOK, NEW c \in Clients, Record(c)
  PROVE  TypeOK'
<1> DEFINE stamped(o) == IF Req(c).op \in {"create", "return"} /\ writes[c][o] # None
                         THEN [writes[c][o] EXCEPT !.at = now]
                         ELSE writes[c][o]
<1>1. writes' = [writes EXCEPT ![c] = [o \in Orders |-> stamped(o)]] /\ pc[c] = "record"
  BY DEF Record
<1>2. ASSUME NEW o \in Orders
      PROVE  /\ stamped(o) \in Effect \union {None}
             /\ stamped(o) # None <=> writes[c][o] # None
             /\ writes[c][o] # None => /\ stamped(o).action = writes[c][o].action
                                       /\ stamped(o).row = writes[c][o].row
  <2>1. CASE writes[c][o] = None
    BY <2>1
  <2>2. CASE writes[c][o] # None
    <3>1. writes[c][o] \in Effect /\ now \in Nat
      BY <2>2 DEF TypeOK, TypesOK
    <3>2. /\ [writes[c][o] EXCEPT !.at = now] \in Effect
          /\ [writes[c][o] EXCEPT !.at = now].action = writes[c][o].action
          /\ [writes[c][o] EXCEPT !.at = now].row = writes[c][o].row
      BY <3>1 DEF Effect
    <3> QED
      BY <2>2, <3>1, <3>2, NoneIsApart
  <2> QED
    BY <2>1, <2>2
<1> HIDE DEF stamped
<1>3. /\ writes' \in [Clients -> [Orders -> Effect \union {None}]]
      /\ \A o \in Orders : writes'[c][o] = stamped(o)
      /\ \A d \in Clients \ {c} : writes'[d] = writes[d]
  BY <1>1, <1>2 DEF TypeOK, TypesOK
<1>4. /\ pc' \in [Clients -> PCs] /\ pc'[c] = "commit"
      /\ \A d \in Clients \ {c} : pc'[d] = pc[d]
  BY DEF Record, Goto, TypeOK, TypesOK, PCs
<1>5. Shaped(c)'
  <2>1. Shaped(c) /\ tx'[c] = tx[c] /\ tx[c].todo \subseteq Orders
    BY DEF TypeOK, TypesOK, TxType, Record
  <2>2. tx'[c].req \in Requests
    BY <1>1, <2>1 DEF Shaped
  <2>3. \A o \in tx'[c].todo : writes'[c][o] # None
    BY <1>2, <1>3, <2>1 DEF Shaped
  <2>4. \A o \in Orders : writes'[c][o] # None =>
          (writes'[c][o].action = "ORDER_CREATED" => writes'[c][o].row # None)
    BY <1>2, <1>3, <2>1 DEF Shaped
  <2>5. tx'[c].req.op = "update" =>
          tx'[c].item <= Len(tx'[c].req.ids) /\ \E o \in Orders : writes'[c][o] # None
    BY <1>1, <1>2, <1>3, <2>1 DEF Shaped
  <2> QED
    BY <1>4, <2>2, <2>3, <2>4, <2>5 DEF Shaped
<1>6. \A d \in Clients : Shaped(d)'
  BY <1>3, <1>4, <1>5, ShapedFrame DEF Record
<1> QED
  BY <1>3, <1>4, <1>6 DEF TypeOK, TypesOK, Record, tables

\* What a commit does to the tables.
LEMMA ApplyType ==
  ASSUME TypeOK, NEW c \in Clients, pc[c] = "commit", Apply(c)
  PROVE  /\ orders' \in [Orders -> Row \union {None}]
         /\ history' \in [Orders -> Seq(HistoryEntry)]
         /\ returns' \in [Orders -> Seq(ReturnEntry)]
         /\ audit' \in [Orders -> Seq(AuditEntry)]
<1>1. ASSUME NEW o \in Orders, writes[c][o] # None
      PROVE  /\ writes[c][o] \in Effect
             /\ writes[c][o].row \in Row \union {None}
             /\ AuditOf(writes[c][o]) \in AuditEntry
             /\ writes[c][o].row # None =>
                  /\ HistoryOf(writes[c][o]) \in HistoryEntry
                  /\ [user |-> Req(c).user, at |-> writes[c][o].at] \in ReturnEntry
  <2>1. writes[c][o] \in Effect
    BY <1>1 DEF TypeOK, TypesOK
  <2>2. writes[c][o].row \in Row \union {None}
    BY <2>1 DEF Effect
  <2>3. writes[c][o].action = "ORDER_CREATED" => writes[c][o].row # None
    BY <1>1 DEF TypeOK, Shaped
  <2>4. AuditOf(writes[c][o]) \in AuditEntry
    BY <2>1, <2>2, <2>3 DEF AuditOf, AuditEntry, Effect, Row
  <2>5. writes[c][o].row # None =>
          /\ HistoryOf(writes[c][o]) \in HistoryEntry
          /\ [user |-> Req(c).user, at |-> writes[c][o].at] \in ReturnEntry
    BY <2>1, <2>2, RequestOf DEF HistoryOf, HistoryEntry, ReturnEntry, Effect, Row, RequestType
  <2> QED
    BY <2>1, <2>2, <2>4, <2>5
<1>2. orders' \in [Orders -> Row \union {None}]
  BY <1>1 DEF Apply, Hits, TypeOK, TypesOK
<1>3. history' \in [Orders -> Seq(HistoryEntry)]
  <2> SUFFICES ASSUME NEW o \in Orders PROVE history'[o] \in Seq(HistoryEntry)
    BY DEF Apply
  <2>1. history[o] \in Seq(HistoryEntry)
    BY DEF TypeOK, TypesOK
  <2>2. \/ history'[o] = history[o]
        \/ history'[o] = <<>>
        \/ /\ writes[c][o] # None /\ writes[c][o].row # None
           /\ history'[o] = Append(history[o], HistoryOf(writes[c][o]))
    BY DEF Apply, Hits
  <2>3. CASE /\ writes[c][o] # None /\ writes[c][o].row # None
             /\ history'[o] = Append(history[o], HistoryOf(writes[c][o]))
    <3>1. HistoryOf(writes[c][o]) \in HistoryEntry
      BY <1>1, <2>3
    <3> DEFINE entry == HistoryOf(writes[c][o])
    <3>2. entry \in HistoryEntry /\ history'[o] = Append(history[o], entry)
      BY <2>3, <3>1
    <3> HIDE DEF entry
    <3> QED
      BY <2>1, <3>2
  <2>4. CASE history'[o] = history[o]
    BY <2>1, <2>4
  <2>5. CASE history'[o] = <<>>
    BY <2>5
  <2> QED
    BY <2>2, <2>3, <2>4, <2>5
<1>4. returns' \in [Orders -> Seq(ReturnEntry)]
  BY <1>1 DEF Apply, Hits, TypeOK, TypesOK
<1>5. audit' \in [Orders -> Seq(AuditEntry)]
  <2> SUFFICES ASSUME NEW o \in Orders PROVE audit'[o] \in Seq(AuditEntry)
    BY DEF Apply
  <2>1. audit[o] \in Seq(AuditEntry)
    BY DEF TypeOK, TypesOK
  <2>2. \/ audit'[o] = audit[o]
        \/ writes[c][o] # None /\ audit'[o] = Append(audit[o], AuditOf(writes[c][o]))
    BY DEF Apply, Audits
  <2>3. CASE writes[c][o] # None /\ audit'[o] = Append(audit[o], AuditOf(writes[c][o]))
    <3>1. AuditOf(writes[c][o]) \in AuditEntry
      BY <1>1, <2>3
    <3> DEFINE entry == AuditOf(writes[c][o])
    <3>2. entry \in AuditEntry /\ audit'[o] = Append(audit[o], entry)
      BY <2>3, <3>1
    <3> HIDE DEF entry
    <3> QED
      BY <2>1, <3>2
  <2> QED
    BY <2>1, <2>2, <2>3
<1> QED
  BY <1>2, <1>3, <1>4, <1>5

LEMMA CommitType ==
  ASSUME TypeOK, NEW c \in Clients, Commit(c)
  PROVE  TypeOK'
<1>1. pc[c] = "commit" /\ Req(c) \in Requests
  BY RequestOf DEF Commit
<1>2. /\ orders' \in [Orders -> Row \union {None}]
      /\ history' \in [Orders -> Seq(HistoryEntry)]
      /\ returns' \in [Orders -> Seq(ReturnEntry)]
      /\ audit' \in [Orders -> Seq(AuditEntry)]
      /\ lock' \in [Orders -> Clients \union {None}]
  BY ApplyType, UnlockType DEF Commit, TypeOK
<1>3. /\ pc' \in [Clients -> PCs]
      /\ tx' \in [Clients -> TxType]
      /\ writes' \in [Clients -> [Orders -> Effect \union {None}]]
      /\ answered' \in [Orders -> Nat]
      /\ \A d \in Clients : Shaped(d)'
  <2>1. CASE Goto(c, "cache") /\ tx' = [tx EXCEPT ![c].todo = Touched(c)]
             /\ UNCHANGED <<writes, answered>>
    <3>1. /\ pc' \in [Clients -> PCs] /\ pc'[c] = "cache"
          /\ \A d \in Clients \ {c} : pc'[d] = pc[d]
      BY <2>1 DEF Goto, TypeOK, TypesOK, PCs
    <3>2. /\ tx' \in [Clients -> TxType]
          /\ tx'[c].req = tx[c].req /\ tx'[c].todo = Touched(c)
          /\ \A d \in Clients \ {c} : tx'[d] = tx[d]
      BY <2>1 DEF Touched, TypeOK, TypesOK, TxType
    <3>3. Shaped(c)'
      BY <1>1, <2>1, <3>1, <3>2 DEF TypeOK, Shaped, Touched
    <3>4. \A d \in Clients : Shaped(d)'
      BY <2>1, <3>1, <3>2, <3>3, ShapedFrame
    <3> QED
      BY <2>1, <3>1, <3>2, <3>4 DEF TypeOK, TypesOK
  <2>2. CASE /\ Req(c).op = "update" /\ Touched(c) = {}
             /\ Goto(c, "set") /\ UNCHANGED <<tx, writes, answered>>
    <3>1. /\ pc' \in [Clients -> PCs] /\ pc'[c] = "set"
          /\ \A d \in Clients \ {c} : pc'[d] = pc[d]
      BY <2>2 DEF Goto, TypeOK, TypesOK, PCs
    <3>2. Shaped(c)'
      BY <1>1, <2>2, <3>1 DEF TypeOK, Shaped, Touched, Req
    <3>3. \A d \in Clients : Shaped(d)'
      BY <2>2, <3>1, <3>2, ShapedFrame
    <3> QED
      BY <2>2, <3>1, <3>3 DEF TypeOK, TypesOK
  <2>3. CASE Finish(c, {})
    BY <2>3, FinishType
  <2> QED
    BY <2>1, <2>2, <2>3 DEF Commit, AfterCommit
<1> QED
  BY <1>2, <1>3 DEF TypeOK, TypesOK, Commit

LEMMA CommitFailsType ==
  ASSUME TypeOK, NEW c \in Clients, CommitFails(c)
  PROVE  TypeOK'
<1>1. /\ pc' \in [Clients -> PCs]
      /\ tx' \in [Clients -> TxType]
      /\ writes' \in [Clients -> [Orders -> Effect \union {None}]]
      /\ answered' \in [Orders -> Nat]
      /\ \A d \in Clients : Shaped(d)'
  BY FinishType DEF CommitFails
<1>2. lock' \in [Orders -> Clients \union {None}]
  BY UnlockType DEF CommitFails, TypeOK
<1> QED
  BY <1>1, <1>2 DEF TypeOK, TypesOK, CommitFails, tables

LEMMA CommitAckLostType ==
  ASSUME TypeOK, NEW c \in Clients, CommitAckLost(c)
  PROVE  TypeOK'
<1>1. /\ pc' \in [Clients -> PCs]
      /\ tx' \in [Clients -> TxType]
      /\ writes' \in [Clients -> [Orders -> Effect \union {None}]]
      /\ answered' \in [Orders -> Nat]
      /\ \A d \in Clients : Shaped(d)'
  BY FinishType DEF CommitAckLost
<1>2. /\ orders' \in [Orders -> Row \union {None}]
      /\ history' \in [Orders -> Seq(HistoryEntry)]
      /\ returns' \in [Orders -> Seq(ReturnEntry)]
      /\ audit' \in [Orders -> Seq(AuditEntry)]
      /\ lock' \in [Orders -> Clients \union {None}]
  BY ApplyType, UnlockType DEF CommitAckLost, TypeOK
<1> QED
  BY <1>1, <1>2 DEF TypeOK, TypesOK, CommitAckLost

LEMMA UpdateCacheType ==
  ASSUME TypeOK, NEW c \in Clients, UpdateCache(c)
  PROVE  TypeOK'
<1>1. PICK o \in tx[c].todo :
        /\ CachePut(o, writes[c][o].row)
        /\ \/ Finish(c, Confirmed(c))
           \/ /\ tx' = [tx EXCEPT ![c].todo = tx[c].todo \ {o}]
              /\ UNCHANGED <<pc, writes, answered>>
  BY DEF UpdateCache
<1>2. o \in Orders /\ writes[c][o] \in Effect
  BY DEF TypeOK, TypesOK, TxType, Shaped
<1>3. cache' \in [Orders -> Row \union {None}]
  BY <1>1, <1>2, CachePutType DEF Effect, TypeOK
<1>4. /\ pc' \in [Clients -> PCs]
      /\ tx' \in [Clients -> TxType]
      /\ writes' \in [Clients -> [Orders -> Effect \union {None}]]
      /\ answered' \in [Orders -> Nat]
      /\ \A d \in Clients : Shaped(d)'
  <2>1. CASE Finish(c, Confirmed(c))
    BY <2>1, FinishType
  <2>2. CASE /\ tx' = [tx EXCEPT ![c].todo = tx[c].todo \ {o}]
             /\ UNCHANGED <<pc, writes, answered>>
    <3>1. /\ tx' \in [Clients -> TxType]
          /\ tx'[c].req = tx[c].req /\ tx'[c].todo = tx[c].todo \ {o}
          /\ \A d \in Clients \ {c} : tx'[d] = tx[d]
      BY <2>2 DEF TypeOK, TypesOK, TxType
    <3>2. Shaped(c)'
      BY <2>2, <3>1 DEF UpdateCache, TypeOK, Shaped
    <3>3. \A d \in Clients : Shaped(d)'
      BY <2>2, <3>1, <3>2, ShapedFrame
    <3> QED
      BY <2>2, <3>1, <3>3 DEF TypeOK, TypesOK
  <2> QED
    BY <1>1, <2>1, <2>2
<1> QED
  BY <1>3, <1>4 DEF TypeOK, TypesOK, UpdateCache, tables

LEMMA RestartType ==
  ASSUME TypeOK, Restart
  PROVE  TypeOK'
<1>1. cache' \in [Orders -> Row \union {None}] /\ lock' \in [Orders -> Clients \union {None}]
  BY DEF Restart, TypeOK, TypesOK
<1>2. NoTx \in TxType /\ NoWrites \in [Orders -> Effect \union {None}]
  BY DEF NoTx, TxType, NoWrites
<1>3. /\ pc' \in [Clients -> PCs]
      /\ tx' \in [Clients -> TxType]
      /\ writes' \in [Clients -> [Orders -> Effect \union {None}]]
  BY <1>2 DEF Restart, PCs
<1>4. \A d \in Clients : Shaped(d)'
  BY DEF Restart, Shaped, NoTx, NoWrites
<1> QED
  BY <1>1, <1>3, <1>4 DEF TypeOK, TypesOK, Restart, tables

LEMMA InitType == Init => TypeOK
<1> SUFFICES ASSUME Init PROVE TypeOK
  OBVIOUS
<1>1. NoTx \in TxType /\ NoWrites \in [Orders -> Effect \union {None}]
  BY DEF NoTx, TxType, NoWrites
<1>2. TypesOK
  BY <1>1 DEF Init, TypesOK, PCs
<1>3. \A c \in Clients : Shaped(c)
  BY DEF Init, Shaped, NoTx, NoWrites
<1> QED
  BY <1>2, <1>3 DEF TypeOK

LEMMA StepType == TypeOK /\ [Next]_vars => TypeOK'
<1> SUFFICES ASSUME TypeOK, [Next]_vars PROVE TypeOK'
  OBVIOUS
<1>1. ASSUME NEW c \in Clients, Start(c) PROVE TypeOK'
  BY <1>1, StartType
<1>2. ASSUME NEW c \in Clients, Proceed(c) PROVE TypeOK'
  BY <1>2, CacheHitType, CacheMissType, GetByIDType, FillCacheType, InsertOrderType,
     ChangeStatusType, DeleteRowType, ReturnOrderType, RefuseType, BulkItemType,
     RecordType, CommitType, UpdateCacheType DEF Proceed
<1>3. ASSUME NEW c \in Clients, Fail(c) PROVE TypeOK'
  BY <1>3, AbortType, CommitFailsType, CommitAckLostType DEF Fail, StatementFails
<1>4. ASSUME NEW c \in Clients, DeadlockAbort(c) PROVE TypeOK'
  BY <1>4, AbortType DEF DeadlockAbort
<1>5. CASE Restart
  BY <1>5, RestartType
<1>6. CASE Tick
  BY <1>6 DEF Tick, TypeOK, TypesOK, Shaped, tables
<1>7. CASE Done \/ UNCHANGED vars
  BY <1>7 DEF Done, vars, TypeOK, TypesOK, Shaped
<1> QED
  BY <1>1, <1>2, <1>3, <1>4, <1>5, <1>6, <1>7 DEF Next

\* Every reachable state is typed: rows, entries and effects have the fields
\* and values of the code's structs, and a request's variables (the order it
\* is at, the row it read, the effects of its transaction) fit its next call.
THEOREM TypeCorrect == Spec => []TypeOK
BY InitType, StepType, PTL DEF Spec

-----------------------------------------------------------------------------
(***************************************************************************)
(* PendingIsCurrent: the lock argument.  A client that ends a request or   *)
(* does not write yet has nothing pending; a client that writes holds the  *)
(* lock, so nobody else has anything pending on that order, and only the   *)
(* holder's commit changes the row.                                        *)
(***************************************************************************)

\* c leaves its transaction, with or without applying its effects, or was in
\* none; locks of the others stay.
LEMMA PendingLeave ==
  ASSUME TypeOK, PendingIsCurrent, NEW c \in Clients,
         \A d \in Clients \ {c} : writes'[d] = writes[d] /\ pc'[d] = pc[d],
         pc'[c] = "cache" \/ \A o \in Orders : writes'[c][o] = None,
         \A o \in Orders : lock[o] # c => lock'[o] = lock[o],
         \A o \in Orders : \/ orders'[o] = orders[o]
                           \/ pc[c] = "commit" /\ Hits(c, o)
  PROVE  PendingIsCurrent'
<1> SUFFICES ASSUME NEW d \in Clients, NEW o \in Orders, Hits(d, o)', pc'[d] # "cache"
             PROVE  lock'[o] = d /\ Legal(writes'[d][o], orders'[o])
  BY DEF PendingIsCurrent
<1>1. d # c
  BY DEF Hits
<1>2. Hits(d, o) /\ pc[d] # "cache" /\ writes'[d] = writes[d]
  BY <1>1 DEF Hits
<1>3. lock[o] = d /\ Legal(writes[d][o], orders[o])
  BY <1>2 DEF PendingIsCurrent
<1>4. lock'[o] = d
  BY <1>1, <1>3
<1>5. ~(pc[c] = "commit" /\ Hits(c, o))
  BY <1>1, <1>3 DEF PendingIsCurrent
<1> QED
  BY <1>2, <1>3, <1>4, <1>5

\* The end of a request that leaves the tables alone.
LEMMA PendingFinish ==
  ASSUME TypeOK, PendingIsCurrent, NEW c \in Clients, NEW oks, Finish(c, oks),
         Unlock(c) \/ UNCHANGED lock, UNCHANGED orders
  PROVE  PendingIsCurrent'
<1>1. \A d \in Clients \ {c} : writes'[d] = writes[d] /\ pc'[d] = pc[d]
  BY DEF Finish, TypeOK, TypesOK
<1>2. \A o \in Orders : writes'[c][o] = None
  BY DEF Finish, NoWrites, TypeOK, TypesOK
<1>3. \A o \in Orders : lock[o] # c => lock'[o] = lock[o]
  BY DEF Unlock
<1> QED
  BY <1>1, <1>2, <1>3, PendingLeave

LEMMA PendingAbort ==
  ASSUME TypeOK, PendingIsCurrent, NEW c \in Clients, Abort(c)
  PROVE  PendingIsCurrent'
BY PendingFinish DEF Abort, tables

\* Steps of c outside a transaction.
LEMMA PendingRead ==
  ASSUME TypeOK, PendingIsCurrent, NEW c \in Clients,
         Start(c) \/ CacheHit(c) \/ CacheMiss(c) \/ GetByID(c) \/ FillCache(c) \/ UpdateCache(c)
  PROVE  PendingIsCurrent'
<1>1. UNCHANGED <<orders, lock>>
  BY DEF Start, CacheHit, CacheMiss, GetByID, FillCache, UpdateCache, tables
<1>2. CASE \E oks : Finish(c, oks)
  BY <1>1, <1>2, PendingFinish
<1>3. CASE UNCHANGED <<pc, writes>>
  BY <1>1, <1>3 DEF PendingIsCurrent, Hits
<1>4. CASE /\ pc[c] \in {"idle", "get", "fill", "set"}
           /\ \A d \in Clients \ {c} : pc'[d] = pc[d]
           /\ UNCHANGED writes
  <2>1. \A o \in Orders : writes'[c][o] = None
    BY <1>4 DEF TypeOK, Shaped
  <2> QED
    BY <1>1, <1>4, <2>1, PendingLeave
<1> QED
  <2>1. ASSUME NEW row, UseOrder(c, row), pc[c] \in {"get", "set"} PROVE PendingIsCurrent'
    BY <2>1, <1>2, <1>4 DEF UseOrder, TypeOK, TypesOK
  <2>2. CASE Start(c) \/ CacheMiss(c)
    BY <2>2, <1>4 DEF Start, CacheMiss, TypeOK, TypesOK
  <2>3. CASE CacheHit(c) \/ FillCache(c)
    BY <2>1, <2>3 DEF CacheHit, FillCache
  <2>4. CASE GetByID(c)
    BY <2>4, <1>2, <1>4 DEF GetByID, TypeOK, TypesOK
  <2>5. CASE UpdateCache(c)
    BY <2>5, <1>2, <1>3 DEF UpdateCache
  <2> QED
    BY <2>2, <2>3, <2>4, <2>5

\* Commits, acknowledged or not.
LEMMA PendingCommit ==
  ASSUME TypeOK, PendingIsCurrent, NEW c \in Clients,
         Commit(c) \/ CommitFails(c) \/ CommitAckLost(c)
  PROVE  PendingIsCurrent'
<1>1. \A o \in Orders : lock[o] # c => lock'[o] = lock[o]
  BY DEF Commit, CommitFails, CommitAckLost, Unlock
<1>2. \A o \in Orders : \/ orders'[o] = orders[o]
                        \/ pc[c] = "commit" /\ Hits(c, o)
  BY DEF Commit, CommitFails, CommitAckLost, Apply, tables
<1>3. CASE \E oks : Finish(c, oks)
  <2>1. \A d \in Clients \ {c} : writes'[d] = writes[d] /\ pc'[d] = pc[d]
    BY <1>3 DEF Finish, TypeOK, TypesOK
  <2>2. \A o \in Orders : writes'[c][o] = None
    BY <1>3 DEF Finish, NoWrites, TypeOK, TypesOK
  <2> QED
    BY <1>1, <1>2, <2>1, <2>2, PendingLeave
<1>4. CASE UNCHANGED writes /\ (Goto(c, "cache") \/ (Goto(c, "set") /\ Touched(c) = {}))
  <2>1. \A d \in Clients \ {c} : writes'[d] = writes[d] /\ pc'[d] = pc[d]
    BY <1>4 DEF Goto, TypeOK, TypesOK
  <2>2. pc'[c] = "cache" \/ \A o \in Orders : writes'[c][o] = None
    BY <1>4 DEF Goto, Touched, TypeOK, TypesOK
  <2> QED
    BY <1>1, <1>2, <2>1, <2>2, PendingLeave
<1>5. \/ \E oks : Finish(c, oks)
      \/ UNCHANGED writes /\ (Goto(c, "cache") \/ (Goto(c, "set") /\ Touched(c) = {}))
  <2>1. CASE Commit(c)
    BY <2>1 DEF Commit, AfterCommit
  <2>2. CASE CommitFails(c)
    BY <2>2 DEF CommitFails
  <2>3. CASE CommitAckLost(c)
    BY <2>3 DEF CommitAckLost
  <2> QED
    BY <2>1, <2>2, <2>3
<1> QED
  BY <1>3, <1>4, <1>5

\* A statement of c that writes o, or only locks it.  Nobody else holds the
\* lock of o if c takes it; effects c had before are as before.
LEMMA PendingWrite ==
  ASSUME TypeOK, PendingIsCurrent, NEW c \in Clients, NEW o \in Orders, UNCHANGED orders,
         pc[c] # "cache",
         \A d \in Clients \ {c} : writes'[d] = writes[d] /\ pc'[d] = pc[d],
         \A p \in Orders \ {o} : writes'[c][p] = writes[c][p] /\ lock'[p] = lock[p],
         lock'[o] = lock[o] \/ (~Blocked(c, o) /\ lock'[o] = c),
         \/ writes'[c][o] = writes[c][o]
         \/ ~Hits(c, o)'
         \/ lock'[o] = c /\ Legal(writes'[c][o], orders[o])
  PROVE  PendingIsCurrent'
<1> SUFFICES ASSUME NEW d \in Clients, NEW p \in Orders, Hits(d, p)', pc'[d] # "cache"
             PROVE  lock'[p] = d /\ Legal(writes'[d][p], orders[p])
  BY DEF PendingIsCurrent
<1>1. CASE d # c
  <2>1. Hits(d, p) /\ pc[d] # "cache" /\ writes'[d] = writes[d]
    BY <1>1 DEF Hits
  <2>2. lock[p] = d /\ Legal(writes[d][p], orders[p])
    BY <2>1 DEF PendingIsCurrent
  <2>3. lock'[p] = d
    BY <1>1, <2>2, NoneIsApart DEF Blocked
  <2> QED
    BY <2>1, <2>2, <2>3
<1>2. CASE d = c /\ writes'[c][p] = writes[c][p]
  <2>1. Hits(c, p)
    BY <1>2 DEF Hits
  <2>2. lock[p] = c /\ Legal(writes[c][p], orders[p])
    BY <2>1 DEF PendingIsCurrent
  <2> QED
    BY <1>2, <2>2
<1>3. CASE d = c /\ p = o /\ writes'[c][o] # writes[c][o]
  BY <1>3
<1> QED
  BY <1>1, <1>2, <1>3

\* The same for the single operations.
LEMMA PendingWriteStep ==
  ASSUME TypeOK, PendingIsCurrent, NEW c \in Clients, pc[c] = "lock", NEW o \in Orders,
         NEW e, Write(c, o, e), Goto(c, "record"), UNCHANGED orders,
         e.hit \in BOOLEAN,
         e.hit => ~Blocked(c, o) /\ Legal(e, orders[o])
  PROVE  PendingIsCurrent'
<1>1. /\ writes'[c][o] = e
      /\ \A p \in Orders \ {o} : writes'[c][p] = writes[c][p] /\ lock'[p] = lock[p]
      /\ \A d \in Clients \ {c} : writes'[d] = writes[d] /\ pc'[d] = pc[d]
      /\ lock'[o] = IF e.hit THEN c ELSE lock[o]
  BY DEF Write, Goto, TypeOK, TypesOK
<1>2. \/ ~Hits(c, o)'
      \/ lock'[o] = c /\ Legal(writes'[c][o], orders[o])
  BY <1>1 DEF Hits
<1>3. lock'[o] = lock[o] \/ (~Blocked(c, o) /\ lock'[o] = c)
  BY <1>1
<1> QED
  BY <1>1, <1>2, <1>3, PendingWrite

LEMMA PendingInsert ==
  ASSUME TypeOK, PendingIsCurrent, NEW c \in Clients, InsertOrder(c)
  PROVE  PendingIsCurrent'
<1> DEFINE o == Target(c)
           row == [recipient |-> Req(c).user, until |-> Req(c).until,
                   status |-> "received", updated |-> tx[c].at]
           e == [action |-> "ORDER_CREATED", old |-> "", row |-> row, at |-> now, hit |-> TRUE]
<1>1. RequestType(Req(c)) /\ o \in Orders /\ pc[c] = "lock" /\ orders[o] = None /\ ~Blocked(c, o)
  BY TargetType DEF InsertOrder
<1>2. row # None
  BY <1>1, NoneIsApart DEF RequestType, Row, Statuses, TypeOK, TypesOK, TxType
<1>3. Legal(e, orders[o])
  BY <1>1, <1>2 DEF Legal, ReturnActions
<1>4. Write(c, o, e) /\ Goto(c, "record") /\ UNCHANGED orders /\ e.hit
  BY DEF InsertOrder, tables
<1> HIDE DEF e, o
<1> QED
  BY <1>1, <1>3, <1>4, PendingWriteStep

LEMMA PendingChangeStatus ==
  ASSUME TypeOK, PendingIsCurrent, NEW c \in Clients, ChangeStatus(c)
  PROVE  PendingIsCurrent'
<1> DEFINE o == Target(c)
           row == orders[o]
           status == Req(c).status
           e == [action |-> "STATUS_UPDATED", old |-> row.status,
                 row |-> Changed(row, status, now), at |-> now, hit |-> TRUE]
<1>1. /\ RequestType(Req(c)) /\ o \in Orders /\ pc[c] = "lock"
      /\ row # None /\ row \in Row /\ now \in Nat /\ ~Blocked(c, o) /\ UNCHANGED orders
  BY TargetType DEF ChangeStatus, TypeOK, TypesOK, tables
<1>2. CASE row.status = status
  <2>1. lock' = [lock EXCEPT ![o] = c] /\ pc' = [pc EXCEPT ![c] = "commit"] /\ UNCHANGED writes
    BY <1>2 DEF ChangeStatus, SameStatus, Goto
  <2>2. /\ \A p \in Orders \ {o} : lock'[p] = lock[p]
        /\ \A d \in Clients \ {c} : pc'[d] = pc[d]
        /\ lock'[o] = c
    BY <1>1, <2>1 DEF TypeOK, TypesOK
  <2> HIDE DEF o
  <2> QED
    BY <1>1, <2>1, <2>2, PendingWrite
<1>3. CASE row.status # status
  <2>1. /\ Changed(row, status, now).status = status
        /\ Changed(row, status, now).updated = now
    BY <1>1, ChangedType DEF RequestType
  <2>2. Legal(e, orders[o])
    BY <1>1, <1>3, <2>1 DEF Legal, ReturnActions
  <2>3. Write(c, o, e) /\ Goto(c, "record") /\ e.hit
    BY <1>3 DEF ChangeStatus, SameStatus
  <2> HIDE DEF e, o
  <2> QED
    BY <1>1, <2>2, <2>3, PendingWriteStep
<1> QED
  BY <1>2, <1>3

LEMMA PendingDelete ==
  ASSUME TypeOK, PendingIsCurrent, NEW c \in Clients, DeleteRow(c)
  PROVE  PendingIsCurrent'
<1> DEFINE o == Target(c)
           e == [action |-> "ORDER_DELETED", old |-> "", row |-> None,
                 at |-> now, hit |-> orders[o] # None]
<1>1. o \in Orders /\ pc[c] = "lock" /\ (orders[o] = None \/ ~Blocked(c, o)) /\ UNCHANGED orders
  BY TargetType DEF DeleteRow, tables
<1>2. e.hit \in BOOLEAN /\ (e.hit => ~Blocked(c, o) /\ Legal(e, orders[o]))
  BY <1>1 DEF Legal, ReturnActions
<1>3. Write(c, o, e) /\ Goto(c, "record")
  BY DEF DeleteRow
<1> HIDE DEF e, o
<1> QED
  BY <1>1, <1>2, <1>3, PendingWriteStep

LEMMA PendingReturn ==
  ASSUME TypeOK, PendingIsCurrent, NEW c \in Clients, ReturnOrder(c)
  PROVE  PendingIsCurrent'
<1> DEFINE o == Target(c)
           row == orders[o]
           e == [action |-> "ORDER_RETURNED", old |-> row.status,
                 row |-> Changed(row, "returned", now), at |-> now, hit |-> TRUE]
<1>1. /\ o \in Orders /\ pc[c] = "lock" /\ row # None /\ row \in Row /\ now \in Nat
      /\ ~Blocked(c, o) /\ MayReturn(row, Req(c).user, now) /\ UNCHANGED orders
  BY TargetType DEF ReturnOrder, TypeOK, TypesOK, tables
<1>2. Changed(row, "returned", now).status = "returned" /\ Changed(row, "returned", now).updated = now
  BY <1>1, ChangedType DEF Statuses
<1>3. Legal(e, orders[o])
  BY <1>1, <1>2 DEF Legal, ReturnActions, MayReturn
<1>4. Write(c, o, e) /\ Goto(c, "record") /\ e.hit
  BY DEF ReturnOrder
<1> HIDE DEF e, o
<1> QED
  BY <1>1, <1>3, <1>4, PendingWriteStep

\* An item that c has changed before is refused when its id comes again: its
\* effects are those of rows that nobody has touched.
LEMMA PendingBulkItem ==
  ASSUME TypeOK, PendingIsCurrent, NEW c \in Clients, BulkItem(c)
  PROVE  PendingIsCurrent'
<1> DEFINE o == Target(c)
           row == IF writes[c][o] # None THEN writes[c][o].row ELSE orders[o]
           e == BulkEffect(c, row)
<1>1. /\ o \in Orders /\ pc[c] = "lock" /\ Req(c).op \in BulkOps
      /\ row = None \/ ~Blocked(c, o)
      /\ lock' = [lock EXCEPT ![o] = IF row # None THEN c ELSE lock[o]]
      /\ UNCHANGED orders
  BY TargetType DEF BulkItem, tables
<1>2. \A d \in Clients \ {c} : writes'[d] = writes[d] /\ pc'[d] = pc[d]
  BY <1>1 DEF BulkItem, Goto, TypeOK, TypesOK
<1>3. /\ \A p \in Orders \ {o} : writes'[c][p] = writes[c][p] /\ lock'[p] = lock[p]
      /\ lock'[o] = lock[o] \/ (~Blocked(c, o) /\ lock'[o] = c)
  BY <1>1 DEF BulkItem, TypeOK, TypesOK
<1>4. CASE row # None /\ Accepts(c, row)
  <2>1. writes[c][o] = None
    <3> SUFFICES ASSUME writes[c][o] # None PROVE FALSE
      OBVIOUS
    <3>1. row = writes[c][o].row
      OBVIOUS
    <3>2. row.status = IF Req(c).op = "issue" THEN "issued" ELSE "returned"
      BY <1>1, <3>1 DEF TypeOK, Shaped, Req
    <3> QED
      BY <1>1, <1>4, <3>2 DEF Accepts, MayIssue, MayReturn, BulkOps
  <2>2. row = orders[o] /\ row \in Row /\ tx[c].at \in Nat
    BY <1>1, <1>4, <2>1 DEF TypeOK, TypesOK, TxType
  <2>3. /\ Changed(row, "issued", tx[c].at).status = "issued"
        /\ Changed(row, "issued", tx[c].at).updated = tx[c].at
        /\ Changed(row, "returned", tx[c].at).status = "returned"
        /\ Changed(row, "returned", tx[c].at).updated = tx[c].at
    BY <2>2 DEF Changed, Row
  <2>4. Legal(e, orders[o])
    <3>1. CASE Req(c).op = "issue"
      BY <1>4, <2>2, <2>3, <3>1 DEF BulkEffect, Accepts, MayIssue, Legal, ReturnActions
    <3>2. CASE Req(c).op = "accept"
      BY <1>4, <2>2, <2>3, <3>2 DEF BulkEffect, Accepts, MayReturn, Legal, ReturnActions
    <3> QED
      BY <1>1, <3>1, <3>2 DEF BulkOps
  <2>5. writes'[c][o] = e /\ lock'[o] = c
    BY <1>1, <1>4 DEF BulkItem, TypeOK, TypesOK
  <2> HIDE DEF e, o
  <2> QED
    BY <1>1, <1>2, <1>3, <2>4, <2>5, PendingWrite
<1>5. CASE ~(row # None /\ Accepts(c, row))
  <2>1. UNCHANGED writes
    BY <1>5 DEF BulkItem
  <2> HIDE DEF o
  <2> QED
    BY <1>1, <1>2, <1>3, <2>1, PendingWrite
<1> QED
  BY <1>4, <1>5

\* The last clock reading changes neither action nor row of an effect.
LEMMA PendingRecord ==
  ASSUME TypeOK, PendingIsCurrent, NEW c \in Clients, Record(c)
  PROVE  PendingIsCurrent'
<1>1. \A d \in Clients \ {c} : writes'[d] = writes[d] /\ pc'[d] = pc[d]
  BY DEF Record, Goto, TypeOK, TypesOK
<1>2. UNCHANGED <<orders, lock>> /\ pc[c] = "record" /\ pc'[c] = "commit"
  BY DEF Record, Goto, tables, TypeOK, TypesOK
<1>3. ASSUME NEW o \in Orders, Hits(c, o)'
      PROVE  /\ Hits(c, o)
             /\ writes'[c][o].action = writes[c][o].action
             /\ writes'[c][o].row = writes[c][o].row
             /\ writes'[c][o].old = writes[c][o].old
  <2>1. \/ writes'[c][o] = writes[c][o]
        \/ writes[c][o] # None /\ writes'[c][o] = [writes[c][o] EXCEPT !.at = now]
    BY DEF Record, TypeOK, TypesOK
  <2>2. CASE writes'[c][o] = writes[c][o]
    BY <1>3, <2>2 DEF Hits
  <2>3. CASE writes[c][o] # None /\ writes'[c][o] = [writes[c][o] EXCEPT !.at = now]
    <3>1. writes[c][o] \in Effect
      BY <2>3 DEF TypeOK, TypesOK
    <3> QED
      BY <1>3, <2>3, <3>1 DEF Hits, Effect
  <2> QED
    BY <2>1, <2>2, <2>3
<1> SUFFICES ASSUME NEW d \in Clients, NEW o \in Orders, Hits(d, o)', pc'[d] # "cache"
             PROVE  lock[o] = d /\ Legal(writes'[d][o], orders[o])
  BY <1>2 DEF PendingIsCurrent
<1>4. CASE d # c
  BY <1>1, <1>4 DEF PendingIsCurrent, Hits
<1>5. CASE d = c
  <2>1. lock[o] = c /\ Legal(writes[c][o], orders[o])
    BY <1>2, <1>3, <1>5 DEF PendingIsCurrent
  <2> QED
    BY <1>3, <1>5, <2>1 DEF Legal
<1> QED
  BY <1>4, <1>5

LEMMA StepPending == TypeOK /\ PendingIsCurrent /\ [Next]_vars => PendingIsCurrent'
<1> SUFFICES ASSUME TypeOK, PendingIsCurrent, [Next]_vars PROVE PendingIsCurrent'
  OBVIOUS
<1>1. ASSUME NEW c \in Clients, Start(c) PROVE PendingIsCurrent'
  BY <1>1, PendingRead
<1>2. ASSUME NEW c \in Clients, Proceed(c) PROVE PendingIsCurrent'
  <2>1. CASE CacheHit(c) \/ CacheMiss(c) \/ GetByID(c) \/ FillCache(c) \/ UpdateCache(c)
    BY <2>1, PendingRead
  <2>2. CASE Commit(c)
    BY <2>2, PendingCommit
  <2>3. CASE Refuse(c)
    BY <2>3, PendingAbort DEF Refuse
  <2> QED
    BY <1>2, <2>1, <2>2, <2>3, PendingInsert, PendingChangeStatus, PendingDelete,
       PendingReturn, PendingBulkItem, PendingRecord DEF Proceed
<1>3. ASSUME NEW c \in Clients, Fail(c) PROVE PendingIsCurrent'
  BY <1>3, PendingAbort, PendingCommit DEF Fail, StatementFails
<1>4. ASSUME NEW c \in Clients, DeadlockAbort(c) PROVE PendingIsCurrent'
  BY <1>4, PendingAbort DEF DeadlockAbort
<1>5. CASE Restart
  BY <1>5 DEF Restart, PendingIsCurrent, Hits, NoWrites
<1>6. CASE Tick \/ Done \/ UNCHANGED vars
  BY <1>6 DEF Tick, Done, vars, tables, PendingIsCurrent, Hits
<1> QED
  BY <1>1, <1>2, <1>3, <1>4, <1>5, <1>6 DEF Next

\* The row locks do their work: whatever an open transaction is going to
\* write was computed from the row that is still committed when it commits,
\* and is a change the handlers allow on that row.
THEOREM PendingWritesAreCurrent == Spec => []PendingIsCurrent
<1>1. Init => PendingIsCurrent
  BY DEF Init, PendingIsCurrent, Hits, NoWrites
<1> QED
  BY <1>1, InitType, StepType, StepPending, PTL DEF Spec

-----------------------------------------------------------------------------
(***************************************************************************)
(* History: only commits change the tables, and a commit appends to the    *)
(* history of an order the status that it writes to the row.               *)
(***************************************************************************)
HistoryInv == HistoryTracksRow /\ NoRepeatedStatus

LEMMA HistoryFrame ==
  ASSUME HistoryInv, UNCHANGED tables
  PROVE  HistoryInv'
BY DEF HistoryInv, HistoryTracksRow, NoRepeatedStatus, tables

LEMMA HistoryApply ==
  ASSUME TypeOK, PendingIsCurrent, HistoryInv,
         NEW c \in Clients, pc[c] = "commit", Apply(c)
  PROVE  HistoryInv'
<1> DEFINE e(o) == writes[c][o]
<1>1. ASSUME NEW o \in Orders
      PROVE  /\ IF orders'[o] = None
                THEN history'[o] = <<>> /\ returns'[o] = <<>>
                ELSE history'[o] # <<>> /\ Last(history'[o]).status = orders'[o].status
             /\ \A i \in 1..(Len(history'[o]) - 1) :
                  history'[o][i].status # history'[o][i + 1].status
  <2>1. CASE ~Hits(c, o)
    <3>1. UNCHANGED <<orders[o], history[o], returns[o]>>
      BY <2>1 DEF Apply
    <3> QED
      BY <3>1 DEF HistoryInv, HistoryTracksRow, NoRepeatedStatus
  <2>2. CASE Hits(c, o) /\ e(o).row = None
    <3>1. orders'[o] = None /\ history'[o] = <<>> /\ returns'[o] = <<>>
      BY <2>2 DEF Apply
    <3> QED
      BY <3>1
  <2>3. CASE Hits(c, o) /\ e(o).row # None
    <3>1. orders'[o] = e(o).row /\ history'[o] = Append(history[o], HistoryOf(e(o)))
      BY <2>3 DEF Apply
    <3>2. e(o) \in Effect /\ e(o).action # "ORDER_DELETED" /\ Legal(e(o), orders[o])
      BY <2>3 DEF PendingIsCurrent, Legal, Hits, TypeOK, TypesOK
    <3> DEFINE h == history[o]
               entry == HistoryOf(e(o))
    <3>3. entry \in HistoryEntry /\ entry.status = e(o).row.status
      BY <2>3, <3>2 DEF HistoryOf, HistoryEntry, Effect, Row
    <3>4. h \in Seq(HistoryEntry)
      BY DEF TypeOK, TypesOK
    <3>5. \/ h = <<>>
          \/ h # <<>> /\ h[Len(h)].status # entry.status
      <4>1. CASE orders[o] = None
        BY <4>1 DEF HistoryInv, HistoryTracksRow
      <4>2. CASE orders[o] # None
        <5>1. h # <<>> /\ h[Len(h)].status = orders[o].status
          BY <4>2 DEF HistoryInv, HistoryTracksRow, Last
        <5>2. e(o).row.status # orders[o].status
          BY <3>2, <4>2 DEF Legal
        <5> QED
          BY <3>3, <5>1, <5>2
      <4> QED
        BY <4>1, <4>2
    <3>6. \A i \in 1..(Len(h) - 1) : h[i].status # h[i + 1].status
      BY DEF HistoryInv, NoRepeatedStatus
    <3> HIDE DEF h, entry
    <3>7. /\ Append(h, entry) # <<>>
          /\ Len(Append(h, entry)) = Len(h) + 1
          /\ Append(h, entry)[Len(h) + 1] = entry
          /\ \A i \in 1..Len(h) : Append(h, entry)[i] = h[i]
      BY <3>3, <3>4
    <3>8. history'[o] = Append(h, entry)
      BY <3>1 DEF h, entry
    <3>9. Last(history'[o]).status = orders'[o].status
      BY <3>1, <3>3, <3>4, <3>7, <3>8 DEF Last
    <3>10. ASSUME NEW i \in 1..(Len(history'[o]) - 1)
           PROVE  history'[o][i].status # history'[o][i + 1].status
      <4>1. i \in 1..Len(h) /\ Len(h) \in Nat
        BY <3>4, <3>7, <3>8
      <4>2. CASE i = Len(h)
        BY <3>4, <3>5, <3>7, <3>8, <4>1, <4>2
      <4>3. CASE i # Len(h)
        <5>1. i \in 1..(Len(h) - 1) /\ i + 1 \in 1..Len(h)
          BY <4>1, <4>3
        <5> QED
          BY <3>6, <3>7, <3>8, <4>1, <5>1
      <4> QED
        BY <4>2, <4>3
    <3> QED
      BY <2>3, <3>1, <3>7, <3>8, <3>9, <3>10
  <2> QED
    BY <2>1, <2>2, <2>3
<1> QED
  BY <1>1 DEF HistoryInv, HistoryTracksRow, NoRepeatedStatus

LEMMA StepHistory ==
  TypeOK /\ PendingIsCurrent /\ HistoryInv /\ [Next]_vars => HistoryInv'
<1> SUFFICES ASSUME TypeOK, PendingIsCurrent, HistoryInv, [Next]_vars PROVE HistoryInv'
  OBVIOUS
<1>1. ASSUME NEW c \in Clients, Commit(c) \/ CommitAckLost(c) PROVE HistoryInv'
  BY <1>1, HistoryApply DEF Commit, CommitAckLost
<1>2. ASSUME NEW c \in Clients, Start(c) \/ DeadlockAbort(c) PROVE HistoryInv'
  BY <1>2, HistoryFrame DEF Start, DeadlockAbort, Abort
<1>3. ASSUME NEW c \in Clients, Proceed(c), ~Commit(c) PROVE HistoryInv'
  <2>1. UNCHANGED tables
    BY <1>3 DEF Proceed, CacheHit, CacheMiss, GetByID, FillCache, InsertOrder, ChangeStatus,
       DeleteRow, ReturnOrder, Refuse, BulkItem, Record, UpdateCache, Abort
  <2> QED
    BY <2>1, HistoryFrame
<1>4. ASSUME NEW c \in Clients, Fail(c), ~CommitAckLost(c) PROVE HistoryInv'
  BY <1>4, HistoryFrame DEF Fail, StatementFails, CommitFails, Abort
<1>5. CASE Restart \/ Tick \/ Done \/ UNCHANGED vars
  <2>1. UNCHANGED tables
    BY <1>5 DEF Restart, Tick, Done, vars, tables
  <2> QED
    BY <2>1, HistoryFrame
<1> QED
  BY <1>1, <1>2, <1>3, <1>4, <1>5 DEF Next, Proceed, Fail

LEMMA HistoryHolds == Spec => [](HistoryTracksRow /\ NoRepeatedStatus)
<1>1. Init => HistoryInv
  BY DEF Init, HistoryInv, HistoryTracksRow, NoRepeatedStatus
<1>2. Init => PendingIsCurrent
  BY DEF Init, PendingIsCurrent, Hits, NoWrites
<1>3. HistoryInv <=> HistoryTracksRow /\ NoRepeatedStatus
  BY DEF HistoryInv
<1> QED
  BY <1>1, <1>2, <1>3, InitType, StepType, StepPending, StepHistory, PTL DEF Spec

\* Whatever happens to transactions, commits, answers and the process, the
\* history of a live order ends in the status of its row, and an order that
\* is gone leaves no history and no returns behind.
THEOREM HistoryFollowsRow == Spec => []HistoryTracksRow
BY HistoryHolds, PTL

\* No history ever repeats a status: a status check made under the row lock
\* cannot be overtaken by another transaction.
THEOREM HistoryNeverRepeats == Spec => []NoRepeatedStatus
BY HistoryHolds, PTL
=============================================================================
