---------------------------- MODULE OrderAuditProofs ---------------------------
(***************************************************************************)
(* The audit log, the history and the returns of an order tell the same    *)
(* story.                                                                  *)
(*                                                                         *)
(* They change only at commits, and a commit is a step of OrderLedger (the *)
(* step relation StepLedger of OrderLedgerProofs).  So what relates the    *)
(* tables is proved once, of the ledger's actions: first lemmas on what a  *)
(* task appended to a log does to its trail, then Linked, which is         *)
(* inductive for one order.                                                *)
(***************************************************************************)
EXTENDS OrderLedgerProofs, FiniteSetTheorems

-----------------------------------------------------------------------------
(***************************************************************************)
(* Trails.                                                                 *)
(***************************************************************************)

\* A trail is a finite set of places in the log, numbered from 1 on.
LEMMA TrailCounts ==
  ASSUME NEW log \in Seq(AuditEntry)
  PROVE  /\ Trail(log) \subseteq 1..Len(log)
         /\ IsFiniteSet(Trail(log)) /\ Cardinality(Trail(log)) \in Nat
         /\ \A j \in Trail(log) : Place(log, j) \in 1..Cardinality(Trail(log))
<1>1. Trail(log) \subseteq 1..Len(log) /\ Len(log) \in Nat
  BY DEF Trail
<1>2. IsFiniteSet(1..Len(log))
  BY <1>1, FS_Interval
<1>3. IsFiniteSet(Trail(log)) /\ Cardinality(Trail(log)) \in Nat
  BY <1>1, <1>2, FS_Subset, FS_CardinalityType
<1>4. ASSUME NEW j \in Trail(log) PROVE Place(log, j) \in 1..Cardinality(Trail(log))
  <2>1. PICK upto : upto = {k \in Trail(log) : k <= j}
    OBVIOUS
  <2>2. upto \in SUBSET Trail(log) /\ j \in upto
    BY <1>1, <2>1
  <2>3. IsFiniteSet(upto) /\ Cardinality(upto) <= Cardinality(Trail(log))
    BY <1>3, <2>2, FS_Subset
  <2>4. Cardinality(upto) \in Nat /\ Cardinality(upto) # 0
    BY <2>2, <2>3, FS_CardinalityType, FS_EmptySet
  <2> QED
    BY <1>3, <2>1, <2>3, <2>4 DEF Place
<1> QED
  BY <1>1, <1>3, <1>4

\* A task appended to a log.
LEMMA AppendedTask ==
  ASSUME NEW log \in Seq(AuditEntry), NEW a \in AuditEntry
  PROVE  /\ Append(log, a) \in Seq(AuditEntry)
         /\ Len(Append(log, a)) = Len(log) + 1
         /\ Append(log, a)[Len(log) + 1] = a
         /\ \A j \in 1..Len(log) : Append(log, a)[j] = log[j]
         /\ DOMAIN Append(log, a) = 1..(Len(log) + 1) /\ DOMAIN log = 1..Len(log)
         /\ Len(log) \in Nat
OBVIOUS

\* A change of status prolongs the trail by its own place and moves no other.
LEMMA TrailGrows ==
  ASSUME NEW log \in Seq(AuditEntry), NEW a \in AuditEntry,
         a.action \notin {"ORDER_CREATED", "ORDER_DELETED"}
  PROVE  /\ Trail(Append(log, a)) = Trail(log) \union {Len(log) + 1}
         /\ Cardinality(Trail(Append(log, a))) = Cardinality(Trail(log)) + 1
         /\ \A j \in Trail(log) : Place(Append(log, a), j) = Place(log, j)
         /\ Place(Append(log, a), Len(log) + 1) = Cardinality(Trail(log)) + 1
<1>1. PICK long : long = Append(log, a)
  OBVIOUS
<1>2. /\ Len(long) = Len(log) + 1 /\ Len(log) \in Nat
      /\ long[Len(log) + 1] = a
      /\ \A j \in 1..Len(log) : long[j] = log[j]
      /\ DOMAIN long = 1..(Len(log) + 1) /\ DOMAIN log = 1..Len(log)
  BY <1>1, AppendedTask
<1>3. Trail(log) \subseteq 1..Len(log) /\ IsFiniteSet(Trail(log))
  BY TrailCounts
<1>4. Trail(long) = Trail(log) \union {Len(log) + 1}
  <2>1. ASSUME NEW j \in 1..Len(log) PROVE j \in Trail(long) <=> j \in Trail(log)
    <3>1. (\A k \in DOMAIN long : k > j => long[k].action # "ORDER_CREATED")
            <=> (\A k \in DOMAIN log : k > j => log[k].action # "ORDER_CREATED")
      BY <1>2
    <3> QED
      BY <1>2, <3>1 DEF Trail
  <2>2. Len(log) + 1 \in Trail(long)
    BY <1>2 DEF Trail
  <2>3. Trail(long) \subseteq 1..(Len(log) + 1)
    BY <1>2 DEF Trail
  <2> QED
    BY <1>2, <1>3, <2>1, <2>2, <2>3
<1>5. Len(log) + 1 \notin Trail(log)
  BY <1>2, <1>3
<1>6. Cardinality(Trail(long)) = Cardinality(Trail(log)) + 1
  BY <1>3, <1>4, <1>5, FS_AddElement
<1>7. ASSUME NEW j \in Trail(log) PROVE Place(long, j) = Place(log, j)
  <2>1. {k \in Trail(long) : k <= j} = {k \in Trail(log) : k <= j}
    BY <1>2, <1>3, <1>4
  <2> QED
    BY <2>1 DEF Place
<1>8. Place(long, Len(log) + 1) = Cardinality(Trail(long))
  <2>1. {k \in Trail(long) : k <= Len(log) + 1} = Trail(long)
    BY <1>2, <1>3, <1>4
  <2> QED
    BY <2>1 DEF Place
<1> QED
  BY <1>1, <1>4, <1>6, <1>7, <1>8

\* A removal that found nothing leaves no trail.
LEMMA TrailKeeps ==
  ASSUME NEW log \in Seq(AuditEntry), NEW a \in AuditEntry, a.action = "ORDER_DELETED"
  PROVE  /\ Trail(Append(log, a)) = Trail(log)
         /\ \A j \in Trail(log) : Place(Append(log, a), j) = Place(log, j)
<1>1. PICK long : long = Append(log, a)
  OBVIOUS
<1>2. /\ Len(long) = Len(log) + 1 /\ Len(log) \in Nat
      /\ long[Len(log) + 1] = a
      /\ \A j \in 1..Len(log) : long[j] = log[j]
      /\ DOMAIN long = 1..(Len(log) + 1) /\ DOMAIN log = 1..Len(log)
  BY <1>1, AppendedTask
<1>3. ASSUME NEW j \in 1..Len(log) PROVE j \in Trail(long) <=> j \in Trail(log)
  <2>1. (\A k \in DOMAIN long : k > j => long[k].action # "ORDER_CREATED")
          <=> (\A k \in DOMAIN log : k > j => log[k].action # "ORDER_CREATED")
    BY <1>2
  <2> QED
    BY <1>2, <2>1 DEF Trail
<1>4. Trail(long) \subseteq 1..Len(log) /\ Trail(log) \subseteq 1..Len(log)
  BY <1>2 DEF Trail
<1>5. Trail(long) = Trail(log)
  BY <1>3, <1>4
<1> QED
  BY <1>1, <1>5 DEF Place

\* A creation starts a trail of its own.
LEMMA TrailStarts ==
  ASSUME NEW log \in Seq(AuditEntry), NEW a \in AuditEntry, a.action = "ORDER_CREATED"
  PROVE  /\ Trail(Append(log, a)) = {Len(log) + 1}
         /\ Place(Append(log, a), Len(log) + 1) = 1
<1>1. PICK long : long = Append(log, a)
  OBVIOUS
<1>2. /\ Len(long) = Len(log) + 1 /\ Len(log) \in Nat
      /\ long[Len(log) + 1] = a
      /\ DOMAIN long = 1..(Len(log) + 1)
  BY <1>1, AppendedTask
<1>3. Trail(long) = {Len(log) + 1}
  BY <1>2 DEF Trail
<1>4. {k \in Trail(long) : k <= Len(log) + 1} = {Len(log) + 1}
  BY <1>2, <1>3
<1>5. Place(long, Len(log) + 1) = 1
  BY <1>4, FS_Singleton DEF Place
<1> QED
  BY <1>1, <1>3, <1>5

-----------------------------------------------------------------------------
(***************************************************************************)
(* One order: its log tells its history.                                   *)
(***************************************************************************)

\* A task and the entry of the history that it tells of, the i-th.
Told(task, entries, i, until) ==
  IF i = 1 THEN task.action = "ORDER_CREATED"
  ELSE /\ task.old = entries[i - 1].status
       /\ task.action = "ORDER_ISSUED" =>
            /\ entries[i].status = "issued" /\ entries[i - 1].status = "received"
            /\ entries[i].at <= until
       /\ task.action \in ReturnActions =>
            /\ entries[i].status = "returned" /\ entries[i - 1].status = "issued"
            /\ entries[i].at <= entries[i - 1].at + ReturnWindow

Tells(log, entries, until) ==
  /\ Cardinality(Trail(log)) = Len(entries)
  /\ \A j \in Trail(log) : Told(log[j], entries, Place(log, j), until)

\* A change of status, told by the task that is written with it.
LEMMA ToldGrows ==
  ASSUME NEW log \in Seq(AuditEntry), NEW a \in AuditEntry,
         a.action \notin {"ORDER_CREATED", "ORDER_DELETED"},
         NEW entries \in Seq(HistoryEntry), NEW entry \in HistoryEntry,
         NEW until, Tells(log, entries, until),
         Told(a, Append(entries, entry), Len(entries) + 1, until)
  PROVE  Tells(Append(log, a), Append(entries, entry), until)
<1>1. PICK long : long = Append(log, a)
  OBVIOUS
<1>2. PICK more : more = Append(entries, entry)
  OBVIOUS
<1>3. /\ Trail(long) = Trail(log) \union {Len(log) + 1}
      /\ Cardinality(Trail(long)) = Cardinality(Trail(log)) + 1
      /\ \A j \in Trail(log) : Place(long, j) = Place(log, j)
      /\ Place(long, Len(log) + 1) = Cardinality(Trail(log)) + 1
  BY <1>1, TrailGrows
<1>4. /\ Trail(log) \subseteq 1..Len(log)
      /\ \A j \in Trail(log) : Place(log, j) \in 1..Cardinality(Trail(log))
  BY TrailCounts
<1>5. long[Len(log) + 1] = a /\ \A j \in 1..Len(log) : long[j] = log[j]
  BY <1>1, AppendedTask
<1>6. /\ Len(more) = Len(entries) + 1 /\ Len(entries) \in Nat
      /\ \A i \in 1..Len(entries) : more[i] = entries[i]
  BY <1>2
<1>7. Cardinality(Trail(log)) = Len(entries)
  BY DEF Tells
<1>8. ASSUME NEW j \in Trail(log) PROVE Told(long[j], more, Place(long, j), until)
  <2>1. PICK i : i = Place(log, j)
    OBVIOUS
  <2>2. i \in 1..Len(entries) /\ Place(long, j) = i /\ long[j] = log[j]
    BY <1>3, <1>4, <1>5, <1>7, <2>1
  <2>3. Told(log[j], entries, i, until)
    BY <2>1 DEF Tells
  <2>4. more[i] = entries[i] /\ (i # 1 => more[i - 1] = entries[i - 1])
    BY <1>6, <2>2
  <2>5. Told(log[j], more, i, until)
    BY <2>3, <2>4, Zenon DEF Told
  <2> QED
    BY <2>2, <2>5
<1>9. Told(long[Len(log) + 1], more, Place(long, Len(log) + 1), until)
  BY <1>2, <1>3, <1>5, <1>7
<1>10. Tells(long, more, until)
  BY <1>3, <1>6, <1>7, <1>8, <1>9 DEF Tells
<1> QED
  BY <1>1, <1>2, <1>10

LEMMA ToldKeeps ==
  ASSUME NEW log \in Seq(AuditEntry), NEW a \in AuditEntry, a.action = "ORDER_DELETED",
         NEW entries, NEW until, Tells(log, entries, until)
  PROVE  Tells(Append(log, a), entries, until)
<1>1. PICK long : long = Append(log, a)
  OBVIOUS
<1>2. /\ Trail(long) = Trail(log)
      /\ \A j \in Trail(log) : Place(long, j) = Place(log, j)
  BY <1>1, TrailKeeps
<1>3. Trail(log) \subseteq 1..Len(log) /\ \A j \in 1..Len(log) : long[j] = log[j]
  BY <1>1, TrailCounts, AppendedTask
<1>4. Tells(long, entries, until)
  BY <1>2, <1>3 DEF Tells
<1> QED
  BY <1>1, <1>4

LEMMA ToldStarts ==
  ASSUME NEW log \in Seq(AuditEntry), NEW a \in AuditEntry, a.action = "ORDER_CREATED",
         NEW entries, Len(entries) = 1, NEW until
  PROVE  Tells(Append(log, a), entries, until)
<1>1. PICK long : long = Append(log, a)
  OBVIOUS
<1>2. Trail(long) = {Len(log) + 1} /\ Place(long, Len(log) + 1) = 1
  BY <1>1, TrailStarts
<1>3. long[Len(log) + 1] = a
  BY <1>1, AppendedTask
<1>4. Cardinality(Trail(long)) = 1
  BY <1>2, FS_Singleton
<1>5. Tells(long, entries, until)
  BY <1>2, <1>3, <1>4 DEF Tells, Told
<1> QED
  BY <1>1, <1>5

\* The returns that a log tells of.
TakenBack(log) == {j \in Trail(log) : log[j].action \in ReturnActions}

LEMMA TakenBackGrows ==
  ASSUME NEW log \in Seq(AuditEntry), NEW a \in AuditEntry,
         a.action \notin {"ORDER_CREATED", "ORDER_DELETED"}
  PROVE  /\ Cardinality(TakenBack(log)) \in Nat
         /\ Cardinality(TakenBack(Append(log, a))) =
              IF a.action \in ReturnActions THEN Cardinality(TakenBack(log)) + 1
              ELSE Cardinality(TakenBack(log))
<1>1. PICK long : long = Append(log, a)
  OBVIOUS
<1>2. Trail(long) = Trail(log) \union {Len(log) + 1}
  BY <1>1, TrailGrows
<1>3. Trail(log) \subseteq 1..Len(log) /\ IsFiniteSet(Trail(log))
  BY TrailCounts
<1>4. /\ long[Len(log) + 1] = a /\ Len(log) \in Nat
      /\ \A j \in 1..Len(log) : long[j] = log[j]
  BY <1>1, AppendedTask
<1>5. IsFiniteSet(TakenBack(log)) /\ Cardinality(TakenBack(log)) \in Nat
  <2>1. TakenBack(log) \in SUBSET Trail(log)
    BY DEF TakenBack
  <2> QED
    BY <1>3, <2>1, FS_Subset, FS_CardinalityType
<1>6. TakenBack(long) = IF a.action \in ReturnActions THEN TakenBack(log) \union {Len(log) + 1}
                        ELSE TakenBack(log)
  BY <1>2, <1>3, <1>4 DEF TakenBack
<1>7. Len(log) + 1 \notin TakenBack(log)
  BY <1>3, <1>4 DEF TakenBack
<1>8. Cardinality(TakenBack(log) \union {Len(log) + 1}) = Cardinality(TakenBack(log)) + 1
  BY <1>5, <1>7, FS_AddElement
<1> QED
  BY <1>1, <1>5, <1>6, <1>8

LEMMA TakenBackKeeps ==
  ASSUME NEW log \in Seq(AuditEntry), NEW a \in AuditEntry, a.action = "ORDER_DELETED"
  PROVE  TakenBack(Append(log, a)) = TakenBack(log)
<1>1. PICK long : long = Append(log, a)
  OBVIOUS
<1>2. Trail(long) = Trail(log)
  BY <1>1, TrailKeeps
<1>3. Trail(log) \subseteq 1..Len(log) /\ \A j \in 1..Len(log) : long[j] = log[j]
  BY <1>1, TrailCounts, AppendedTask
<1>4. TakenBack(long) = TakenBack(log)
  BY <1>2, <1>3 DEF TakenBack
<1> QED
  BY <1>1, <1>4

LEMMA TakenBackStarts ==
  ASSUME NEW log \in Seq(AuditEntry), NEW a \in AuditEntry, a.action = "ORDER_CREATED"
  PROVE  TakenBack(Append(log, a)) = {}
<1>1. PICK long : long = Append(log, a)
  OBVIOUS
<1>2. Trail(long) = {Len(log) + 1} /\ long[Len(log) + 1] = a
  BY <1>1, TrailStarts, AppendedTask
<1>3. TakenBack(long) = {}
  BY <1>2 DEF TakenBack, ReturnActions
<1> QED
  BY <1>1, <1>3

-----------------------------------------------------------------------------
(***************************************************************************)
(* What a step of the ledger does to one order.                            *)
(***************************************************************************)

\* The time of the last entry is the one of the row, except when the row is as
\* it was created: that entry is dated after the row (AddOrder).  It is from
\* here that the window of a return is measured.
LastIsDated(o) ==
  LET n == Len(history[o])
  IN history[o][n].status # "received" => history[o][n].at = orders[o].updated

\* The tables agree about a live order.
Linked(o) ==
  orders[o] # None =>
    /\ Tells(audit[o], history[o], orders[o].until)
    /\ LastIsDated(o)
    /\ Len(returns[o]) = Cardinality(TakenBack(audit[o]))
    /\ \A i \in 1..Len(returns[o]) : returns[o][i].user = orders[o].recipient

AuditInv == \A o \in Orders : Linked(o)

\* The actions of the ledger on one order that change its tables.
Touches(o) ==
  \/ Ledger!Register(o)
  \/ Ledger!Remove(o)
  \/ Ledger!RemoveNothing(o)
  \/ \E t \in 0..now : Ledger!Restatus(o, t)
  \/ \E user \in Users, t \in 0..now : Ledger!HandOut(o, user, t)
  \/ \E user \in Users, t \in 0..now, entered \in 0..now, action \in ReturnActions :
       Ledger!TakeBack(o, user, t, entered, action)

LEMMA LedgerTouches ==
  ASSUME [Ledger!Next]_(Ledger!vars), now \in Nat, NEW o \in Orders
  PROVE  Touches(o) \/ UNCHANGED <<orders[o], history[o], returns[o], audit[o]>>
<1>1. CASE Ledger!Tick \/ UNCHANGED Ledger!vars
  BY <1>1 DEF Ledger!Tick, Ledger!vars
<1>2. ASSUME NEW p \in Orders, Ledger!Single(p), Ledger!Only({p})
      PROVE  Touches(o) \/ UNCHANGED <<orders[o], history[o], returns[o], audit[o]>>
  <2>1. CASE p # o
    BY <1>2, <2>1 DEF Ledger!Only
  <2>2. ASSUME p = o, NEW t \in 0..now, NEW user \in Users, NEW entered \in t..now,
               Ledger!TakeBack(p, user, t, entered, "ORDER_RETURNED")
        PROVE  Touches(o)
    <3>1. entered \in 0..now /\ "ORDER_RETURNED" \in ReturnActions
      BY <2>2 DEF ReturnActions
    <3> QED
      BY <2>2, <3>1 DEF Touches
  <2>3. CASE p = o
    BY <1>2, <2>2, <2>3 DEF Ledger!Single, Touches
  <2> QED
    BY <2>1, <2>3
<1>3. ASSUME NEW S \in SUBSET Orders, Ledger!Batch(S), Ledger!Only(S)
      PROVE  Touches(o) \/ UNCHANGED <<orders[o], history[o], returns[o], audit[o]>>
  <2>1. CASE o \notin S
    BY <1>3, <2>1 DEF Ledger!Only
  <2>2. ASSUME o \in S, NEW user \in Users, NEW t \in 0..now,
               Ledger!TakeBack(o, user, t, t, "ORDER_RETURN_ACCEPTED")
        PROVE  Touches(o)
    <3>1. "ORDER_RETURN_ACCEPTED" \in ReturnActions
      BY DEF ReturnActions
    <3> QED
      BY <2>2, <3>1 DEF Touches
  <2>3. CASE o \in S
    BY <1>3, <2>2, <2>3 DEF Ledger!Batch, Touches
  <2> QED
    BY <2>1, <2>3
<1> QED
  BY <1>1, <1>2, <1>3 DEF Ledger!Next, Ledger!Book

LEMMA LinkedFrame ==
  ASSUME NEW o \in Orders, Linked(o), UNCHANGED <<orders[o], history[o], returns[o], audit[o]>>
  PROVE  Linked(o)'
BY DEF Linked, LastIsDated

\* An order that was not there has neither history nor returns.
LEMMA LinkedRegister ==
  ASSUME TypeOK, HistoryTracksRow, NEW o \in Orders, Ledger!Register(o)
  PROVE  Linked(o)'
<1>1. /\ history[o] = <<>> /\ returns[o] = <<>> /\ returns'[o] = <<>>
      /\ audit[o] \in Seq(AuditEntry)
  BY DEF HistoryTracksRow, Ledger!Register, TypeOK, TypesOK
<1>2. PICK a : a = [action |-> "ORDER_CREATED", old |-> "", new |-> "received"]
  OBVIOUS
<1>3. a \in AuditEntry /\ a.action = "ORDER_CREATED"
  BY <1>2 DEF AuditEntry, Actions, Statuses
<1>4. audit'[o] = Append(audit[o], a)
  BY <1>2 DEF Ledger!Register, Ledger!Audited
<1>5. PICK t : history'[o] = Append(history[o], [status |-> "received", at |-> t])
  BY DEF Ledger!Register, Ledger!Logged
<1>6. Len(history'[o]) = 1 /\ history'[o][1].status = "received"
  BY <1>1, <1>5
<1>7. Tells(audit'[o], history'[o], orders'[o].until)
  BY <1>1, <1>3, <1>4, <1>6, ToldStarts
<1>8. Len(returns'[o]) = 0 /\ Cardinality(TakenBack(audit'[o])) = 0
  BY <1>1, <1>3, <1>4, TakenBackStarts, FS_EmptySet
<1> QED
  BY <1>6, <1>7, <1>8 DEF Linked, LastIsDated

LEMMA LinkedRemoveNothing ==
  ASSUME TypeOK, NEW o \in Orders, Linked(o), Ledger!RemoveNothing(o)
  PROVE  Linked(o)'
<1>1. audit[o] \in Seq(AuditEntry)
  BY DEF TypeOK, TypesOK
<1>2. PICK a : a = [action |-> "ORDER_DELETED", old |-> "", new |-> ""]
  OBVIOUS
<1>3. a \in AuditEntry /\ a.action = "ORDER_DELETED"
  BY <1>2 DEF AuditEntry, Actions
<1>4. audit'[o] = Append(audit[o], a)
  BY <1>2 DEF Ledger!RemoveNothing, Ledger!Audited
<1>5. UNCHANGED <<orders[o], history[o], returns[o]>>
  BY DEF Ledger!RemoveNothing
<1>6. ASSUME orders[o] # None PROVE Tells(audit'[o], history'[o], orders'[o].until)
  BY <1>1, <1>3, <1>4, <1>5, <1>6, ToldKeeps DEF Linked
<1>7. TakenBack(audit'[o]) = TakenBack(audit[o])
  BY <1>1, <1>3, <1>4, TakenBackKeeps
<1> QED
  BY <1>5, <1>6, <1>7 DEF Linked, LastIsDated

\* A change of status, its task and its entry, for the row that it changes.
LEMMA ChangeTold ==
  ASSUME NEW log \in Seq(AuditEntry), NEW a \in AuditEntry,
         a.action \notin {"ORDER_CREATED", "ORDER_DELETED"},
         NEW entries \in Seq(HistoryEntry), entries # <<>>, NEW entry \in HistoryEntry,
         NEW row \in Row, Tells(log, entries, row.until),
         entries[Len(entries)].status = row.status,
         row.status # "received" => entries[Len(entries)].at = row.updated,
         a.old = row.status,
         a.action = "ORDER_ISSUED" =>
           entry.status = "issued" /\ row.status = "received" /\ entry.at <= row.until,
         a.action \in ReturnActions =>
           /\ entry.status = "returned" /\ row.status = "issued"
           /\ entry.at <= row.updated + ReturnWindow
  PROVE  /\ Tells(Append(log, a), Append(entries, entry), row.until)
         /\ Append(entries, entry)[Len(Append(entries, entry))] = entry
<1>1. PICK more : more = Append(entries, entry)
  OBVIOUS
<1>2. PICK n : n = Len(entries) + 1
  OBVIOUS
<1>3. /\ Len(more) = n /\ more[n] = entry
      /\ \A i \in 1..Len(entries) : more[i] = entries[i]
      /\ n - 1 = Len(entries) /\ n - 1 \in 1..Len(entries) /\ n # 1
  BY <1>1, <1>2
<1>4. more[n - 1] = entries[Len(entries)]
  BY <1>3
<1>5. Told(a, more, n, row.until)
  BY <1>3, <1>4 DEF Told
<1>6. Tells(Append(log, a), more, row.until)
  BY <1>1, <1>2, <1>5, ToldGrows
<1> QED
  BY <1>1, <1>3, <1>6

\* What is appended to a typed sequence has its type.
LEMMA AppendedType ==
  ASSUME NEW S, NEW s \in Seq(S), NEW e, Append(s, e) \in Seq(S)
  PROVE  e \in S
<1>1. s \in Seq(S \union {e}) /\ e \in S \union {e}
  OBVIOUS
<1>2. Len(Append(s, e)) = Len(s) + 1 /\ Append(s, e)[Len(s) + 1] = e /\ Len(s) \in Nat
  BY <1>1
<1>3. Len(s) + 1 \in 1..Len(Append(s, e))
  BY <1>2
<1> QED
  BY <1>2, <1>3

\* A return of the owner among returns of the owner.
LEMMA OwnedGrows ==
  ASSUME NEW old \in Seq(ReturnEntry), NEW x \in ReturnEntry, NEW owner, x.user = owner,
         \A i \in 1..Len(old) : old[i].user = owner
  PROVE  /\ Len(Append(old, x)) = Len(old) + 1
         /\ \A i \in 1..Len(Append(old, x)) : Append(old, x)[i].user = owner
<1>1. /\ Len(Append(old, x)) = Len(old) + 1 /\ Len(old) \in Nat
      /\ Append(old, x)[Len(old) + 1] = x
      /\ \A i \in 1..Len(old) : Append(old, x)[i] = old[i]
  OBVIOUS
<1> QED
  BY <1>1

\* A change of status with its entry and its task, and its return if it is one.
LEMMA LinkedBecomes ==
  ASSUME TypeOK, TypeOK', HistoryTracksRow, NEW o \in Orders, Linked(o),
         NEW status, NEW t, Ledger!Becomes(o, status, t),
         NEW action \in Actions \ {"ORDER_CREATED", "ORDER_DELETED"},
         Ledger!Audited(o, action, orders[o].status, ""),
         action = "ORDER_ISSUED" =>
           status = "issued" /\ orders[o].status = "received" /\ t <= orders[o].until,
         action \in ReturnActions =>
           /\ status = "returned" /\ orders[o].status = "issued"
           /\ t <= orders[o].updated + ReturnWindow,
         action \notin ReturnActions => returns'[o] = returns[o],
         NEW entered,
         action \in ReturnActions =>
           returns'[o] = Append(returns[o], [user |-> orders[o].recipient, at |-> entered])
  PROVE  Linked(o)'
<1>1. orders[o] # None /\ orders[o] \in Row
  BY DEF Ledger!Becomes, TypeOK, TypesOK
<1>2. PICK entry : entry = [status |-> status, at |-> t]
  OBVIOUS
<1>3. PICK a : a = [action |-> action, old |-> orders[o].status, new |-> ""]
  OBVIOUS
<1>4. history'[o] = Append(history[o], entry) /\ audit'[o] = Append(audit[o], a)
  BY <1>2, <1>3 DEF Ledger!Becomes, Ledger!Logged, Ledger!Audited
<1>5. orders'[o] = [orders[o] EXCEPT !.status = status, !.updated = t]
  BY DEF Ledger!Becomes
<1>6. /\ orders'[o].until = orders[o].until /\ orders'[o].updated = t
      /\ orders'[o].recipient = orders[o].recipient
  BY <1>1, <1>5 DEF Row
<1>7. /\ audit[o] \in Seq(AuditEntry)
      /\ history[o] \in Seq(HistoryEntry) /\ history'[o] \in Seq(HistoryEntry)
      /\ returns[o] \in Seq(ReturnEntry) /\ returns'[o] \in Seq(ReturnEntry)
  BY DEF TypeOK, TypesOK
<1>8. entry \in HistoryEntry
  BY <1>4, <1>7, AppendedType, Zenon
<1>9. a \in AuditEntry /\ a.action = action /\ a.old = orders[o].status
  BY <1>1, <1>3 DEF AuditEntry, Row
<1>10. history[o] # <<>> /\ history[o][Len(history[o])].status = orders[o].status
  BY <1>1 DEF HistoryTracksRow, Last
<1>11. /\ Tells(audit[o], history[o], orders[o].until)
       /\ orders[o].status # "received" => history[o][Len(history[o])].at = orders[o].updated
       /\ Len(returns[o]) = Cardinality(TakenBack(audit[o]))
       /\ \A i \in 1..Len(returns[o]) : returns[o][i].user = orders[o].recipient
  BY <1>1, <1>10 DEF Linked, LastIsDated
<1>12. entry.status = status /\ entry.at = t
  BY <1>2
<1>13. /\ Tells(Append(audit[o], a), Append(history[o], entry), orders[o].until)
       /\ Append(history[o], entry)[Len(Append(history[o], entry))] = entry
  <2>1. a.action \notin {"ORDER_CREATED", "ORDER_DELETED"}
    BY <1>9
  <2>2. a.action = "ORDER_ISSUED" =>
          entry.status = "issued" /\ orders[o].status = "received" /\ entry.at <= orders[o].until
    BY <1>9, <1>12
  <2>3. a.action \in ReturnActions =>
          /\ entry.status = "returned" /\ orders[o].status = "issued"
          /\ entry.at <= orders[o].updated + ReturnWindow
    BY <1>9, <1>12
  <2> QED
    <3>1. PICK row, log, entries : row = orders[o] /\ log = audit[o] /\ entries = history[o]
      OBVIOUS
    <3>2. /\ row \in Row /\ log \in Seq(AuditEntry) /\ entries \in Seq(HistoryEntry)
          /\ entries # <<>> /\ entries[Len(entries)].status = row.status
          /\ Tells(log, entries, row.until)
          /\ row.status # "received" => entries[Len(entries)].at = row.updated
          /\ a \in AuditEntry /\ a.old = row.status
      BY <1>1, <1>7, <1>9, <1>10, <1>11, <3>1
    <3>3. /\ a.action = "ORDER_ISSUED" =>
               entry.status = "issued" /\ row.status = "received" /\ entry.at <= row.until
          /\ a.action \in ReturnActions =>
               /\ entry.status = "returned" /\ row.status = "issued"
               /\ entry.at <= row.updated + ReturnWindow
      BY <2>2, <2>3, <3>1
    <3>4. /\ Tells(Append(log, a), Append(entries, entry), row.until)
          /\ Append(entries, entry)[Len(Append(entries, entry))] = entry
      BY <1>8, <2>1, <3>2, <3>3, ChangeTold
    <3> QED
      BY <3>1, <3>4
<1>14. Tells(audit'[o], history'[o], orders'[o].until)
  BY <1>4, <1>6, <1>13
<1>15. LastIsDated(o)'
  BY <1>4, <1>6, <1>12, <1>13 DEF LastIsDated
<1>16. /\ Cardinality(TakenBack(audit[o])) \in Nat
       /\ Cardinality(TakenBack(audit'[o])) =
            IF action \in ReturnActions THEN Cardinality(TakenBack(audit[o])) + 1
            ELSE Cardinality(TakenBack(audit[o]))
  BY <1>4, <1>7, <1>9, TakenBackGrows
<1>17. /\ Len(returns'[o]) = Cardinality(TakenBack(audit'[o]))
       /\ \A i \in 1..Len(returns'[o]) : returns'[o][i].user = orders[o].recipient
  <2>1. CASE action \notin ReturnActions
    BY <1>11, <1>16, <2>1
  <2>2. CASE action \in ReturnActions
    <3>1. PICK x : x = [user |-> orders[o].recipient, at |-> entered]
      OBVIOUS
    <3>2. returns'[o] = Append(returns[o], x) /\ x.user = orders[o].recipient
      BY <2>2, <3>1
    <3>3. x \in ReturnEntry
      BY <1>7, <3>2, AppendedType, Zenon
    <3>4. /\ Len(Append(returns[o], x)) = Len(returns[o]) + 1
          /\ \A i \in 1..Len(Append(returns[o], x)) :
               Append(returns[o], x)[i].user = orders[o].recipient
      BY <1>7, <1>11, <3>2, <3>3, OwnedGrows, Zenon
    <3>5. Cardinality(TakenBack(audit'[o])) = Len(returns[o]) + 1
      BY <1>11, <1>16, <2>2
    <3> QED
      BY <3>2, <3>4, <3>5, Zenon
  <2> QED
    BY <2>1, <2>2
<1> QED
  BY <1>4, <1>6, <1>14, <1>15, <1>17 DEF Linked

LEMMA LinkedTouched ==
  ASSUME TypeOK, TypeOK', HistoryTracksRow, NEW o \in Orders, Linked(o), Touches(o)
  PROVE  Linked(o)'
<1>1. CASE Ledger!Register(o)
  BY <1>1, LinkedRegister
<1>2. CASE Ledger!Remove(o)
  BY <1>2 DEF Ledger!Remove, Linked
<1>3. CASE Ledger!RemoveNothing(o)
  BY <1>3, LinkedRemoveNothing
<1>4. ASSUME NEW t \in 0..now, Ledger!Restatus(o, t) PROVE Linked(o)'
  <2>1. "STATUS_UPDATED" \in Actions \ {"ORDER_CREATED", "ORDER_DELETED"}
        /\ "STATUS_UPDATED" \notin ReturnActions
    BY DEF Actions, ReturnActions
  <2>2. PICK status : status = orders'[o].status
    OBVIOUS
  <2>3. /\ Ledger!Becomes(o, status, t)
        /\ Ledger!Audited(o, "STATUS_UPDATED", orders[o].status, "")
        /\ returns'[o] = returns[o]
    BY <1>4, <2>2 DEF Ledger!Restatus
  <2> QED
    BY <2>1, <2>3, LinkedBecomes
<1>5. ASSUME NEW user \in Users, NEW t \in 0..now, Ledger!HandOut(o, user, t)
      PROVE  Linked(o)'
  <2>1. "ORDER_ISSUED" \in Actions \ {"ORDER_CREATED", "ORDER_DELETED"}
        /\ "ORDER_ISSUED" \notin ReturnActions
    BY DEF Actions, ReturnActions
  <2>2. /\ Ledger!Becomes(o, "issued", t)
        /\ Ledger!Audited(o, "ORDER_ISSUED", orders[o].status, "")
        /\ orders[o].status = "received" /\ t <= orders[o].until
        /\ returns'[o] = returns[o]
    BY <1>5 DEF Ledger!HandOut
  <2> QED
    BY <2>1, <2>2, LinkedBecomes
<1>6. ASSUME NEW user \in Users, NEW t \in 0..now, NEW entered \in 0..now,
             NEW action \in ReturnActions, Ledger!TakeBack(o, user, t, entered, action)
      PROVE  Linked(o)'
  <2>1. action \in Actions \ {"ORDER_CREATED", "ORDER_DELETED"} /\ action # "ORDER_ISSUED"
    BY DEF Actions, ReturnActions
  <2>2. /\ Ledger!Becomes(o, "returned", t)
        /\ Ledger!Audited(o, action, orders[o].status, "")
        /\ orders[o].status = "issued" /\ t <= orders[o].updated + ReturnWindow
        /\ returns'[o] = Append(returns[o], [user |-> orders[o].recipient, at |-> entered])
    BY <1>6 DEF Ledger!TakeBack
  <2> QED
    BY <2>1, <2>2, LinkedBecomes
<1> QED
  BY <1>1, <1>2, <1>3, <1>4, <1>5, <1>6 DEF Touches

LEMMA StepAudit ==
  TypeOK /\ PendingIsCurrent /\ Staged /\ HistoryTracksRow /\ AuditInv /\ [Next]_vars => AuditInv'
<1> SUFFICES ASSUME TypeOK, PendingIsCurrent, Staged, HistoryTracksRow, AuditInv, [Next]_vars,
                    NEW o \in Orders
             PROVE  Linked(o)'
  BY DEF AuditInv
<1>1. TypeOK' /\ [Ledger!Next]_(Ledger!vars)
  BY StepType, StepLedger
<1>2. now \in Nat /\ Linked(o)
  BY DEF TypeOK, TypesOK, AuditInv
<1>3. Touches(o) \/ UNCHANGED <<orders[o], history[o], returns[o], audit[o]>>
  BY <1>1, <1>2, LedgerTouches
<1> QED
  BY <1>1, <1>2, <1>3, LinkedTouched, LinkedFrame

LEMMA LinkedTells ==
  AuditInv => AuditTellsHistory /\ HandoversInTime /\ ReturnsAreAudited
<1> SUFFICES ASSUME AuditInv, NEW o \in Orders, orders[o] # None
             PROVE  /\ Cardinality(Trail(audit[o])) = Len(history[o])
                    /\ \A j \in Trail(audit[o]) :
                         Told(audit[o][j], history[o], Place(audit[o], j), orders[o].until)
                    /\ Len(returns[o]) = Cardinality(TakenBack(audit[o]))
                    /\ \A i \in 1..Len(returns[o]) : returns[o][i].user = orders[o].recipient
  BY DEF AuditTellsHistory, HandoversInTime, ReturnsAreAudited, Told, TakenBack, ReturnActions
<1> QED
  BY DEF AuditInv, Linked, Tells

LEMMA AuditHolds == Spec => []AuditInv
<1>1. Init => AuditInv /\ HistoryInv
  BY DEF Init, AuditInv, Linked, HistoryInv, HistoryTracksRow, NoRepeatedStatus
<1>2. Init => PendingIsCurrent
  BY DEF Init, PendingIsCurrent, Hits, NoWrites
<1>3. HistoryInv => HistoryTracksRow
  BY DEF HistoryInv
<1> QED
  BY <1>1, <1>2, <1>3, InitType, InitStaged, StepType, StepPending, StepStaged, StepHistory,
     StepAudit, PTL DEF Spec

\* Read back from the outbox, the tasks of a live order since its creation are its
\* history: none is missing, doubled or out of order, however requests interleave,
\* transactions fail and the process restarts, and a deleted order that is created
\* again starts afresh.
THEOREM AuditIsHistory == Spec => []AuditTellsHistory
BY AuditHolds, LinkedTells, PTL

\* No interleaving hands goods out after their storage time or takes them back after
\* the window, although the bulk operations judge by a clock read before they wait
\* for the first row lock.
THEOREM GoodsMoveInTime == Spec => []HandoversInTime
BY AuditHolds, LinkedTells, PTL

\* No return is recorded twice, lost, or recorded for anybody but the recipient.
THEOREM ReturnsMatchAudit == Spec => []ReturnsAreAudited
BY AuditHolds, LinkedTells, PTL
=============================================================================
