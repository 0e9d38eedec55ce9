----------------------------- MODULE StorageCalls -----------------------------
(***************************************************************************)
(* The calls of internal/storage/filestorage.go as the handlers see them:  *)
(* one step each, since commits are atomic (OrderStore shows that).  A     *)
(* call is the set of its outcomes: the tables after it, the error it      *)
(* returns and the rows or results that come with it.                      *)
(*                                                                         *)
(* History, audit and cache are left to OrderStore; here a failed call is  *)
(* one of the failures in Faults, at any of its statements.                *)
(***************************************************************************)
EXTENDS Packaging, Sequences, FiniteSets, SequencesExt

CONSTANTS
  Ids,           \* order ids
  Users,         \* recipient ids
  ReturnWindow,  \* the 48 hours of a return, in ticks of the clock
  MaxPrice,      \* the largest INTEGER of Postgres
  Word,          \* 2^64, the number of values of an int
  Faults,        \* which of FaultKinds may happen
  None           \* no row

FaultKinds == {"statement", "commit", "ack"}

VARIABLES
  now,  \* the clock
  db    \* the tables: orders, returns, and the last id given to a return

\* An order waiting for its recipient when it is stored.
NewRow(r, p) ==
  [recipient |-> r.user, until |-> r.until, status |-> "received", updated |-> now,
   created |-> now, wrapper |-> GetType(p), price |-> AdjustPrice(p, r.price),
   weight |-> r.weight]

-----------------------------------------------------------------------------
\* How a call ends: its error "nil" for none, the failure that it met, if any.
Outcome(d, err, fault, out) == [db |-> d, err |-> err, fault |-> fault, out |-> out]
Refusal(err) == Outcome(db, err, "nil", <<>>)

KeepsWrites(d, out) == Outcome(d, "failed", "statement", out)

\* A statement fails and the transaction is rolled back.
RolledBack(d, out) == Outcome(db, "failed", "statement", out)

Failures(d) == IF "statement" \in Faults THEN {RolledBack(d, <<>>)} ELSE {}

Query(out) == {Outcome(db, "nil", "nil", out)} \union Failures(db)

\* The end of a transaction of one order: the error of a failed commit is lost.
Committed(d) ==
  {Outcome(d, "nil", "nil", <<>>)} \union Failures(d)
    \union (IF "commit" \in Faults THEN {Outcome(db, "nil", "commit", <<>>)} ELSE {})

-----------------------------------------------------------------------------
Row(id) == db.orders[id]
SetRow(d, id, row) == [d EXCEPT !.orders[id] = row]

\* The values of column price.
INTEGER == -(MaxPrice + 1)..MaxPrice

\* Postgres refuses a second row with the id, a value outside the enum and a
\* number outside INTEGER.  REAL takes every weight, NaN too.
AddOrder(r, p) ==
  LET row == NewRow(r, p)
  IN IF Row(r.id) # None THEN {Refusal("duplicate")} \union Failures(db)
     ELSE IF row.wrapper \notin WrapperType THEN {Refusal("wrapper")} \union Failures(db)
     ELSE IF row.price \notin INTEGER THEN {Refusal("price")} \union Failures(db)
     ELSE Committed(SetRow(db, r.id, row))

GetOrder(id) ==
  IF Row(id) = None THEN {Refusal("not found")} \union Failures(db) ELSE Query(<<id>>)

UpdateOrderStatus(id, status) ==
  IF Row(id) = None THEN {Refusal("not found")} \union Failures(db)
  ELSE IF Row(id).status = status THEN Query(<<>>)
  ELSE Committed(SetRow(db, id, [Row(id) EXCEPT !.status = status, !.updated = now]))

\* The returns of the order go with it (ON DELETE CASCADE).
DeleteOrder(id) ==
  Committed([SetRow(db, id, None) EXCEPT !.returns = {x \in @ : x.order # id}])

\* Why an order is not handed out, or taken back; "nil" if it is.
IssueError(row, user) ==
  CASE row = None -> "not found"
    [] row # None /\ row.recipient # user -> "foreign"
    [] row # None /\ row.recipient = user /\ row.status # "received" -> "status"
    [] row # None /\ row.recipient = user /\ row.status = "received" ->
         IF now > row.until THEN "expired" ELSE "nil"

ReturnError(row, user) ==
  CASE row = None -> "not found"
    [] row # None /\ row.recipient # user -> "foreign"
    [] row # None /\ row.recipient = user /\ row.status # "issued" -> "status"
    [] row # None /\ row.recipient = user /\ row.status = "issued" ->
         IF now > row.updated + ReturnWindow THEN "expired" ELSE "nil"

StampsDeadline(d, id) ==
  SetRow(d, id, [d.orders[id] EXCEPT !.status = "issued", !.updated = d.orders[id].until])

HandOut(d, id) ==
  SetRow(d, id, [d.orders[id] EXCEPT !.status = "issued", !.updated = now])

TakeBack(d, id, user) ==
  [SetRow(d, id, [d.orders[id] EXCEPT !.status = "returned", !.updated = now])
     EXCEPT !.returns = @ \union {[id |-> d.serial + 1, order |-> id, user |-> user, at |-> now]},
            !.serial = @ + 1]

AddReturn(id, user) ==
  IF ReturnError(Row(id), user) # "nil"
  THEN {Refusal(ReturnError(Row(id), user))} \union Failures(db)
  ELSE Committed(TakeBack(db, id, user))

(***************************************************************************)
(* The bulk calls.  The items run in turn on what the items before them    *)
(* wrote.  A statement that fails ends the loop and leaves the results so  *)
(* far as they are; a failed outbox insert or commit clears Success.  The  *)
(* error of a failed commit is lost here, too, but its results are not.    *)
(***************************************************************************)
Result(id, error) == [order |-> id, error |-> error]

IssuesExpired(so, user, id) ==
  LET error == IssueError(so.db.orders[id], user)
  IN [db |-> IF error \in {"nil", "expired"} THEN HandOut(so.db, id) ELSE so.db,
      results |-> Append(so.results, Result(id, error))]

Issue(so, user, id) ==
  LET error == IssueError(so.db.orders[id], user)
  IN [db |-> IF error = "nil" THEN HandOut(so.db, id) ELSE so.db,
      results |-> Append(so.results, Result(id, error))]

Accept(so, user, id) ==
  LET error == ReturnError(so.db.orders[id], user)
  IN [db |-> IF error = "nil" THEN TakeBack(so.db, id, user) ELSE so.db,
      results |-> Append(so.results, Result(id, error))]

\* so[k] is how things stand after the first k items.
Process(Item(_, _, _), user, ids) ==
  LET so[k \in 0..Len(ids)] ==
        IF k = 0 THEN [db |-> db, results |-> <<>>] ELSE Item(so[k - 1], user, ids[k])
  IN so[Len(ids)]

KeepsFlags(results) == results

ClearSuccess(results) ==
  [i \in DOMAIN results |->
     IF results[i].error = "nil" THEN [results[i] EXCEPT !.error = "failed"] ELSE results[i]]

\* The statement of item k that fails, after k - 1 items.
BreaksOff(all, ids, k) ==
  [RolledBack(all.db, Append(SubSeq(all.results, 1, k - 1), Result(ids[k], "failed")))
     EXCEPT !.fault = "item"]

Bulk(all, ids) ==
  {Outcome(all.db, "nil", "nil", all.results)}
    \union (IF "statement" \in Faults
            THEN {RolledBack(all.db, <<>>), RolledBack(all.db, ClearSuccess(all.results))}
                   \union {BreaksOff(all, ids, k) : k \in DOMAIN ids}
            ELSE {})
    \union (IF "commit" \in Faults
            THEN {Outcome(db, "nil", "batch", ClearSuccess(all.results))} ELSE {})
    \union (IF "ack" \in Faults
            THEN {Outcome(all.db, "nil", "ack", ClearSuccess(all.results))} ELSE {})

IssueOrders(user, ids) == Bulk(Process(Issue, user, ids), ids)
AcceptReturns(user, ids) == Bulk(Process(Accept, user, ids), ids)

(***************************************************************************)
(* Lists.  Rows that ORDER BY does not tell apart come in any order.       *)
(***************************************************************************)
\* The orders in which a query may return the rows of S, latest key first.
Latest(S, key(_)) ==
  {s \in SetToSeqs(S) : \A i \in 1..(Len(s) - 1) : key(s[i]) >= key(s[i + 1])}

Prefix(s, n) == SubSeq(s, 1, IF n < Len(s) THEN n ELSE Len(s))

ListsIssued(row) == row.status # "returned"

\* The filter of the active list, which is not the one of the cache.
Waiting(row) == row.status \notin {"issued", "returned"}

GetUserOrders(user, lastN, activeOnly) ==
  LET rows == {id \in Ids : /\ Row(id) # None
                            /\ Row(id).recipient = user
                            /\ activeOnly => Waiting(Row(id))}
      Created(id) == Row(id).created
  IN UNION {Query(IF lastN > 0 THEN Prefix(s, lastN) ELSE s) : s \in Latest(rows, Created)}

\* An int of the program, in two's complement.
Wrap(n) == ((n + Word \div 2) % Word) - Word \div 2

SkipsOnePage(page, limit) == Wrap(page * limit)

Offset(page, limit) == Wrap((page - 1) * limit)

GetReturns(page, limit) ==
  LET at(x) == x.at
      from == Offset(page, limit)
  IN IF from < 0 THEN {Refusal("offset")} \union Failures(db)
     ELSE UNION {Query(Prefix(SubSeq(s, from + 1, Len(s)), limit)) : s \in Latest(db.returns, at)}

\* The entries of an order nobody knows are an empty list, not an error.
GetOrderHistory(id) == Query(<<>>)
=============================================================================
