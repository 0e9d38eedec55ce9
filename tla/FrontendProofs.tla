----------------------------- MODULE FrontendProofs ----------------------------
(***************************************************************************)
(* Proofs about Frontend, for any set of requests and every bound.         *)
(*                                                                         *)
(* First the calls of the storage: what each outcome of a call may be, and *)
(* that the tables are Tidy after it if they were before.  Then one lemma  *)
(* for each handler: what it replies, it replies Rightly.  The properties  *)
(* follow from that, and the invariants by induction over the requests.    *)
(*                                                                         *)
(* Process, the loop of the bulk calls, is a recursive function.  That it  *)
(* exists and what holds along it is shown for the least item that would   *)
(* break it, since the provers cannot instantiate an induction theorem.    *)
(***************************************************************************)
EXTENDS Frontend, FiniteSetTheorems, SequenceTheorems, WellFoundedInduction, TLAPS

FaultNames == {"nil", "statement", "item", "commit", "batch", "ack"}

\* What TypeOK and StoredOrdersAreSound say of one order.
RowOk(row) ==
  row # None =>
    /\ row.created <= row.updated
    /\ row.updated <= now
    /\ row.wrapper \in Stg!WrapperType
    /\ row.wrapper.container = "Bag" => row.weight = NaN \/ row.weight < 10
    /\ row.wrapper.container = "Box" => row.weight = NaN \/ row.weight < 30
    /\ -(MaxPrice + 1) <= row.price /\ row.price <= MaxPrice

\* A call adds returns with ids of their own and the present time, and changes none.
Grown(d) ==
  /\ db.serial \in Nat /\ db.serial <= d.serial
  /\ \A x \in d.returns : x \in db.returns \/ (x.id > db.serial /\ x.at = now)

\* What they say of the tables, as they are or as a call has left them.
Tidy(d) ==
  /\ d \in Tables
  /\ \A id \in Ids : RowOk(d.orders[id])
  /\ \A x \in d.returns : d.orders[x.order] # None /\ x.id \in 1..d.serial /\ x.at <= now
  /\ \A x, y \in d.returns : x.id = y.id => x = y
  /\ Grown(d)

\* How any call ends: with an error the tables are as they were.
Ends(out, errors) ==
  /\ out.fault \in FaultNames
  /\ out.err \in errors \union {"nil", "failed"}
  /\ out.err = "failed" <=> out.fault \in {"statement", "item"}
  /\ out.err # "nil" => out.db = db
  /\ Tidy(out.db)
  /\ db.serial <= out.db.serial

\* How a transaction of one order ends that writes d.
Writes(out, d) ==
  /\ Ends(out, {})
  /\ out.fault \in {"nil", "statement", "commit"}
  /\ out.fault = "nil" => out.db = d
  /\ out.fault # "nil" => out.db = db

-----------------------------------------------------------------------------
(***************************************************************************)
(* The tables.                                                             *)
(***************************************************************************)
LEMMA TidyFields ==
  ASSUME NEW d, Tidy(d)
  PROVE  /\ d = [orders |-> d.orders, returns |-> d.returns, serial |-> d.serial]
         /\ d.orders \in [Ids -> OrderRow \union {None}]
         /\ d.returns \subseteq ReturnRow
         /\ d.serial \in Nat
BY DEF Tidy, Tables

LEMMA SetRowTidy ==
  ASSUME NEW d, Tidy(d), NEW id \in Ids, NEW row \in OrderRow, RowOk(row)
  PROVE  /\ Tidy(Stg!SetRow(d, id, row))
         /\ Stg!SetRow(d, id, row).serial = d.serial
         /\ Stg!SetRow(d, id, row).returns = d.returns
         /\ Stg!SetRow(d, id, row).orders = [d.orders EXCEPT ![id] = row]
<1> DEFINE e == Stg!SetRow(d, id, row)
<1>1. e = [orders |-> [d.orders EXCEPT ![id] = row], returns |-> d.returns, serial |-> d.serial]
  BY TidyFields DEF Stg!SetRow
<1>2. e \in Tables
  BY <1>1, TidyFields DEF Tables
<1>3. \A i \in Ids : e.orders[i] = IF i = id THEN row ELSE d.orders[i]
  BY <1>1, TidyFields
<1>4. row # None
  BY NoneIsApart
<1>5. \A i \in Ids : RowOk(e.orders[i])
  BY <1>3 DEF Tidy
<1>6. ASSUME NEW x \in e.returns
      PROVE  e.orders[x.order] # None /\ x.id \in 1..e.serial /\ x.at <= now
  <2>1. x \in d.returns /\ x.order \in Ids
    BY <1>1, TidyFields DEF ReturnRow
  <2> QED BY <2>1, <1>1, <1>3, <1>4 DEF Tidy
<1>7. \A x, y \in e.returns : x.id = y.id => x = y
  BY <1>1 DEF Tidy
<1>8. Grown(e)
  BY <1>1 DEF Tidy, Grown
<1> QED BY <1>1, <1>2, <1>5, <1>6, <1>7, <1>8 DEF Tidy

\* An order that changes its status now is as good a row as it was.
LEMMA RestatusTidy ==
  ASSUME now \in Nat, NEW old \in OrderRow, RowOk(old), NEW status \in Statuses
  PROVE  /\ [old EXCEPT !.status = status, !.updated = now] \in OrderRow
         /\ RowOk([old EXCEPT !.status = status, !.updated = now])
<1> DEFINE row == [old EXCEPT !.status = status, !.updated = now]
<1>1. row \in OrderRow
  BY DEF OrderRow
<1>2. /\ row.created = old.created /\ row.updated = now /\ row.wrapper = old.wrapper
      /\ row.weight = old.weight /\ row.price = old.price
  BY DEF OrderRow
<1>3. old # None
  BY NoneIsApart
<1>4. old.created \in Nat /\ old.updated \in Nat
  BY DEF OrderRow
<1> HIDE DEF row
<1>5. RowOk(row)
  BY <1>2, <1>3, <1>4 DEF RowOk
<1> QED BY <1>1, <1>5 DEF row

LEMMA HandOutTidy ==
  ASSUME now \in Nat, NEW d, Tidy(d), NEW id \in Ids, d.orders[id] # None
  PROVE  /\ Tidy(Stg!HandOut(d, id))
         /\ Stg!HandOut(d, id).serial = d.serial
         /\ Stg!HandOut(d, id).returns = d.returns
         /\ Stg!HandOut(d, id).orders =
              [d.orders EXCEPT ![id] = [d.orders[id] EXCEPT !.status = "issued", !.updated = now]]
<1> DEFINE row == [d.orders[id] EXCEPT !.status = "issued", !.updated = now]
<1>1. d.orders[id] \in OrderRow /\ RowOk(d.orders[id])
  BY TidyFields DEF Tidy
<1>2. row \in OrderRow /\ RowOk(row)
  <2>1. PICK old : old = d.orders[id]
    OBVIOUS
  <2>2. old \in OrderRow /\ RowOk(old) /\ "issued" \in Statuses
    BY <1>1, <2>1 DEF Statuses
  <2>3. /\ [old EXCEPT !.status = "issued", !.updated = now] \in OrderRow
        /\ RowOk([old EXCEPT !.status = "issued", !.updated = now])
    BY <2>2, RestatusTidy, Zenon
  <2> QED BY <2>1, <2>3
<1> HIDE DEF row
<1>3. Stg!HandOut(d, id) = Stg!SetRow(d, id, row)
  BY DEF Stg!HandOut, row
<1>4. QED
  BY <1>2, <1>3, SetRowTidy DEF row

LEMMA TakeBackTidy ==
  ASSUME now \in Nat, NEW d, Tidy(d), NEW id \in Ids, d.orders[id] # None, NEW user \in Users
  PROVE  /\ Tidy(Stg!TakeBack(d, id, user))
         /\ Stg!TakeBack(d, id, user).orders =
              [d.orders EXCEPT ![id] = [d.orders[id] EXCEPT !.status = "returned", !.updated = now]]
<1> DEFINE row == [d.orders[id] EXCEPT !.status = "returned", !.updated = now]
           new == [id |-> d.serial + 1, order |-> id, user |-> user, at |-> now]
           e == Stg!SetRow(d, id, row)
           f == Stg!TakeBack(d, id, user)
<1>1. row \in OrderRow /\ RowOk(row)
  <2>1. PICK old : old = d.orders[id]
    OBVIOUS
  <2>2. old \in OrderRow /\ RowOk(old) /\ "returned" \in Statuses
    BY <2>1, TidyFields DEF Tidy, Statuses
  <2>3. /\ [old EXCEPT !.status = "returned", !.updated = now] \in OrderRow
        /\ RowOk([old EXCEPT !.status = "returned", !.updated = now])
    BY <2>2, RestatusTidy, Zenon
  <2> QED BY <2>1, <2>3
<1> HIDE DEF row
<1>2. /\ Tidy(e)
      /\ e.serial = d.serial
      /\ e.returns = d.returns
      /\ e.orders = [d.orders EXCEPT ![id] = row]
  BY <1>1, SetRowTidy
<1>3. f = [e EXCEPT !.returns = @ \union {new}, !.serial = @ + 1]
  BY <1>2 DEF Stg!TakeBack, row
<1> HIDE DEF e
<1>4. f = [orders |-> e.orders, returns |-> d.returns \union {new}, serial |-> d.serial + 1]
  BY <1>2, <1>3, TidyFields
<1>5. new \in ReturnRow
  BY TidyFields DEF ReturnRow
<1>6. f \in Tables
  BY <1>2, <1>4, <1>5, TidyFields DEF Tables
<1>7. e.orders[id] # None
  BY <1>1, <1>2, TidyFields, NoneIsApart
<1>8. ASSUME NEW x \in f.returns
      PROVE  f.orders[x.order] # None /\ x.id \in 1..f.serial /\ x.at <= now
  <2>1. CASE x = new
    BY <2>1, <1>4, <1>7, TidyFields
  <2>2. CASE x \in d.returns
    <3>1. e.orders[x.order] # None /\ x.id \in 1..d.serial /\ x.at <= now
      BY <1>2, <2>2 DEF Tidy
    <3> QED BY <3>1, <1>4, TidyFields
  <2> QED BY <2>1, <2>2, <1>4
<1>9. ASSUME NEW x \in f.returns, NEW y \in f.returns, x.id = y.id PROVE x = y
  <2>1. \A z \in d.returns : z.id \in 1..d.serial
    BY DEF Tidy
  <2>2. new.id = d.serial + 1 /\ d.serial \in Nat
    BY TidyFields
  <2>3. x \in d.returns /\ y \in d.returns => x = y
    BY <1>9 DEF Tidy
  <2>4. x \in d.returns \union {new} /\ y \in d.returns \union {new}
    BY <1>4
  <2> HIDE DEF new
  <2> QED BY <1>9, <2>1, <2>2, <2>3, <2>4
<1>10. \A i \in Ids : RowOk(f.orders[i])
  BY <1>2, <1>4 DEF Tidy
<1>11. Grown(f)
  <2>1. db.serial \in Nat /\ d.serial \in Nat /\ db.serial <= d.serial
    BY TidyFields DEF Tidy, Grown
  <2>2. new.id = d.serial + 1 /\ new.at = now
    OBVIOUS
  <2>3. \A x \in d.returns : x \in db.returns \/ (x.id > db.serial /\ x.at = now)
    BY DEF Tidy, Grown
  <2> HIDE DEF new
  <2>4. f.serial = d.serial + 1 /\ f.returns = d.returns \union {new}
    BY <1>4
  <2> HIDE DEF f
  <2> QED BY <2>1, <2>2, <2>3, <2>4 DEF Grown
<1> HIDE DEF f
<1>12. Tidy(f)
  BY <1>6, <1>8, <1>9, <1>10, <1>11 DEF Tidy
<1> QED BY <1>2, <1>4, <1>12 DEF f, row

LEMMA TakeBackSerial ==
  ASSUME NEW d, Tidy(d), NEW id, NEW user
  PROVE  Stg!TakeBack(d, id, user).serial = d.serial + 1
<1>1. PICK e : e = Stg!SetRow(d, id, [d.orders[id] EXCEPT !.status = "returned", !.updated = now])
  OBVIOUS
<1>2. e = [orders |-> e.orders, returns |-> e.returns, serial |-> d.serial]
  BY <1>1, TidyFields DEF Stg!SetRow
<1>3. Stg!TakeBack(d, id, user).serial = e.serial + 1
  BY <1>1, <1>2 DEF Stg!TakeBack
<1> QED BY <1>2, <1>3

Deleted(d, id) == [Stg!SetRow(d, id, None) EXCEPT !.returns = {x \in @ : x.order # id}]

LEMMA DeletedTidy ==
  ASSUME NEW d, Tidy(d), NEW id \in Ids
  PROVE  /\ Tidy(Deleted(d, id))
         /\ Deleted(d, id).serial = d.serial
         /\ Deleted(d, id).orders = [d.orders EXCEPT ![id] = None]
<1> DEFINE e == Deleted(d, id)
<1>1. e = [orders |-> [d.orders EXCEPT ![id] = None],
           returns |-> {x \in d.returns : x.order # id}, serial |-> d.serial]
  <2>1. PICK o, x, n : o = d.orders /\ x = d.returns /\ n = d.serial
    OBVIOUS
  <2>2. d = [orders |-> o, returns |-> x, serial |-> n]
    BY <2>1, TidyFields
  <2>3. Stg!SetRow(d, id, None) = [orders |-> [o EXCEPT ![id] = None], returns |-> x, serial |-> n]
    BY <2>2 DEF Stg!SetRow
  <2>4. Deleted(d, id) = [Stg!SetRow(d, id, None) EXCEPT !.returns = {y \in x : y.order # id}]
    BY <2>3 DEF Deleted
  <2> QED BY <2>1, <2>3, <2>4
<1> HIDE DEF e
<1>2. e \in Tables
  BY <1>1, TidyFields DEF Tables
<1>3. \A i \in Ids : e.orders[i] = IF i = id THEN None ELSE d.orders[i]
  BY <1>1, TidyFields
<1>4. \A i \in Ids : RowOk(e.orders[i])
  BY <1>3 DEF Tidy, RowOk
<1>5. ASSUME NEW x \in e.returns
      PROVE  e.orders[x.order] # None /\ x.id \in 1..e.serial /\ x.at <= now
  <2>1. x \in d.returns /\ x.order \in Ids /\ x.order # id
    BY <1>1, TidyFields DEF ReturnRow
  <2> QED BY <2>1, <1>1, <1>3 DEF Tidy
<1>6. \A x, y \in e.returns : x.id = y.id => x = y
  BY <1>1 DEF Tidy
<1>7. Grown(e)
  BY <1>1 DEF Tidy, Grown
<1>8. Tidy(e)
  BY <1>2, <1>4, <1>5, <1>6, <1>7 DEF Tidy
<1> QED BY <1>1, <1>8 DEF e

-----------------------------------------------------------------------------
(***************************************************************************)
(* The calls of one order.                                                 *)
(***************************************************************************)
LEMMA Serial ==
  ASSUME Tidy(db)
  PROVE  db.serial \in Nat /\ db.serial <= db.serial
<1>1. db.serial \in Nat
  BY DEF Tidy, Tables
<1> QED BY <1>1

LEMMA RefusalEnds ==
  ASSUME Tidy(db), NEW error, error \notin {"nil", "failed"}, NEW errors, error \in errors
  PROVE  Ends(Stg!Refusal(error), errors) /\ Stg!Refusal(error).err = error
           /\ Stg!Refusal(error).fault = "nil" /\ Stg!Refusal(error).db = db
<1>1. PICK out : out = Stg!Refusal(error)
  OBVIOUS
<1>2. out.db = db /\ out.err = error /\ out.fault = "nil"
  BY <1>1 DEF Stg!Refusal, Stg!Outcome
<1>3. Ends(out, errors)
  BY <1>2, Serial DEF Ends, FaultNames
<1> QED BY <1>1, <1>2, <1>3

LEMMA FailuresEnd ==
  ASSUME Tidy(db), NEW d, NEW out \in Stg!Failures(d)
  PROVE  Ends(out, {}) /\ out.err = "failed" /\ out.fault = "statement" /\ out.db = db
<1>1. out = [db |-> db, err |-> "failed", fault |-> "statement", out |-> <<>>]
  BY DEF Stg!Failures, Stg!RolledBack, Stg!Outcome
<1> QED BY <1>1, Serial DEF Ends, FaultNames

LEMMA QueryEnds ==
  ASSUME Tidy(db), NEW rows, NEW out \in Stg!Query(rows)
  PROVE  /\ Ends(out, {}) /\ out.db = db
         /\ out.err = "nil" => out.out = rows /\ out.fault = "nil"
<1>1. CASE out \in Stg!Failures(db)
  BY <1>1, FailuresEnd
<1>2. CASE out = [db |-> db, err |-> "nil", fault |-> "nil", out |-> rows]
  BY <1>2, Serial DEF Ends, FaultNames
<1> QED BY <1>1, <1>2 DEF Stg!Query, Stg!Outcome

\* A transaction of one order writes or does not; its error is lost at most at
\* the commit.
LEMMA CommittedEnds ==
  ASSUME Tidy(db), NEW d, Tidy(d), db.serial <= d.serial, NEW out \in Stg!Committed(d)
  PROVE  Writes(out, d)
<1>1. CASE out \in Stg!Failures(d)
  BY <1>1, FailuresEnd DEF Writes
<1>2. CASE out = [db |-> d, err |-> "nil", fault |-> "nil", out |-> <<>>]
  BY <1>2, Serial DEF Writes, Ends, FaultNames
<1>3. CASE out = [db |-> db, err |-> "nil", fault |-> "commit", out |-> <<>>]
  BY <1>3, Serial DEF Writes, Ends, FaultNames
<1> QED BY <1>1, <1>2, <1>3 DEF Stg!Committed, Stg!Outcome

LEMMA EndsWeaken ==
  ASSUME NEW out, NEW errors, NEW more, errors \subseteq more, Ends(out, errors)
  PROVE  Ends(out, more)
BY DEF Ends

\* Created, or refused, by the database or because of what was asked.
Creates(out, r) ==
  /\ Ends(out, {"duplicate", "price"})
  /\ out.fault \in {"nil", "statement", "commit"}
  /\ out.fault # "nil" => out.db = db
  /\ out.err = "nil" /\ out.fault = "nil" =>
       \E row \in OrderRow : /\ row.status = "received"
                             /\ out.db.orders = [db.orders EXCEPT ![r.id] = row]
                             /\ db.orders[r.id] = None
                             /\ out.db.serial = db.serial

LEMMA PackableIsSound ==
  ASSUME NEW r, RequestType(r), Packable(r)
  PROVE  /\ Stg!GetPackager(r.wrapper, r.membrane) \in Stg!WrapperType
         /\ Stg!GetPackager(r.wrapper, r.membrane).container = r.wrapper
         /\ r.wrapper = "Bag" => r.weight = NaN \/ r.weight < 10
         /\ r.wrapper = "Box" => r.weight = NaN \/ r.weight < 30
<1>1. r.wrapper \in Stg!Containers /\ r.membrane \in BOOLEAN
  BY DEF Packable, RequestType
<1> DEFINE p == Stg!GetPackager(r.wrapper, r.membrane)
<1>2. p.container = r.wrapper /\ p.membrane = (r.membrane /\ r.wrapper # "Membrane")
  BY DEF Stg!GetPackager
<1>3. p \in Stg!WrapperType
  <2>1. PICK w, m : w = r.wrapper /\ m = p.membrane
    OBVIOUS
  <2>2. m \in BOOLEAN /\ (w = "Membrane" => m = FALSE)
    BY <1>1, <1>2, <2>1
  <2>3. p = [container |-> w, membrane |-> m]
    BY <1>2, <2>1 DEF Stg!GetPackager
  <2>4. p # [container |-> "Membrane", membrane |-> TRUE]
    BY <2>2, <2>3
  <2> HIDE DEF p
  <2> QED BY <1>1, <2>1, <2>2, <2>3, <2>4 DEF Stg!WrapperType
<1>6. r.weight \in Int \union {NaN}
  BY DEF RequestType
<1>4. r.wrapper = "Bag" => r.weight = NaN \/ r.weight < 10
  BY <1>2, <1>6 DEF Packable, Stg!ValidateWeight, Stg!Limit, Stg!AtLeast
<1>5. r.wrapper = "Box" => r.weight = NaN \/ r.weight < 30
  BY <1>2, <1>6 DEF Packable, Stg!ValidateWeight, Stg!Limit, Stg!AtLeast
<1> QED BY <1>2, <1>3, <1>4, <1>5

LEMMA AddOrderEnds ==
  ASSUME Tidy(db), now \in Nat, NEW r, RequestType(r), r.id \in Ids, Acceptable(r),
         NEW out \in Added(r)
  PROVE  Creates(out, r)
<1> DEFINE p == Stg!GetPackager(r.wrapper, r.membrane)
           row == Stg!NewRow(r, p)
<1>1. /\ p \in Stg!WrapperType /\ p.container = r.wrapper
      /\ r.wrapper = "Bag" => r.weight = NaN \/ r.weight < 10
      /\ r.wrapper = "Box" => r.weight = NaN \/ r.weight < 30
  BY PackableIsSound DEF Acceptable
<1> HIDE DEF p
<1>2. /\ row.created = now /\ row.updated = now /\ row.wrapper = p /\ row.weight = r.weight
      /\ row.status = "received"
  BY DEF Stg!NewRow, Stg!GetType
<1>3. row \in OrderRow
  <2>1. Stg!AdjustPrice(p, r.price) \in Int
    <3>1. r.price \in Int /\ r.wrapper \in Stg!Containers
      BY DEF RequestType, Acceptable, Packable
    <3>2. Stg!Surcharge(p.container) \in Int
      BY <1>1, <3>1 DEF Stg!Surcharge, Stg!Containers
    <3> QED BY <3>1, <3>2 DEF Stg!AdjustPrice
  <2>2. /\ r.user \in Users \union {Missing} /\ r.until \in Nat /\ r.weight \in Int \union {NaN}
        /\ "received" \in Statuses
    BY DEF RequestType, Statuses
  <2>3. row = [recipient |-> r.user, until |-> r.until, status |-> "received", updated |-> now,
               created |-> now, wrapper |-> p, price |-> Stg!AdjustPrice(p, r.price),
               weight |-> r.weight]
    BY DEF Stg!NewRow, Stg!GetType
  <2> HIDE DEF row
  <2> QED BY <1>1, <2>1, <2>2, <2>3 DEF OrderRow
<1> HIDE DEF row
<1>4. out \in (IF Stg!Row(r.id) # None THEN {Stg!Refusal("duplicate")} \union Stg!Failures(db)
               ELSE IF row.wrapper \notin Stg!WrapperType
                    THEN {Stg!Refusal("wrapper")} \union Stg!Failures(db)
               ELSE IF row.price \notin Stg!INTEGER THEN {Stg!Refusal("price")} \union Stg!Failures(db)
               ELSE Stg!Committed(Stg!SetRow(db, r.id, row)))
  BY DEF Added, Stg!AddOrder, p, row
<1>9. row.price \in Int /\ MaxPrice \in Int
  BY <1>3, BoundsAreNat DEF OrderRow
<1>5. CASE out \in Stg!Failures(db)
  BY <1>5, FailuresEnd, EndsWeaken DEF Creates, Ends
<1>6. CASE out = Stg!Refusal("duplicate")
  BY <1>6, RefusalEnds DEF Creates
<1>7. CASE out = Stg!Refusal("price")
  BY <1>7, RefusalEnds DEF Creates
<1>8. CASE /\ Stg!Row(r.id) = None
           /\ row.price \in Stg!INTEGER
           /\ out \in Stg!Committed(Stg!SetRow(db, r.id, row))
  <2>1. RowOk(row)
    <3>1. -(MaxPrice + 1) <= row.price /\ row.price <= MaxPrice
      BY <1>8, <1>9 DEF Stg!INTEGER
    <3> QED BY <1>1, <1>2, <3>1 DEF RowOk
  <2>2. /\ Tidy(Stg!SetRow(db, r.id, row))
        /\ Stg!SetRow(db, r.id, row).serial = db.serial
        /\ Stg!SetRow(db, r.id, row).orders = [db.orders EXCEPT ![r.id] = row]
    BY <1>3, <2>1, SetRowTidy
  <2>3. db.serial <= Stg!SetRow(db, r.id, row).serial
    BY <2>2, TidyFields
  <2>4. Writes(out, Stg!SetRow(db, r.id, row))
    BY <1>8, <2>2, <2>3, CommittedEnds
  <2>5. db.orders[r.id] = None
    BY <1>8 DEF Stg!Row
  <2> QED BY <1>2, <1>3, <2>2, <2>4, <2>5, EndsWeaken DEF Writes, Creates, Ends
<1> QED BY <1>1, <1>2, <1>4, <1>5, <1>6, <1>7, <1>8

LEMMA NotFoundEnds ==
  ASSUME Tidy(db), NEW out, out = Stg!Refusal("not found")
  PROVE  Ends(out, {"not found"}) /\ out.db = db /\ out.err = "not found" /\ out.fault = "nil"
<1>1. "not found" \notin {"nil", "failed"} /\ "not found" \in {"not found"}
  OBVIOUS
<1>2. /\ Ends(Stg!Refusal("not found"), {"not found"}) /\ Stg!Refusal("not found").db = db
      /\ Stg!Refusal("not found").err = "not found" /\ Stg!Refusal("not found").fault = "nil"
  BY <1>1, RefusalEnds, Zenon
<1> QED BY <1>2

LEMMA GetOrderEnds ==
  ASSUME Tidy(db), NEW id, NEW out \in Stg!GetOrder(id)
  PROVE  /\ Ends(out, {"not found"}) /\ out.db = db
         /\ out.err = "nil" => db.orders[id] # None
<1>1. CASE Stg!Row(id) = None /\ out = Stg!Refusal("not found")
  BY <1>1, NotFoundEnds
<1>2. CASE Stg!Row(id) = None /\ out \in Stg!Failures(db)
  BY <1>2, FailuresEnd, EndsWeaken
<1>3. CASE Stg!Row(id) # None /\ out \in Stg!Query(<<id>>)
  BY <1>3, QueryEnds, EndsWeaken DEF Stg!Row
<1> QED BY <1>1, <1>2, <1>3 DEF Stg!GetOrder

LEMMA UpdateEnds ==
  ASSUME Tidy(db), now \in Nat, NEW id \in Ids, NEW status \in Statuses,
         NEW out \in Stg!UpdateOrderStatus(id, status)
  PROVE  Ends(out, {"not found"})
<1> DEFINE row == [Stg!Row(id) EXCEPT !.status = status, !.updated = now]
<1>1. CASE out = Stg!Refusal("not found")
  BY <1>1, NotFoundEnds
<1>2. CASE out \in Stg!Failures(db)
  BY <1>2, FailuresEnd, EndsWeaken
<1>3. CASE out \in Stg!Query(<<>>)
  BY <1>3, QueryEnds, EndsWeaken
<1>4. CASE Stg!Row(id) # None /\ out \in Stg!Committed(Stg!SetRow(db, id, row))
  <2>1. PICK old : old = Stg!Row(id)
    OBVIOUS
  <2>2. old \in OrderRow /\ RowOk(old)
    BY <1>4, <2>1, TidyFields DEF Tidy, Stg!Row
  <2>3. row \in OrderRow /\ RowOk(row)
    BY <2>1, <2>2, RestatusTidy
  <2> HIDE DEF row
  <2>4. Tidy(Stg!SetRow(db, id, row)) /\ db.serial <= Stg!SetRow(db, id, row).serial
    <3>1. Tidy(Stg!SetRow(db, id, row)) /\ Stg!SetRow(db, id, row).serial = db.serial
      BY <2>3, SetRowTidy
    <3> QED BY <3>1, Serial
  <2> QED BY <1>4, <2>4, CommittedEnds, EndsWeaken DEF Writes
<1> QED BY <1>1, <1>2, <1>3, <1>4 DEF Stg!UpdateOrderStatus

LEMMA DeleteEnds ==
  ASSUME Tidy(db), NEW id \in Ids, NEW out \in Stg!DeleteOrder(id)
  PROVE  Writes(out, Deleted(db, id))
<1>1. Tidy(Deleted(db, id)) /\ db.serial <= Deleted(db, id).serial
  <2>1. Tidy(Deleted(db, id)) /\ Deleted(db, id).serial = db.serial
    BY DeletedTidy
  <2> QED BY <2>1, Serial
<1> QED BY <1>1, CommittedEnds DEF Stg!DeleteOrder, Deleted

\* What keeps an order from being handed out or taken back.
Preconditions == {"not found", "foreign", "status", "expired"}

LEMMA ItemErrors ==
  ASSUME NEW row, NEW user
  PROVE  /\ Stg!IssueError(row, user) \in Preconditions \union {"nil"}
         /\ Stg!IssueError(row, user) = "nil" =>
              row # None /\ row.status = "received" /\ row.recipient = user
         /\ Stg!ReturnError(row, user) \in Preconditions \union {"nil"}
         /\ Stg!ReturnError(row, user) = "nil" =>
              row # None /\ row.status = "issued" /\ row.recipient = user
<1>1. CASE row = None
  BY <1>1 DEF Stg!IssueError, Stg!ReturnError, Preconditions
<1>2. CASE row # None /\ row.recipient # user
  BY <1>2 DEF Stg!IssueError, Stg!ReturnError, Preconditions
<1>3. CASE row # None /\ row.recipient = user
  BY <1>3 DEF Stg!IssueError, Stg!ReturnError, Preconditions
<1> QED BY <1>1, <1>2, <1>3

\* A return of one order, or why not.
Returns(out, id) ==
  /\ Ends(out, Preconditions)
  /\ out.fault \in {"nil", "statement", "commit"}
  /\ out.fault # "nil" => out.db = db
  /\ out.err = "nil" /\ out.fault = "nil" =>
       /\ db.orders[id] # None
       /\ db.orders[id].status = "issued"
       /\ out.db.serial = db.serial + 1
       /\ out.db.orders =
            [db.orders EXCEPT ![id] = [db.orders[id] EXCEPT !.status = "returned", !.updated = now]]

LEMMA AddReturnEnds ==
  ASSUME Tidy(db), now \in Nat, NEW id \in Ids, NEW user \in Users,
         NEW out \in Stg!AddReturn(id, user)
  PROVE  Returns(out, id)
<1> DEFINE error == Stg!ReturnError(Stg!Row(id), user)
<1>1. error \in Preconditions \union {"nil"} /\ "failed" \notin Preconditions
  BY ItemErrors DEF Preconditions
<1>2. CASE error # "nil" /\ out = Stg!Refusal(error)
  <2>1. error \in Preconditions /\ error \notin {"nil", "failed"}
    BY <1>1, <1>2
  <2> HIDE DEF error
  <2> QED BY <1>2, <2>1, RefusalEnds DEF Returns
<1>3. CASE out \in Stg!Failures(db)
  BY <1>3, FailuresEnd, EndsWeaken DEF Returns
<1>4. CASE error = "nil" /\ out \in Stg!Committed(Stg!TakeBack(db, id, user))
  <2>1. db.orders[id] # None /\ db.orders[id].status = "issued"
    BY <1>4, ItemErrors DEF Stg!Row
  <2>2. PICK row : row = [db.orders[id] EXCEPT !.status = "returned", !.updated = now]
    OBVIOUS
  <2>3. /\ Tidy(Stg!TakeBack(db, id, user))
        /\ Stg!TakeBack(db, id, user).orders = [db.orders EXCEPT ![id] = row]
    BY <2>1, <2>2, TakeBackTidy
  <2>4. /\ Stg!TakeBack(db, id, user).serial = db.serial + 1
        /\ db.serial <= Stg!TakeBack(db, id, user).serial
    BY Serial, TakeBackSerial
  <2>5. Writes(out, Stg!TakeBack(db, id, user))
    BY <1>4, <2>3, <2>4, CommittedEnds
  <2> QED BY <2>1, <2>2, <2>3, <2>4, <2>5, EndsWeaken DEF Writes, Returns
<1> QED BY <1>2, <1>3, <1>4 DEF Stg!AddReturn

-----------------------------------------------------------------------------
(***************************************************************************)
(* The loop of the bulk calls.                                             *)
(***************************************************************************)
Advance(op, so, user, id) ==
  IF op = "issue" THEN Stg!Issue(so, user, id) ELSE Stg!Accept(so, user, id)

Begun == [db |-> db, results |-> <<>>]

\* so is how things stand after each of the first n items.
Runs(so, op, user, ids, n) ==
  so = [k \in 0..n |-> IF k = 0 THEN Begun ELSE Advance(op, so[k - 1], user, ids[k])]

LEMMA LeastOf ==
  ASSUME NEW T \in SUBSET Nat, T # {}
  PROVE  \E x \in T : \A y \in T : x <= y
<1>1. \E x \in T : \A y \in T : ~(<<y, x>> \in OpToRel(<, Nat))
  BY WFMin, NatLessThanWellFounded
<1>2. \A x, y \in Nat : y < x => <<y, x>> \in OpToRel(<, Nat)
  <2> TAKE x, y \in Nat
  <2> HAVE y < x
  <2>1. <<y, x>> \in Nat \X Nat /\ <<y, x>>[1] = y /\ <<y, x>>[2] = x
    OBVIOUS
  <2> QED BY <2>1, Zenon DEF OpToRel
<1>3. PICK x \in T : \A y \in T : ~(y < x)
  BY <1>1, <1>2
<1> QED BY <1>3

LEMMA RunExists ==
  ASSUME NEW op, NEW user, NEW ids, NEW n \in Nat
  PROVE  \E so : Runs(so, op, user, ids, n)
<1> DEFINE Bad == {k \in 0..n : ~ \E so : Runs(so, op, user, ids, k)}
<1>1. SUFFICES ASSUME Bad # {} PROVE FALSE
  OBVIOUS
<1>2. PICK k \in Bad : \A y \in Bad : k <= y
  <2> Bad \in SUBSET Nat
    OBVIOUS
  <2> HIDE DEF Bad
  <2> QED BY <1>1, LeastOf
<1>3. k # 0
  <2>1. Runs([j \in 0..0 |-> Begun], op, user, ids, 0)
    BY DEF Runs
  <2> QED BY <2>1
<1>4. PICK so : Runs(so, op, user, ids, k - 1)
  BY <1>2, <1>3
<1> DEFINE f == [j \in 0..k |-> IF j < k THEN so[j] ELSE Advance(op, so[k - 1], user, ids[k])]
<1>5. \A j \in 0..k : j # 0 => so[j - 1] = f[j - 1]
  OBVIOUS
<1>6. \A j \in 0..k : f[j] = IF j = 0 THEN Begun ELSE Advance(op, f[j - 1], user, ids[j])
  <2> TAKE j \in 0..k
  <2>1. CASE j = 0
    BY <2>1, <1>3, <1>4 DEF Runs
  <2>2. CASE j # 0 /\ j < k
    BY <2>2, <1>3, <1>4, <1>5 DEF Runs
  <2>3. CASE j = k
    BY <2>3, <1>3, <1>5
  <2> QED BY <2>1, <2>2, <2>3
<1>7. Runs(f, op, user, ids, k)
  BY <1>6, Zenon DEF Runs
<1> QED BY <1>7, <1>2

\* What Process computes is the end of such a run.
LEMMA ProcessRuns ==
  ASSUME NEW user, NEW ids, Len(ids) \in Nat
  PROVE  /\ \E so : /\ Runs(so, "issue", user, ids, Len(ids))
                    /\ Stg!Process(Stg!Issue, user, ids) = so[Len(ids)]
         /\ \E so : /\ Runs(so, "accept", user, ids, Len(ids))
                    /\ Stg!Process(Stg!Accept, user, ids) = so[Len(ids)]
<1> DEFINE issues == CHOOSE so : Runs(so, "issue", user, ids, Len(ids))
           accepts == CHOOSE so : Runs(so, "accept", user, ids, Len(ids))
<1>1. Runs(issues, "issue", user, ids, Len(ids))
  BY RunExists, Zenon
<1>2. Stg!Process(Stg!Issue, user, ids) = issues[Len(ids)]
  BY Zenon DEF Stg!Process, Runs, Advance, Begun
<1>3. Runs(accepts, "accept", user, ids, Len(ids))
  BY RunExists, Zenon
<1>4. Stg!Process(Stg!Accept, user, ids) = accepts[Len(ids)]
  <2>1. "accept" # "issue"
    OBVIOUS
  <2> QED BY <2>1, Zenon DEF Stg!Process, Runs, Advance, Begun
<1> HIDE DEF issues, accepts
<1> QED BY <1>1, <1>2, <1>3, <1>4

ItemResult == [order : Ids, error : Preconditions \union {"nil", "failed"}]

\* The items reported done, and the orders that are not as they were.
Goods(results) == {i \in DOMAIN results : results[i].error = "nil"}
DoneIn(results) == {results[i].order : i \in Goods(results)}
Touched(d) == {id \in Ids : d.orders[id] # db.orders[id]}

\* A batch moves orders one step on, and does nothing else to them.
Moves(op, d) ==
  \A id \in Touched(d) :
    /\ db.orders[id] # None
    /\ db.orders[id].status = IF op = "issue" THEN "received" ELSE "issued"
    /\ d.orders[id] # None
    /\ d.orders[id].status = IF op = "issue" THEN "issued" ELSE "returned"

\* One more order is moved.
MovesOne(op, d, f, id) ==
  /\ Tidy(f)
  /\ Moves(op, f)
  /\ Touched(f) = Touched(d) \union {id}
  /\ Cardinality(Touched(f)) = Cardinality(Touched(d)) + 1
  /\ f.serial = IF op = "issue" THEN d.serial ELSE d.serial + 1

\* Returns accepted in a batch that has moved n orders.
Accepted(op, n) == IF op = "issue" THEN 0 ELSE n

\* What holds of the tables and the results after the first k items: an item is
\* reported done exactly if it has moved its order.
Going(op, ids, d, results, k) ==
  /\ Tidy(d)
  /\ results \in Seq(ItemResult) /\ Len(results) = k
  /\ \A i \in 1..k : results[i].order = ids[i]
  /\ Moves(op, d)
  /\ Touched(d) = DoneIn(results)
  /\ Cardinality(Touched(d)) = Cardinality(Goods(results))
  /\ d.serial = db.serial + Accepted(op, Cardinality(Goods(results)))

LEMMA GoodsCount ==
  ASSUME NEW results \in Seq(ItemResult)
  PROVE  /\ Goods(results) \subseteq 1..Len(results)
         /\ \A i \in 1..Len(results) : i \in Goods(results) <=> results[i].error = "nil"
         /\ IsFiniteSet(Goods(results)) /\ Cardinality(Goods(results)) \in Nat
<1>1. DOMAIN results = 1..Len(results) /\ Len(results) \in Nat
  OBVIOUS
<1>2. Goods(results) \in SUBSET (1..Len(results))
  BY <1>1, Zenon DEF Goods
<1>3. \A i \in 1..Len(results) : i \in Goods(results) <=> results[i].error = "nil"
  BY <1>1, Zenon DEF Goods
<1>4. IsFiniteSet(1..Len(results))
  BY <1>1, FS_Interval
<1> QED BY <1>2, <1>3, <1>4, FS_Subset, FS_CardinalityType

LEMMA TouchedCount ==
  ASSUME NEW d
  PROVE  IsFiniteSet(Touched(d)) /\ Cardinality(Touched(d)) \in Nat
<1>1. Touched(d) \in SUBSET Ids
  BY DEF Touched
<1> QED BY <1>1, IdsFinite, FS_Subset, FS_CardinalityType

LEMMA GoingBegins ==
  ASSUME Tidy(db), NEW op, NEW ids
  PROVE  Going(op, ids, db, <<>>, 0)
<1>1. Touched(db) = {}
  BY DEF Touched
<1>2. Goods(<<>>) = {} /\ <<>> \in Seq(ItemResult) /\ Len(<<>>) = 0
  BY DEF Goods
<1>3. Cardinality({}) = 0
  BY FS_EmptySet
<1>4. Moves(op, db)
  BY <1>1 DEF Moves
<1>5. db.serial = db.serial + Accepted(op, 0)
  BY Serial DEF Accepted
<1>6. DoneIn(<<>>) = {}
  BY <1>2, Zenon DEF DoneIn
<1>7. \A i \in 1..0 : FALSE
  OBVIOUS
<1> QED BY <1>1, <1>2, <1>3, <1>4, <1>5, <1>6, <1>7, Zenon DEF Going

LEMMA OneMore ==
  ASSUME NEW k \in Nat, NEW G, NEW H, G \subseteq 1..k, H \subseteq 1..(k + 1),
         \A i \in 1..k : i \in G <=> i \in H
  PROVE  IF k + 1 \in H THEN H = G \union {k + 1} /\ k + 1 \notin G ELSE H = G
<1>1. k + 1 \notin G
  OBVIOUS
<1>2. \A i \in 1..(k + 1) : i \in 1..k \/ i = k + 1
  OBVIOUS
<1>3. \A i \in 1..k : i \in 1..(k + 1) /\ i # k + 1
  OBVIOUS
<1>4. CASE k + 1 \in H
  BY <1>1, <1>2, <1>3, <1>4
<1>5. CASE k + 1 \notin H
  <2>1. \A i \in H : i \in 1..k
    BY <1>2, <1>5
  <2>2. \A i \in H : i \in G
    BY <2>1
  <2>3. \A i \in G : i \in 1..k /\ i \in H
    OBVIOUS
  <2>4. H = G
    BY <2>2, <2>3
  <2> QED BY <1>5, <2>4
<1> QED BY <1>4, <1>5

\* A result that is added, of an item that is refused or done.
LEMMA ResultsGrow ==
  ASSUME NEW old \in Seq(ItemResult), NEW e \in ItemResult, NEW new, new = Append(old, e)
  PROVE  /\ new \in Seq(ItemResult) /\ Len(new) = Len(old) + 1
         /\ \A i \in 1..Len(old) : new[i] = old[i]
         /\ new[Len(old) + 1] = e
OBVIOUS

LEMMA GoodsGrow ==
  ASSUME NEW old \in Seq(ItemResult), NEW e \in ItemResult, NEW new, new = Append(old, e)
  PROVE  IF e.error = "nil"
         THEN Goods(new) = Goods(old) \union {Len(old) + 1} /\ Len(old) + 1 \notin Goods(old)
         ELSE Goods(new) = Goods(old)
<1>1. PICK k : k = Len(old)
  OBVIOUS
<1>2. /\ k \in Nat /\ new \in Seq(ItemResult) /\ Len(new) = k + 1
      /\ \A i \in 1..k : new[i] = old[i]
      /\ new[k + 1] = e
  BY <1>1
<1>3. PICK G, H : G = Goods(old) /\ H = Goods(new)
  OBVIOUS
<1>4. G \subseteq 1..k /\ (\A i \in 1..k : i \in G <=> old[i].error = "nil")
  BY <1>1, <1>3, GoodsCount
<1>5. H \subseteq 1..(k + 1) /\ (\A i \in 1..(k + 1) : i \in H <=> new[i].error = "nil")
  BY <1>2, <1>3, GoodsCount
<1>6. k + 1 \in 1..(k + 1) /\ (\A i \in 1..k : i \in 1..(k + 1))
  BY <1>2
<1>7. k + 1 \in H <=> e.error = "nil"
  BY <1>2, <1>5, <1>6, Zenon
<1>8. \A i \in 1..k : i \in G <=> i \in H
  BY <1>2, <1>4, <1>5, <1>6, Zenon
<1>9. IF e.error = "nil" THEN H = G \union {k + 1} /\ k + 1 \notin G ELSE H = G
  BY <1>2, <1>4, <1>5, <1>7, <1>8, OneMore, Zenon
<1> QED BY <1>1, <1>3, <1>9, Zenon

LEMMA GoodCounts ==
  ASSUME NEW old \in Seq(ItemResult), NEW e \in ItemResult, e.error = "nil",
         NEW new, new = Append(old, e)
  PROVE  /\ Cardinality(Goods(new)) = Cardinality(Goods(old)) + 1
         /\ DoneIn(new) = DoneIn(old) \union {e.order}
<1>1. PICK G, j : G = Goods(old) /\ j = Len(old) + 1
  OBVIOUS
<1>2. Goods(new) = G \union {j} /\ j \notin G
  BY <1>1, GoodsGrow, Zenon
<1>3. IsFiniteSet(G) /\ Cardinality(G) \in Nat /\ G \subseteq 1..Len(old)
  BY <1>1, GoodsCount
<1>4. Cardinality(Goods(new)) = Cardinality(G) + 1
  BY <1>2, <1>3, FS_AddElement
<1>5. (\A i \in G : new[i] = old[i]) /\ new[j] = e
  BY <1>1, <1>3, ResultsGrow
<1>6. {new[i].order : i \in G \union {j}} = {old[i].order : i \in G} \union {e.order}
  BY <1>5
<1>7. DoneIn(old) = {old[i].order : i \in G} /\ DoneIn(new) = {new[i].order : i \in G \union {j}}
  BY <1>1, <1>2, Zenon DEF DoneIn
<1> QED BY <1>1, <1>4, <1>6, <1>7, Zenon

LEMMA BadCounts ==
  ASSUME NEW old \in Seq(ItemResult), NEW e \in ItemResult, e.error # "nil",
         NEW new, new = Append(old, e)
  PROVE  Goods(new) = Goods(old) /\ DoneIn(new) = DoneIn(old)
<1>1. PICK G : G = Goods(old)
  OBVIOUS
<1>2. Goods(new) = G
  BY <1>1, GoodsGrow, Zenon
<1>3. G \subseteq 1..Len(old)
  BY <1>1, GoodsCount
<1>4. \A i \in G : new[i] = old[i]
  BY <1>3, ResultsGrow
<1>5. DoneIn(old) = {old[i].order : i \in G} /\ DoneIn(new) = {new[i].order : i \in G}
  BY <1>1, <1>2, Zenon DEF DoneIn
<1>6. {new[i].order : i \in G} = {old[i].order : i \in G}
  BY <1>4
<1> QED BY <1>1, <1>2, <1>5, <1>6, Zenon

\* An order that is moved one step on: it was still as the batch found it, since
\* those that were moved before have another status.
LEMMA TablesMove ==
  ASSUME NEW op \in {"issue", "accept"}, NEW d, NEW f, Tidy(db), Tidy(d), Moves(op, d),
         NEW id \in Ids, d.orders[id] # None,
         d.orders[id].status = (IF op = "issue" THEN "received" ELSE "issued"),
         NEW row \in OrderRow, row.status = (IF op = "issue" THEN "issued" ELSE "returned"),
         f.orders = [d.orders EXCEPT ![id] = row]
  PROVE  /\ Moves(op, f)
         /\ Touched(f) = Touched(d) \union {id}
         /\ Cardinality(Touched(f)) = Cardinality(Touched(d)) + 1
<1>1. PICK before, after, start : before = d.orders /\ after = f.orders /\ start = db.orders
  OBVIOUS
<1>2. /\ before \in [Ids -> OrderRow \union {None}]
      /\ start \in [Ids -> OrderRow \union {None}]
  BY <1>1, TidyFields
<1>3. \A i \in Ids : after[i] = IF i = id THEN row ELSE before[i]
  BY <1>1, <1>2
<1>4. row # None
  BY NoneIsApart
<1>5. /\ before[id] # None
      /\ before[id].status = IF op = "issue" THEN "received" ELSE "issued"
  BY <1>1
<1>6. id \notin Touched(d)
  <2>1. ASSUME id \in Touched(d) PROVE FALSE
    <3>1. before[id].status = IF op = "issue" THEN "issued" ELSE "returned"
      BY <2>1, <1>1 DEF Moves
    <3> QED BY <3>1, <1>5
  <2> QED BY <2>1
<1>7. before[id] = start[id]
  BY <1>1, <1>6 DEF Touched
<1>8. row # start[id]
  BY <1>5, <1>7
<1>9. Touched(f) = Touched(d) \union {id}
  BY <1>1, <1>3, <1>8 DEF Touched
<1>10. Cardinality(Touched(f)) = Cardinality(Touched(d)) + 1
  BY <1>6, <1>9, TouchedCount, FS_AddElement
<1>11. ASSUME NEW i \in Touched(f)
       PROVE  /\ start[i] # None
              /\ start[i].status = IF op = "issue" THEN "received" ELSE "issued"
              /\ after[i] # None
              /\ after[i].status = IF op = "issue" THEN "issued" ELSE "returned"
  <2>1. CASE i = id
    BY <2>1, <1>3, <1>4, <1>5, <1>7
  <2>2. CASE i # id
    <3>1. i \in Touched(d) /\ i \in Ids
      BY <2>2, <1>9 DEF Touched
    <3>2. after[i] = before[i]
      BY <2>2, <3>1, <1>3
    <3>3. /\ start[i] # None
          /\ start[i].status = IF op = "issue" THEN "received" ELSE "issued"
          /\ before[i] # None
          /\ before[i].status = IF op = "issue" THEN "issued" ELSE "returned"
      BY <3>1, <1>1 DEF Moves
    <3> QED BY <3>2, <3>3
  <2> QED BY <2>1, <2>2
<1> HIDE DEF Touched
<1>12. Moves(op, f)
  BY <1>1, <1>11 DEF Moves
<1> QED BY <1>9, <1>10, <1>12

LEMMA GoingRefused ==
  ASSUME NEW op, NEW ids, NEW k \in Nat, NEW d, NEW old, Going(op, ids, d, old, k),
         NEW e \in ItemResult, e.order = ids[k + 1], e.error # "nil"
  PROVE  Going(op, ids, d, Append(old, e), k + 1)
<1>1. PICK new : new = Append(old, e)
  OBVIOUS
<1>2. old \in Seq(ItemResult) /\ Len(old) = k /\ (\A i \in 1..k : old[i].order = ids[i])
  BY DEF Going
<1>3. /\ new \in Seq(ItemResult) /\ Len(new) = k + 1
      /\ \A i \in 1..k : new[i] = old[i]
      /\ new[k + 1] = e
      /\ Goods(new) = Goods(old)
      /\ DoneIn(new) = DoneIn(old)
  <2>1. /\ new \in Seq(ItemResult) /\ Len(new) = Len(old) + 1
        /\ \A i \in 1..Len(old) : new[i] = old[i]
        /\ new[Len(old) + 1] = e
    BY <1>1, <1>2, ResultsGrow
  <2>2. Goods(new) = Goods(old) /\ DoneIn(new) = DoneIn(old)
    BY <1>1, <1>2, BadCounts
  <2> QED BY <1>2, <2>1, <2>2, Zenon
<1>4. \A i \in 1..(k + 1) : i \in 1..k \/ i = k + 1
  OBVIOUS
<1>5. \A i \in 1..(k + 1) : new[i].order = ids[i]
  BY <1>2, <1>3, <1>4, Zenon
<1>6. Going(op, ids, d, new, k + 1)
  BY <1>3, <1>5, Zenon DEF Going
<1> QED BY <1>1, <1>6

LEMMA GoingDone ==
  ASSUME Tidy(db), NEW op, NEW ids, NEW k \in Nat, NEW d, NEW old, Going(op, ids, d, old, k),
         NEW e \in ItemResult, e.order = ids[k + 1], e.error = "nil",
         NEW f, MovesOne(op, d, f, e.order)
  PROVE  Going(op, ids, f, Append(old, e), k + 1)
<1>1. PICK new : new = Append(old, e)
  OBVIOUS
<1>2. old \in Seq(ItemResult) /\ Len(old) = k /\ (\A i \in 1..k : old[i].order = ids[i])
  BY DEF Going
<1>3. /\ new \in Seq(ItemResult) /\ Len(new) = k + 1
      /\ \A i \in 1..k : new[i] = old[i]
      /\ new[k + 1] = e
      /\ Cardinality(Goods(new)) = Cardinality(Goods(old)) + 1
      /\ DoneIn(new) = DoneIn(old) \union {e.order}
  <2>1. /\ new \in Seq(ItemResult) /\ Len(new) = Len(old) + 1
        /\ \A i \in 1..Len(old) : new[i] = old[i]
        /\ new[Len(old) + 1] = e
    BY <1>1, <1>2, ResultsGrow
  <2>2. /\ Cardinality(Goods(new)) = Cardinality(Goods(old)) + 1
        /\ DoneIn(new) = DoneIn(old) \union {e.order}
    BY <1>1, <1>2, GoodCounts
  <2> QED BY <1>2, <2>1, <2>2, Zenon
<1>4. \A i \in 1..(k + 1) : i \in 1..k \/ i = k + 1
  OBVIOUS
<1>5. \A i \in 1..(k + 1) : new[i].order = ids[i]
  BY <1>2, <1>3, <1>4, Zenon
<1>6. /\ Touched(f) = DoneIn(new)
      /\ Cardinality(Touched(f)) = Cardinality(Goods(new))
  BY <1>3, Zenon DEF Going, MovesOne
<1>7. f.serial = db.serial + Accepted(op, Cardinality(Goods(new)))
  <2>1. PICK m, n, a, b : /\ m = Cardinality(Goods(old)) /\ n = Cardinality(Goods(new))
                          /\ a = db.serial /\ b = f.serial
    OBVIOUS
  <2>2. m \in Nat /\ a \in Nat /\ n = m + 1
    BY <1>2, <1>3, <2>1, GoodsCount, Serial
  <2>3. d.serial = a + Accepted(op, m) /\ b = IF op = "issue" THEN d.serial ELSE d.serial + 1
    BY <2>1, Zenon DEF Going, MovesOne
  <2>4. b = a + Accepted(op, n)
    BY <2>2, <2>3 DEF Accepted
  <2> QED BY <2>1, <2>4
<1>8. Going(op, ids, f, new, k + 1)
  BY <1>3, <1>5, <1>6, <1>7, Zenon DEF Going, MovesOne
<1> QED BY <1>1, <1>8

LEMMA GoingAdvances ==
  ASSUME Tidy(db), now \in Nat, NEW op \in {"issue", "accept"}, NEW user \in Users,
         NEW ids \in Seq(Ids), NEW k \in Nat, k < Len(ids), NEW s, NEW t,
         t = Advance(op, s, user, ids[k + 1]), Going(op, ids, s.db, s.results, k)
  PROVE  Going(op, ids, t.db, t.results, k + 1)
<1>1. PICK id, d, old : id = ids[k + 1] /\ d = s.db /\ old = s.results
  OBVIOUS
<1>2. id \in Ids
  BY <1>1
<1>3. Going(op, ids, d, old, k)
  BY <1>1
<1>4. Tidy(d) /\ Moves(op, d)
  BY <1>3 DEF Going
<1>5. CASE op = "issue"
  <2>1. PICK error : error = Stg!IssueError(d.orders[id], user)
    OBVIOUS
  <2>2. PICK e : e = Stg!Result(id, error)
    OBVIOUS
  <2>3. /\ t.db = IF error = "nil" THEN Stg!HandOut(d, id) ELSE d
        /\ t.results = Append(old, e)
    BY <1>1, <1>5, <2>1, <2>2 DEF Advance, Stg!Issue
  <2>4. error \in Preconditions \union {"nil"}
    BY <2>1, ItemErrors
  <2>5. e \in ItemResult /\ e.order = id /\ e.error = error
    BY <1>2, <2>2, <2>4 DEF Stg!Result, ItemResult
  <2>6. CASE error # "nil"
    <3>1. Going(op, ids, d, Append(old, e), k + 1)
      BY <1>1, <1>3, <2>5, <2>6, GoingRefused
    <3> QED BY <1>1, <2>3, <2>6, <3>1
  <2>7. CASE error = "nil"
    <3>1. PICK f : f = Stg!HandOut(d, id)
      OBVIOUS
    <3>2. d.orders[id] # None /\ d.orders[id].status = "received"
      <4>1. PICK row : row = d.orders[id]
        OBVIOUS
      <4>2. Stg!IssueError(row, user) = "nil"
        BY <2>1, <2>7, <4>1
      <4>3. row # None /\ row.status = "received"
        BY <4>2, ItemErrors
      <4> QED BY <4>1, <4>3
    <3>3. PICK row : row = [d.orders[id] EXCEPT !.status = "issued", !.updated = now]
      OBVIOUS
    <3>4. /\ Tidy(f) /\ f.serial = d.serial
          /\ f.orders = [d.orders EXCEPT ![id] = row]
      BY <1>2, <1>4, <3>1, <3>2, <3>3, HandOutTidy
    <3>5. row \in OrderRow /\ row.status = "issued"
      <4>1. d.orders[id] \in OrderRow
        BY <1>2, <1>4, <3>2, TidyFields
      <4> QED BY <3>3, <4>1 DEF OrderRow, Statuses
    <3>6. /\ Moves(op, f) /\ Touched(f) = Touched(d) \union {id}
          /\ Cardinality(Touched(f)) = Cardinality(Touched(d)) + 1
      BY <1>2, <1>4, <1>5, <3>2, <3>4, <3>5, TablesMove
    <3>7. MovesOne(op, d, f, id)
      BY <1>5, <3>4, <3>6 DEF MovesOne
    <3>8. Going(op, ids, f, Append(old, e), k + 1)
      BY <1>1, <1>3, <2>5, <2>7, <3>7, GoingDone
    <3> QED BY <1>1, <2>3, <2>7, <3>1, <3>8
  <2> QED BY <2>6, <2>7
<1>6. CASE op = "accept"
  <2>1. PICK error : error = Stg!ReturnError(d.orders[id], user)
    OBVIOUS
  <2>2. PICK e : e = Stg!Result(id, error)
    OBVIOUS
  <2>3. /\ t.db = IF error = "nil" THEN Stg!TakeBack(d, id, user) ELSE d
        /\ t.results = Append(old, e)
    BY <1>1, <1>6, <2>1, <2>2 DEF Advance, Stg!Accept
  <2>4. error \in Preconditions \union {"nil"}
    BY <2>1, ItemErrors
  <2>5. e \in ItemResult /\ e.order = id /\ e.error = error
    BY <1>2, <2>2, <2>4 DEF Stg!Result, ItemResult
  <2>6. CASE error # "nil"
    <3>1. Going(op, ids, d, Append(old, e), k + 1)
      BY <1>1, <1>3, <2>5, <2>6, GoingRefused
    <3> QED BY <1>1, <2>3, <2>6, <3>1
  <2>7. CASE error = "nil"
    <3>1. PICK f : f = Stg!TakeBack(d, id, user)
      OBVIOUS
    <3>2. d.orders[id] # None /\ d.orders[id].status = "issued"
      <4>1. PICK row : row = d.orders[id]
        OBVIOUS
      <4>2. Stg!ReturnError(row, user) = "nil"
        BY <2>1, <2>7, <4>1
      <4>3. row # None /\ row.status = "issued"
        BY <4>2, ItemErrors
      <4> QED BY <4>1, <4>3
    <3>3. PICK row : row = [d.orders[id] EXCEPT !.status = "returned", !.updated = now]
      OBVIOUS
    <3>4. /\ Tidy(f) /\ f.serial = d.serial + 1
          /\ f.orders = [d.orders EXCEPT ![id] = row]
      <4>1. Tidy(f) /\ f.orders = [d.orders EXCEPT ![id] = row]
        BY <1>2, <1>4, <3>1, <3>2, <3>3, TakeBackTidy, ZenonT(40)
      <4>2. f.serial = d.serial + 1
        BY <1>4, <3>1, TakeBackSerial
      <4> QED BY <4>1, <4>2
    <3>5. row \in OrderRow /\ row.status = "returned"
      <4>1. d.orders[id] \in OrderRow
        BY <1>2, <1>4, <3>2, TidyFields
      <4> QED BY <3>3, <4>1 DEF OrderRow, Statuses
    <3>6. /\ Moves(op, f) /\ Touched(f) = Touched(d) \union {id}
          /\ Cardinality(Touched(f)) = Cardinality(Touched(d)) + 1
      BY <1>2, <1>4, <1>6, <3>2, <3>4, <3>5, TablesMove
    <3>7. MovesOne(op, d, f, id)
      BY <1>6, <3>4, <3>6 DEF MovesOne
    <3>8. Going(op, ids, f, Append(old, e), k + 1)
      BY <1>1, <1>3, <2>5, <2>7, <3>7, GoingDone
    <3> QED BY <1>1, <2>3, <2>7, <3>1, <3>8
  <2> QED BY <2>6, <2>7
<1> QED BY <1>5, <1>6

\* So a run ends with every item told rightly.
LEMMA RunGoes ==
  ASSUME Tidy(db), now \in Nat, NEW op \in {"issue", "accept"}, NEW user \in Users,
         NEW ids \in Seq(Ids), NEW so, Runs(so, op, user, ids, Len(ids))
  PROVE  \A k \in 0..Len(ids) : Going(op, ids, so[k].db, so[k].results, k)
<1> DEFINE Bad == {k \in 0..Len(ids) : ~Going(op, ids, so[k].db, so[k].results, k)}
<1>1. SUFFICES ASSUME Bad # {} PROVE FALSE
  OBVIOUS
<1>2. PICK k \in Bad : \A y \in Bad : k <= y
  <2> Bad \in SUBSET Nat
    OBVIOUS
  <2> HIDE DEF Bad
  <2> QED BY <1>1, LeastOf
<1>3. k \in 0..Len(ids) /\ Len(ids) \in Nat /\ ~Going(op, ids, so[k].db, so[k].results, k)
  OBVIOUS
<1>4. k # 0
  BY <1>3, GoingBegins DEF Runs, Begun
<1>5. k - 1 \in 0..Len(ids) /\ k - 1 \notin Bad
  BY <1>2, <1>3, <1>4
<1>6. Going(op, ids, so[k - 1].db, so[k - 1].results, k - 1)
  BY <1>5
<1>7. so[k] = Advance(op, so[k - 1], user, ids[k])
  BY <1>3, <1>4 DEF Runs
<1> HIDE DEF Bad
<1>8. k - 1 \in Nat /\ k - 1 < Len(ids) /\ (k - 1) + 1 = k
  BY <1>3, <1>4
<1>9. PICK j, s, t : j = k - 1 /\ s = so[k - 1] /\ t = so[k]
  OBVIOUS
<1>10. Going(op, ids, t.db, t.results, j + 1)
  BY <1>6, <1>7, <1>8, <1>9, GoingAdvances
<1> QED BY <1>3, <1>8, <1>9, <1>10

-----------------------------------------------------------------------------
(***************************************************************************)
(* The bulk calls.                                                         *)
(***************************************************************************)
\* How a bulk call ends: rolled back with the results it had, or committed with
\* the results told right, unless the acknowledgement was lost.
Batch(out, op, ids) ==
  /\ Ends(out, {})
  /\ out.fault \in {"nil", "statement", "item", "batch", "ack"}
  /\ out.out \in Seq(ItemResult)
  /\ out.err = "nil" =>
       Len(out.out) = Len(ids) /\ (\A i \in 1..Len(ids) : out.out[i].order = ids[i])
  /\ out.fault \in {"statement", "item", "batch"} => out.db = db
  /\ out.fault \in {"statement", "batch", "ack"} => Goods(out.out) = {}
  /\ out.fault \in {"nil", "ack"} =>
       /\ Moves(op, out.db)
       /\ out.db.serial = db.serial + Accepted(op, Cardinality(Touched(out.db)))
  /\ out.fault = "nil" =>
       /\ Touched(out.db) = DoneIn(out.out)
       /\ Cardinality(Touched(out.db)) = Cardinality(Goods(out.out))

LEMMA Cleared ==
  ASSUME NEW results \in Seq(ItemResult), NEW cleared, cleared = Stg!ClearSuccess(results)
  PROVE  /\ cleared \in Seq(ItemResult) /\ Len(cleared) = Len(results)
         /\ \A i \in 1..Len(results) : cleared[i].order = results[i].order
         /\ Goods(cleared) = {}
<1>1. DOMAIN results = 1..Len(results) /\ Len(results) \in Nat
  OBVIOUS
<1>2. PICK n : n = Len(results)
  OBVIOUS
<1>3. cleared = [i \in 1..n |->
        IF results[i].error = "nil" THEN [results[i] EXCEPT !.error = "failed"] ELSE results[i]]
  BY <1>1, <1>2 DEF Stg!ClearSuccess
<1>4. ASSUME NEW i \in 1..n
      PROVE  /\ cleared[i] \in ItemResult /\ cleared[i].order = results[i].order
             /\ cleared[i].error # "nil"
  <2>1. PICK e : e = results[i]
    OBVIOUS
  <2>2. e \in ItemResult
    BY <1>1, <1>2, <2>1
  <2>3. cleared[i] = IF e.error = "nil" THEN [e EXCEPT !.error = "failed"] ELSE e
    BY <1>3, <2>1
  <2>4. CASE e.error = "nil"
    BY <2>1, <2>2, <2>3, <2>4 DEF ItemResult
  <2>5. CASE e.error # "nil"
    BY <2>1, <2>2, <2>3, <2>5
  <2> QED BY <2>4, <2>5
<1>5. cleared \in [1..n -> ItemResult]
  BY <1>3, <1>4
<1>6. cleared \in Seq(ItemResult) /\ Len(cleared) = n
  BY <1>1, <1>2, <1>5
<1>7. Goods(cleared) = {}
  BY <1>4, <1>6, GoodsCount
<1> QED BY <1>2, <1>4, <1>6, <1>7

LEMMA RolledBackEnds ==
  ASSUME Tidy(db), NEW op, NEW ids, NEW d, NEW results \in Seq(ItemResult), Goods(results) = {},
         NEW out, out = Stg!RolledBack(d, results)
  PROVE  Batch(out, op, ids)
<1>1. out.db = db /\ out.err = "failed" /\ out.fault = "statement" /\ out.out = results
  BY DEF Stg!RolledBack, Stg!Outcome
<1>2. Ends(out, {})
  BY <1>1, Serial DEF Ends, FaultNames
<1> QED BY <1>1, <1>2 DEF Batch

LEMMA BrokenOffEnds ==
  ASSUME Tidy(db), NEW op, NEW ids \in Seq(Ids), NEW all, all.results \in Seq(ItemResult),
         Len(all.results) = Len(ids), NEW k \in DOMAIN ids,
         NEW out, out = Stg!BreaksOff(all, ids, k)
  PROVE  Batch(out, op, ids)
<1>1. PICK results, e : /\ results = SubSeq(all.results, 1, k - 1)
                        /\ e = Stg!Result(ids[k], "failed")
  OBVIOUS
<1>2. out = [db |-> db, err |-> "failed", fault |-> "item", out |-> Append(results, e)]
  BY <1>1 DEF Stg!BreaksOff, Stg!RolledBack, Stg!Outcome
<1>3. e \in ItemResult
  BY <1>1 DEF Stg!Result, ItemResult
<1>4. results \in Seq(ItemResult)
  <2>1. PICK old : old = all.results
    OBVIOUS
  <2>2. old \in Seq(ItemResult) /\ k \in 1..Len(old) /\ Len(old) \in Nat
    BY <2>1
  <2>3. SubSeq(old, 1, k - 1) \in Seq(ItemResult)
    BY <2>2
  <2> QED BY <1>1, <2>1, <2>3
<1>5. Append(results, e) \in Seq(ItemResult)
  BY <1>3, <1>4
<1>6. /\ out.db = db /\ out.err = "failed" /\ out.fault = "item"
      /\ out.out \in Seq(ItemResult)
  BY <1>2, <1>5
<1>7. Ends(out, {})
  BY <1>6, Serial DEF Ends, FaultNames
<1> QED BY <1>6, <1>7 DEF Batch

LEMMA BulkEnds ==
  ASSUME Tidy(db), NEW op, NEW ids \in Seq(Ids), NEW all,
         Going(op, ids, all.db, all.results, Len(ids)), NEW out \in Stg!Bulk(all, ids)
  PROVE  Batch(out, op, ids)
<1>1. PICK d, results, n, g : /\ d = all.db /\ results = all.results /\ n = Len(ids)
                              /\ g = Cardinality(Goods(results))
  OBVIOUS
<1>2. /\ Tidy(d) /\ Moves(op, d)
      /\ results \in Seq(ItemResult) /\ Len(results) = n
      /\ \A i \in 1..n : results[i].order = ids[i]
      /\ Touched(d) = DoneIn(results)
      /\ Cardinality(Touched(d)) = g
      /\ d.serial = db.serial + Accepted(op, g)
  BY <1>1, Zenon DEF Going
<1>3. db.serial <= d.serial
  <2>1. g \in Nat /\ db.serial \in Nat
    BY <1>1, <1>2, GoodsCount, Serial
  <2> QED BY <1>2, <2>1 DEF Accepted
<1>4. PICK cleared : cleared = Stg!ClearSuccess(results)
  OBVIOUS
<1>5. /\ cleared \in Seq(ItemResult) /\ Len(cleared) = n
      /\ \A i \in 1..n : cleared[i].order = ids[i]
      /\ Goods(cleared) = {}
  BY <1>2, <1>4, Cleared
<1>6. \/ out = Stg!Outcome(d, "nil", "nil", results)
      \/ out = Stg!RolledBack(d, <<>>)
      \/ out = Stg!RolledBack(d, cleared)
      \/ \E k \in DOMAIN ids : out = Stg!BreaksOff(all, ids, k)
      \/ out = Stg!Outcome(db, "nil", "batch", cleared)
      \/ out = Stg!Outcome(d, "nil", "ack", cleared)
  BY <1>1, <1>4 DEF Stg!Bulk
<1>7. CASE out = Stg!Outcome(d, "nil", "nil", results)
  <2>1. out.db = d /\ out.err = "nil" /\ out.fault = "nil" /\ out.out = results
    BY <1>7 DEF Stg!Outcome
  <2>2. Ends(out, {})
    BY <1>2, <1>3, <2>1 DEF Ends, FaultNames
  <2> QED BY <1>1, <1>2, <2>1, <2>2 DEF Batch
<1>8. CASE out = Stg!RolledBack(d, <<>>)
  <2>1. <<>> \in Seq(ItemResult) /\ Goods(<<>>) = {}
    BY DEF Goods
  <2> QED BY <1>8, <2>1, RolledBackEnds
<1>9. CASE out = Stg!RolledBack(d, cleared)
  BY <1>5, <1>9, RolledBackEnds
<1>10. CASE \E k \in DOMAIN ids : out = Stg!BreaksOff(all, ids, k)
  <2>1. PICK k \in DOMAIN ids : out = Stg!BreaksOff(all, ids, k)
    BY <1>10
  <2> QED BY <1>1, <1>2, <2>1, BrokenOffEnds
<1>11. CASE out = Stg!Outcome(db, "nil", "batch", cleared)
  <2>1. out.db = db /\ out.err = "nil" /\ out.fault = "batch" /\ out.out = cleared
    BY <1>11 DEF Stg!Outcome
  <2>2. Ends(out, {})
    BY <2>1, Serial DEF Ends, FaultNames
  <2> QED BY <1>1, <1>5, <2>1, <2>2 DEF Batch
<1>12. CASE out = Stg!Outcome(d, "nil", "ack", cleared)
  <2>1. out.db = d /\ out.err = "nil" /\ out.fault = "ack" /\ out.out = cleared
    BY <1>12 DEF Stg!Outcome
  <2>2. Ends(out, {})
    BY <1>2, <1>3, <2>1 DEF Ends, FaultNames
  <2> QED BY <1>1, <1>2, <1>5, <2>1, <2>2 DEF Batch
<1> QED BY <1>6, <1>7, <1>8, <1>9, <1>10, <1>11, <1>12

LEMMA BulkCallsEnd ==
  ASSUME Tidy(db), now \in Nat, NEW user \in Users, NEW ids \in Seq(Ids), NEW out
  PROVE  /\ out \in Stg!IssueOrders(user, ids) => Batch(out, "issue", ids)
         /\ out \in Stg!AcceptReturns(user, ids) => Batch(out, "accept", ids)
<1>1. Len(ids) \in Nat
  OBVIOUS
<1>2. ASSUME out \in Stg!IssueOrders(user, ids) PROVE Batch(out, "issue", ids)
  <2>1. PICK so : /\ Runs(so, "issue", user, ids, Len(ids))
                  /\ Stg!Process(Stg!Issue, user, ids) = so[Len(ids)]
    BY <1>1, ProcessRuns
  <2>2. PICK all : all = so[Len(ids)]
    OBVIOUS
  <2>3. Going("issue", ids, all.db, all.results, Len(ids))
    BY <1>1, <2>1, <2>2, RunGoes
  <2>4. out \in Stg!Bulk(all, ids)
    BY <1>2, <2>1, <2>2, Zenon DEF Stg!IssueOrders
  <2> QED BY <2>3, <2>4, BulkEnds
<1>3. ASSUME out \in Stg!AcceptReturns(user, ids) PROVE Batch(out, "accept", ids)
  <2>1. PICK so : /\ Runs(so, "accept", user, ids, Len(ids))
                  /\ Stg!Process(Stg!Accept, user, ids) = so[Len(ids)]
    BY <1>1, ProcessRuns
  <2>2. PICK all : all = so[Len(ids)]
    OBVIOUS
  <2>3. Going("accept", ids, all.db, all.results, Len(ids))
    BY <1>1, <2>1, <2>2, RunGoes
  <2>4. out \in Stg!Bulk(all, ids)
    BY <1>3, <2>1, <2>2, Zenon DEF Stg!AcceptReturns
  <2> QED BY <2>3, <2>4, BulkEnds
<1> QED BY <1>2, <1>3

-----------------------------------------------------------------------------
(***************************************************************************)
(* The lists.                                                              *)
(***************************************************************************)
\* A list of the rows of a finite set has each of them.
LEMMA ListHasAll ==
  ASSUME NEW S, IsFiniteSet(S), NEW s \in SetToSeqs(S)
  PROVE  /\ s \in Seq(S) /\ Len(s) = Cardinality(S)
         /\ \A i, j \in 1..Len(s) : i # j => s[i] # s[j]
         /\ ToSet(s) = S
<1>1. PICK n : n = Cardinality(S)
  OBVIOUS
<1>2. n \in Nat
  BY <1>1, FS_CardinalityType
<1>3. s \in [1..n -> S] /\ \A i, j \in 1..n : i # j => s[i] # s[j]
  BY <1>1, Zenon DEF SetToSeqs
<1>4. s \in Seq(S) /\ Len(s) = n /\ DOMAIN s = 1..n
  BY <1>2, <1>3
<1>5. s \in Injection(1..n, S)
  BY <1>3, Zenon DEF Injection, IsInjective
<1>6. Cardinality(1..n) = n
  BY <1>2, FS_Interval
<1>7. s \in Surjection(1..n, S)
  BY <1>1, <1>5, <1>6, FS_Injection
<1>8. \A t \in S : \E i \in 1..n : s[i] = t
  BY <1>7 DEF Surjection
<1>9. ToSet(s) = S
  BY <1>3, <1>4, <1>8 DEF ToSet
<1> QED BY <1>1, <1>3, <1>4, <1>9

\* StorageCalls brings the operators of its own library modules.
LEMMA SameLists ==
  ASSUME NEW S
  PROVE  Stg!SetToSeqs(S) = SetToSeqs(S)
<1>1. Stg!Cardinality(S) = Cardinality(S)
  BY DEF Stg!Cardinality, Cardinality
<1> QED BY <1>1, Zenon DEF Stg!SetToSeqs, SetToSeqs

LEMMA UserOrdersEnd ==
  ASSUME Tidy(db), NEW user, NEW last \in Int, NEW active \in BOOLEAN,
         NEW out \in Stg!GetUserOrders(user, last, active)
  PROVE  /\ Ends(out, {}) /\ out.db = db
         /\ out.err = "nil" /\ last <= 0 /\ active =>
              ToSet(out.out) = {id \in Ids : /\ db.orders[id] # None
                                             /\ db.orders[id].recipient = user
                                             /\ Stg!Waiting(db.orders[id])}
<1> DEFINE rows == {id \in Ids : /\ Stg!Row(id) # None
                                 /\ Stg!Row(id).recipient = user
                                 /\ active => Stg!Waiting(Stg!Row(id))}
<1>1. \E s \in SetToSeqs(rows) : out \in Stg!Query(IF last > 0 THEN Stg!Prefix(s, last) ELSE s)
  <2> DEFINE Created(id) == Stg!Row(id).created
  <2>1. out \in UNION {Stg!Query(IF last > 0 THEN Stg!Prefix(s, last) ELSE s) :
                        s \in Stg!Latest(rows, Created)}
    BY Zenon DEF Stg!GetUserOrders
  <2>2. \A s \in Stg!Latest(rows, Created) : s \in SetToSeqs(rows)
    BY SameLists, Zenon DEF Stg!Latest
  <2> HIDE DEF Created, rows
  <2> QED BY <2>1, <2>2, Zenon
<1>2. rows \in SUBSET Ids
  OBVIOUS
<1>3. active => rows = {id \in Ids : /\ db.orders[id] # None
                                     /\ db.orders[id].recipient = user
                                     /\ Stg!Waiting(db.orders[id])}
  BY DEF Stg!Row
<1> HIDE DEF rows
<1>4. PICK s \in SetToSeqs(rows) : out \in Stg!Query(IF last > 0 THEN Stg!Prefix(s, last) ELSE s)
  BY <1>1
<1>5. ToSet(s) = rows
  BY <1>2, IdsFinite, FS_Subset, ListHasAll
<1>6. /\ Ends(out, {}) /\ out.db = db
      /\ out.err = "nil" => out.out = IF last > 0 THEN Stg!Prefix(s, last) ELSE s
  BY <1>4, QueryEnds
<1>7. last <= 0 => ~(last > 0)
  OBVIOUS
<1> QED BY <1>3, <1>5, <1>6, <1>7, Zenon

\* Every return has an id of its own, so there are finitely many.
LEMMA ReturnsFinite ==
  ASSUME NEW d, Tidy(d)
  PROVE  IsFiniteSet(d.returns)
<1>1. PICK S, n : S = d.returns /\ n = d.serial
  OBVIOUS
<1>2. /\ n \in Nat
      /\ \A x \in S : x.id \in 1..n
      /\ \A x, y \in S : x.id = y.id => x = y
  BY <1>1, TidyFields DEF Tidy
<1> DEFINE f == [x \in S |-> x.id]
<1>3. f \in Injection(S, 1..n)
  BY <1>2 DEF Injection, IsInjective
<1>4. IsFiniteSet(1..n)
  BY <1>2, FS_Interval
<1> HIDE DEF f
<1>5. IsFiniteSet(S)
  BY <1>3, <1>4, FS_Injection
<1> QED BY <1>1, <1>5

LEMMA PageOf ==
  ASSUME NEW S, NEW s \in Seq(S), NEW from \in Nat, NEW limit \in Nat, NEW page,
         page = Stg!Prefix(SubSeq(s, from + 1, Len(s)), limit)
  PROVE  page \in Seq(S) /\ Len(page) <= limit
<1>1. PICK rest : rest = SubSeq(s, from + 1, Len(s))
  OBVIOUS
<1>2. rest \in Seq(S) /\ Len(rest) \in Nat
  BY <1>1
<1>3. PICK n : n = IF limit < Len(rest) THEN limit ELSE Len(rest)
  OBVIOUS
<1>4. n \in Nat /\ n <= limit /\ n <= Len(rest)
  BY <1>2, <1>3
<1>5. page = SubSeq(rest, 1, n)
  BY <1>1, <1>3 DEF Stg!Prefix
<1>6. page \in Seq(S) /\ Len(page) = n
  BY <1>2, <1>4, <1>5
<1> QED BY <1>4, <1>6

LEMMA WrapType ==
  ASSUME NEW n \in Int
  PROVE  Stg!Wrap(n) \in Int
BY WordIsPositive DEF Stg!Wrap

\* What fits in an int is not wrapped.
LEMMA WrapFits ==
  ASSUME NEW n \in Nat, n < Word \div 2
  PROVE  Stg!Wrap(n) = n
<1>1. PICK half : half = Word \div 2
  OBVIOUS
<1>2. Word \in Nat /\ Word > 0 /\ half \in Nat /\ 2 * half <= Word
  BY <1>1, WordIsPositive
<1>3. n + half \in 0..(Word - 1)
  BY <1>1, <1>2
<1>4. (n + half) % Word = n + half
  BY <1>2, <1>3
<1> QED BY <1>1, <1>2, <1>4 DEF Stg!Wrap

\* The returns later than x, and the rows that share their time with no other.
Later(x) == {y \in db.returns : y.at > x.at}
Lone(x) == \A y \in db.returns : y.at = x.at => y = x
IdsOf(page) == {page[i].id : i \in DOMAIN page}

\* A page that starts after from rows leaves out a lone row, which is not on the
\* pages before it, only if the page is full and the row comes behind it.
MissesNone(page, from, limit) ==
  \A x \in db.returns :
    Lone(x) /\ from <= Cardinality(Later(x)) /\ x.id \notin IdsOf(page) =>
      Len(page) = limit /\ from + limit <= Cardinality(Later(x))

LEMMA LatestFirst ==
  ASSUME NEW s, NEW n \in Nat, \A i \in 1..n : s[i].at \in Nat,
         \A i \in 1..(n - 1) : s[i].at >= s[i + 1].at
  PROVE  \A i, j \in 1..n : i <= j => s[i].at >= s[j].at
<1> TAKE i \in 1..n
<1> DEFINE Bad == {j \in i..n : ~(s[i].at >= s[j].at)}
<1>1. SUFFICES Bad = {}
  OBVIOUS
<1>2. SUFFICES ASSUME Bad # {} PROVE FALSE
  OBVIOUS
<1>3. PICK j \in Bad : \A y \in Bad : j <= y
  <2> Bad \in SUBSET Nat
    OBVIOUS
  <2> HIDE DEF Bad
  <2> QED BY <1>2, LeastOf
<1>4. j \in i..n /\ ~(s[i].at >= s[j].at) /\ j # i
  BY <1>3
<1>5. j - 1 \in i..n /\ j - 1 \notin Bad
  BY <1>3, <1>4
<1>6. s[i].at >= s[j - 1].at
  BY <1>5
<1>7. s[j - 1].at >= s[j].at
  <2>1. j - 1 \in 1..(n - 1) /\ (j - 1) + 1 = j
    BY <1>4
  <2> QED BY <2>1
<1> QED BY <1>4, <1>5, <1>6, <1>7

LEMMA UpTo ==
  ASSUME NEW m \in Nat
  PROVE  IsFiniteSet(1..m) /\ Cardinality(1..m) = m
BY FS_Interval

LEMMA RestOf ==
  ASSUME NEW S, NEW s \in Seq(S), NEW from \in Nat, from < Len(s),
         NEW rest, rest = SubSeq(s, from + 1, Len(s))
  PROVE  /\ rest \in Seq(S) /\ Len(rest) = Len(s) - from
         /\ \A k \in 1..(Len(s) - from) : rest[k] = s[from + k]
<1>1. PICK n, m : n = Len(s) /\ m = from + 1
  OBVIOUS
<1>2. m \in Int /\ n \in Int /\ m <= n /\ n - m + 1 = n - from /\ \A i \in m..n : s[i] \in S
  BY <1>1
<1>3. /\ rest \in Seq(S)
      /\ Len(rest) = IF m <= n THEN n - m + 1 ELSE 0
      /\ \A k \in 1..(n - m + 1) : rest[k] = s[m + k - 1]
  BY <1>1, <1>2, SubSeqProperties
<1>4. \A k \in 1..(n - m + 1) : m + k - 1 = from + k
  BY <1>1
<1> QED BY <1>1, <1>2, <1>3, <1>4

LEMMA StartOf ==
  ASSUME NEW S, NEW s \in Seq(S), NEW m \in Nat, m <= Len(s), NEW start, start = SubSeq(s, 1, m)
  PROVE  start \in Seq(S) /\ Len(start) = m /\ \A k \in 1..m : start[k] = s[k]
OBVIOUS

\* A page of s holds what follows the first from rows, as far as the limit.
PartOf(s, from, limit, page) ==
  \E m \in Nat : /\ m = IF limit < Len(s) - from THEN limit ELSE Len(s) - from
                 /\ Len(page) = m /\ DOMAIN page = 1..m
                 /\ \A k \in 1..m : page[k] = s[from + k]

LEMMA PageIsPart ==
  ASSUME NEW S, NEW s \in Seq(S), NEW from \in Nat, NEW limit \in Nat, from < Len(s),
         NEW page, page = Stg!Prefix(SubSeq(s, from + 1, Len(s)), limit)
  PROVE  PartOf(s, from, limit, page)
<1>1. PICK rest, left : rest = SubSeq(s, from + 1, Len(s)) /\ left = Len(s) - from
  OBVIOUS
<1>2. /\ rest \in Seq(S) /\ Len(rest) = left
      /\ \A k \in 1..left : rest[k] = s[from + k]
  BY <1>1, RestOf
<1>3. PICK m : m = IF limit < left THEN limit ELSE left
  OBVIOUS
<1>4. left \in Nat /\ m \in Nat /\ m <= left
  BY <1>1, <1>3
<1>5. page = SubSeq(rest, 1, m)
  BY <1>1, <1>2, <1>3 DEF Stg!Prefix
<1>6. page \in Seq(S) /\ Len(page) = m /\ \A k \in 1..m : page[k] = rest[k]
  BY <1>2, <1>4, <1>5, StartOf, SMTT(30)
<1>7. DOMAIN page = 1..m
  BY <1>6
<1>8. \A k \in 1..m : page[k] = s[from + k]
  BY <1>2, <1>4, <1>6
<1> QED BY <1>1, <1>3, <1>4, <1>6, <1>7, <1>8 DEF PartOf

\* Before a lone row come the later ones.
LEMMA LaterCount ==
  ASSUME Tidy(db), NEW s \in SetToSeqs(db.returns),
         \A k \in 1..(Len(s) - 1) : s[k].at >= s[k + 1].at,
         NEW i \in 1..Len(s), NEW x, x = s[i], Lone(x)
  PROVE  Cardinality(Later(x)) = i - 1
<1>1. PICK n, S : n = Len(s) /\ S = db.returns
  OBVIOUS
<1>2. /\ s \in Seq(S) /\ ToSet(s) = S
      /\ \A j, k \in 1..n : j # k => s[j] # s[k]
  BY <1>1, ReturnsFinite, ListHasAll
<1>3. n \in Nat /\ DOMAIN s = 1..n /\ \A k \in 1..n : s[k] \in S
  BY <1>1, <1>2
<1>4. \A y \in S : y.at \in Nat
  BY <1>1, TidyFields DEF ReturnRow
<1>5. \A j, k \in 1..n : j <= k => s[j].at >= s[k].at
  BY <1>1, <1>3, <1>4, LatestFirst
<1>6. i \in 1..n /\ i - 1 \in Nat /\ \A j \in 1..(i - 1) : j \in 1..n /\ j # i /\ j <= i
  BY <1>1, <1>3
<1> DEFINE f == [j \in 1..(i - 1) |-> s[j]]
<1>7. ASSUME NEW j \in 1..(i - 1) PROVE s[j] \in Later(x)
  <2>1. s[j] \in S /\ s[j] # x /\ s[j].at >= x.at
    BY <1>2, <1>3, <1>5, <1>6
  <2>2. s[j].at # x.at
    BY <1>1, <2>1 DEF Lone
  <2>3. s[j].at > x.at
    BY <1>3, <1>4, <1>6, <2>1, <2>2
  <2> QED BY <1>1, <2>1, <2>3 DEF Later
<1>8. ASSUME NEW y \in Later(x) PROVE \E j \in 1..(i - 1) : s[j] = y
  <2>1. y \in S /\ y.at > x.at
    BY <1>1 DEF Later
  <2>2. PICK j \in 1..n : s[j] = y
    BY <1>2, <1>3, <2>1 DEF ToSet
  <2>3. ~(i <= j)
    BY <1>3, <1>4, <1>5, <1>6, <2>1, <2>2
  <2> QED BY <1>6, <2>2, <2>3
<1>9. f \in Bijection(1..(i - 1), Later(x))
  <2>1. f \in [1..(i - 1) -> Later(x)]
    BY <1>7
  <2>2. \A j, k \in 1..(i - 1) : f[j] = f[k] => j = k
    BY <1>2, <1>6
  <2>3. \A y \in Later(x) : \E j \in 1..(i - 1) : f[j] = y
    BY <1>8
  <2> HIDE DEF f
  <2> QED BY <2>1, <2>2, <2>3 DEF Bijection, Injection, IsInjective, Surjection
<1> HIDE DEF f
<1>10. IsFiniteSet(1..(i - 1)) /\ Cardinality(1..(i - 1)) = i - 1
  <2>1. PICK m : m = i - 1
    OBVIOUS
  <2>2. m \in Nat
    BY <1>6, <2>1
  <2> QED BY <2>1, <2>2, UpTo
<1>11. ExistsBijection(1..(i - 1), Later(x))
  BY <1>9 DEF ExistsBijection
<1> QED BY <1>10, <1>11, FS_Bijection

LEMMA PageMissesNone ==
  ASSUME Tidy(db), NEW s \in SetToSeqs(db.returns),
         \A k \in 1..(Len(s) - 1) : s[k].at >= s[k + 1].at,
         NEW from \in Nat, NEW limit \in Nat,
         NEW page, page = Stg!Prefix(SubSeq(s, from + 1, Len(s)), limit)
  PROVE  MissesNone(page, from, limit)
<1>1. PICK S, n : S = db.returns /\ n = Len(s)
  OBVIOUS
<1>2. s \in Seq(S) /\ ToSet(s) = S
  BY <1>1, ReturnsFinite, ListHasAll
<1>3. n \in Nat /\ DOMAIN s = 1..n
  BY <1>1, <1>2
<1>4. from < Len(s) => PartOf(s, from, limit, page)
  BY <1>2, PageIsPart
<1>5. SUFFICES ASSUME NEW x \in S, Lone(x), from <= Cardinality(Later(x)), x.id \notin IdsOf(page)
               PROVE  Len(page) = limit /\ from + limit <= Cardinality(Later(x))
  BY <1>1 DEF MissesNone
<1>6. PICK later : later = Cardinality(Later(x))
  OBVIOUS
<1>7. PICK i \in 1..n : s[i] = x
  BY <1>2, <1>3 DEF ToSet
<1>8. later = i - 1
  BY <1>1, <1>6, <1>7, <1>5, LaterCount
<1>9. from < i /\ from < n
  BY <1>3, <1>5, <1>6, <1>7, <1>8
<1>10. PICK m \in Nat : /\ m = IF limit < n - from THEN limit ELSE n - from
                        /\ Len(page) = m /\ DOMAIN page = 1..m
                        /\ \A k \in 1..m : page[k] = s[from + k]
  BY <1>1, <1>4, <1>9 DEF PartOf
<1>11. ~(i - from \in 1..m)
  <2> SUFFICES ASSUME i - from \in 1..m PROVE FALSE
    OBVIOUS
  <2>1. PICK k : k = i - from
    OBVIOUS
  <2>2. k \in 1..m /\ from + k = i
    BY <1>7, <2>1
  <2>3. page[k] = x
    BY <1>7, <1>10, <2>2
  <2> QED BY <1>5, <1>10, <2>2, <2>3 DEF IdsOf
<1>12. i - from > m
  BY <1>3, <1>7, <1>9, <1>10, <1>11
<1>13. m = limit
  BY <1>3, <1>7, <1>10, <1>12
<1>14. from + limit <= later
  BY <1>7, <1>8, <1>10, <1>12, <1>13
<1> QED BY <1>6, <1>10, <1>13, <1>14

LEMMA ReturnsEnd ==
  ASSUME Tidy(db), NEW page \in Int, NEW limit \in Nat, NEW out \in Stg!GetReturns(page, limit)
  PROVE  /\ Ends(out, {"offset"}) /\ out.db = db
         /\ out.err = "nil" =>
              /\ out.out \in Seq(db.returns) /\ Len(out.out) <= limit
              /\ \A n \in Nat : n = (page - 1) * limit /\ n < Word \div 2 =>
                   MissesNone(out.out, n, limit)
<1> DEFINE from == Stg!Offset(page, limit)
<1>1. from \in Int
  BY WrapType DEF Stg!Offset
<1>0. \A n \in Nat : n = (page - 1) * limit /\ n < Word \div 2 => from = n
  BY WrapFits DEF Stg!Offset
<1> HIDE DEF from
<1>2. \/ out = Stg!Refusal("offset")
      \/ out \in Stg!Failures(db)
      \/ /\ ~(from < 0)
         /\ \E s \in SetToSeqs(db.returns) :
              /\ \A k \in 1..(Len(s) - 1) : s[k].at >= s[k + 1].at
              /\ out \in Stg!Query(Stg!Prefix(SubSeq(s, from + 1, Len(s)), limit))
  <2> DEFINE at(x) == x.at
  <2>1. out \in IF from < 0 THEN {Stg!Refusal("offset")} \union Stg!Failures(db)
               ELSE UNION {Stg!Query(Stg!Prefix(SubSeq(s, from + 1, Len(s)), limit)) :
                             s \in Stg!Latest(db.returns, at)}
    BY Zenon DEF Stg!GetReturns, from
  <2>2. \A s \in Stg!Latest(db.returns, at) :
          /\ s \in SetToSeqs(db.returns)
          /\ \A k \in 1..(Len(s) - 1) : s[k].at >= s[k + 1].at
    BY SameLists, Zenon DEF Stg!Latest
  <2>3. CASE from < 0
    BY <2>1, <2>3, Zenon
  <2>4. CASE ~(from < 0)
    <3>1. out \in UNION {Stg!Query(Stg!Prefix(SubSeq(s, from + 1, Len(s)), limit)) :
                             s \in Stg!Latest(db.returns, at)}
      BY <2>1, <2>4, Zenon
    <3> HIDE DEF at
    <3> QED BY <2>2, <2>4, <3>1, Zenon
  <2> QED BY <2>3, <2>4
<1>3. CASE out = Stg!Refusal("offset")
  <2>1. Ends(out, {"offset"}) /\ out.db = db /\ out.err = "offset"
    BY <1>3, RefusalEnds
  <2> QED BY <2>1
<1>5. CASE out \in Stg!Failures(db)
  <2>1. Ends(out, {}) /\ out.db = db /\ out.err = "failed"
    BY <1>5, FailuresEnd
  <2> QED BY <2>1, EndsWeaken
<1>4. CASE /\ ~(from < 0)
           /\ \E s \in SetToSeqs(db.returns) :
                /\ \A k \in 1..(Len(s) - 1) : s[k].at >= s[k + 1].at
                /\ out \in Stg!Query(Stg!Prefix(SubSeq(s, from + 1, Len(s)), limit))
  <2>1. PICK s \in SetToSeqs(db.returns) :
          /\ \A k \in 1..(Len(s) - 1) : s[k].at >= s[k + 1].at
          /\ out \in Stg!Query(Stg!Prefix(SubSeq(s, from + 1, Len(s)), limit))
    BY <1>4
  <2>2. s \in Seq(db.returns)
    BY ReturnsFinite, ListHasAll
  <2>3. PICK rows : rows = Stg!Prefix(SubSeq(s, from + 1, Len(s)), limit)
    OBVIOUS
  <2>4. rows \in Seq(db.returns) /\ Len(rows) <= limit
    BY <1>1, <1>4, <2>2, <2>3, PageOf
  <2>5. /\ Ends(out, {}) /\ out.db = db
        /\ out.err = "nil" => out.out = rows
    BY <2>1, <2>3, QueryEnds
  <2>6. MissesNone(rows, from, limit)
    <3>1. from \in Nat
      BY <1>1, <1>4
    <3> QED BY <2>1, <2>3, <3>1, PageMissesNone
  <2> QED BY <1>0, <2>4, <2>5, <2>6, EndsWeaken
<1> QED BY <1>2, <1>3, <1>4, <1>5

-----------------------------------------------------------------------------
(***************************************************************************)
(* What the counters get.                                                  *)
(***************************************************************************)
\* The counters follow the tables but for the failures that CountersTellTable
\* names.
Counts(r, out, counted) ==
  \A k \in Kinds :
    /\ counted[k] \in Nat
    /\ IF r.door = "grpc" /\ r.op # "update"
       THEN /\ Stored(out)[k] \in Nat
            /\ counted[k] > Stored(out)[k] => out.fault \in {"item", "commit"}
            /\ counted[k] < Stored(out)[k] => out.fault = "ack"
       ELSE counted[k] = 0

\* What Stored finds.
Finds(out, created, accepted, issued) ==
  /\ Stored(out)["created"] = created
  /\ Stored(out)["accepted"] = accepted
  /\ Stored(out)["issued"] = issued

LEMMA StoredFinds ==
  ASSUME NEW out
  PROVE  Finds(out, Cardinality({id \in Touched(out.db) : db.orders[id] = None}),
                    out.db.serial - db.serial,
                    Cardinality({id \in Touched(out.db) : /\ out.db.orders[id] # None
                                                          /\ out.db.orders[id].status = "issued"}))
<1>1. Stored(out) =
        [created |-> Cardinality({id \in Touched(out.db) : db.orders[id] = None}),
         accepted |-> out.db.serial - db.serial,
         issued |-> Cardinality({id \in Touched(out.db) :
                                   /\ out.db.orders[id] # None
                                   /\ out.db.orders[id].status = "issued"})]
  BY Zenon DEF Stored, Touched
<1> QED BY <1>1 DEF Finds

LEMMA CountsOf ==
  ASSUME \A k \in Kinds : NoneCounted[k] = 0, NEW kind \in Kinds
  PROVE  \A k \in Kinds : One(kind)[k] = IF k = kind THEN 1 ELSE 0
BY DEF One, NoneCounted

LEMMA NoneCounts ==
  \A k \in Kinds : NoneCounted[k] = 0
BY DEF NoneCounted

\* A request that changes nothing.
LEMMA CountsNothing ==
  ASSUME Tidy(db), NEW r, NEW out, out.db = db
  PROVE  Counts(r, out, NoneCounted)
<1>1. Touched(out.db) = {}
  BY DEF Touched
<1>2. Cardinality({}) = 0
  BY FS_EmptySet
<1>3. /\ {id \in Touched(out.db) : db.orders[id] = None} = {}
      /\ {id \in Touched(out.db) : /\ out.db.orders[id] # None
                                   /\ out.db.orders[id].status = "issued"} = {}
  BY <1>1
<1>4. out.db.serial - db.serial = 0
  BY Serial
<1>5. Finds(out, 0, 0, 0)
  BY <1>2, <1>3, <1>4, StoredFinds
<1>6. \A k \in Kinds : Stored(out)[k] = 0
  BY <1>5 DEF Finds, Kinds
<1> QED BY <1>6, NoneCounts DEF Counts

\* Over HTTP, and for UpdateOrderStatus, nothing is counted.
LEMMA CountsNone ==
  ASSUME NEW r, NEW out, r.door # "grpc" \/ r.op = "update"
  PROVE  Counts(r, out, NoneCounted)
BY NoneCounts DEF Counts

LEMMA CountsCreated ==
  ASSUME Tidy(db), NEW r, r.id \in Ids, NEW out, Creates(out, r), out.err = "nil"
  PROVE  r.door = "grpc" /\ r.op = "create" => Counts(r, out, One("created"))
<1> HAVE r.door = "grpc" /\ r.op = "create"
<1>1. \A k \in Kinds : One("created")[k] = IF k = "created" THEN 1 ELSE 0
  BY NoneCounts, CountsOf DEF Kinds
<1>2. CASE out.fault = "nil"
  <2>1. PICK row \in OrderRow : /\ row.status = "received"
                                /\ out.db.orders = [db.orders EXCEPT ![r.id] = row]
                                /\ db.orders[r.id] = None
                                /\ out.db.serial = db.serial
    BY <1>2 DEF Creates
  <2>2. PICK before, after, id : before = db.orders /\ after = out.db.orders /\ id = r.id
    OBVIOUS
  <2>3. before \in [Ids -> OrderRow \union {None}] /\ id \in Ids /\ row # None
    BY <2>2, TidyFields, NoneIsApart
  <2>4. \A i \in Ids : after[i] = IF i = id THEN row ELSE before[i]
    BY <2>1, <2>2, <2>3
  <2>5. before[id] = None
    BY <2>1, <2>2
  <2>6. Touched(out.db) = {id}
    BY <2>2, <2>3, <2>4, <2>5 DEF Touched
  <2>7. {i \in Touched(out.db) : db.orders[i] = None} = {id}
    BY <2>2, <2>5, <2>6
  <2>8. {i \in Touched(out.db) : /\ out.db.orders[i] # None
                                 /\ out.db.orders[i].status = "issued"} = {}
    BY <2>1, <2>2, <2>3, <2>4, <2>6
  <2>9. Cardinality({id}) = 1 /\ Cardinality({}) = 0
    BY FS_Singleton, FS_EmptySet
  <2>10. out.db.serial - db.serial = 0
    BY <2>1, Serial
  <2>11. Finds(out, 1, 0, 0)
    BY <2>7, <2>8, <2>9, <2>10, StoredFinds
  <2>12. \A k \in Kinds : Stored(out)[k] = IF k = "created" THEN 1 ELSE 0
    BY <2>11 DEF Finds, Kinds
  <2> QED BY <1>1, <2>12 DEF Counts
<1>3. CASE out.fault # "nil"
  <2>1. out.db = db /\ out.fault = "commit"
    BY <1>3 DEF Creates, Ends
  <2>2. \A k \in Kinds : Stored(out)[k] = 0
    <3>1. Counts(r, out, NoneCounted)
      BY <2>1, CountsNothing
    <3> QED BY <2>1, <3>1, NoneCounts DEF Counts
  <2> QED BY <1>1, <2>1, <2>2 DEF Counts
<1> QED BY <1>2, <1>3

LEMMA CountsReturned ==
  ASSUME Tidy(db), NEW r, NEW id \in Ids, NEW out, Returns(out, id), out.err = "nil"
  PROVE  r.door = "grpc" /\ r.op = "return" => Counts(r, out, One("accepted"))
<1> HAVE r.door = "grpc" /\ r.op = "return"
<1>1. \A k \in Kinds : One("accepted")[k] = IF k = "accepted" THEN 1 ELSE 0
  BY NoneCounts, CountsOf DEF Kinds
<1>2. CASE out.fault = "nil"
  <2>1. PICK before, after, row : /\ before = db.orders /\ after = out.db.orders
                                  /\ row = [before[id] EXCEPT !.status = "returned", !.updated = now]
    OBVIOUS
  <2>2. /\ before[id] # None /\ before[id].status = "issued"
        /\ after = [before EXCEPT ![id] = row]
        /\ out.db.serial = db.serial + 1
    BY <1>2, <2>1 DEF Returns
  <2>3. before \in [Ids -> OrderRow \union {None}]
    BY <2>1, TidyFields
  <2>4. row.status = "returned"
    BY <2>1, <2>2, <2>3 DEF OrderRow
  <2>5. \A i \in Ids : after[i] = IF i = id THEN row ELSE before[i]
    BY <2>2, <2>3
  <2>6. Touched(out.db) = {id}
    <3>1. row # before[id]
      BY <2>2, <2>4
    <3> QED BY <2>1, <2>5, <3>1 DEF Touched
  <2>7. {i \in Touched(out.db) : db.orders[i] = None} = {}
    BY <2>1, <2>2, <2>6
  <2>8. {i \in Touched(out.db) : /\ out.db.orders[i] # None
                                 /\ out.db.orders[i].status = "issued"} = {}
    BY <2>1, <2>4, <2>5, <2>6
  <2>9. Cardinality({}) = 0
    BY FS_EmptySet
  <2>10. out.db.serial - db.serial = 1
    BY <2>2, Serial
  <2>11. Finds(out, 0, 1, 0)
    BY <2>7, <2>8, <2>9, <2>10, StoredFinds
  <2>12. \A k \in Kinds : Stored(out)[k] = IF k = "accepted" THEN 1 ELSE 0
    BY <2>11 DEF Finds, Kinds
  <2> QED BY <1>1, <2>12 DEF Counts
<1>3. CASE out.fault # "nil"
  <2>1. out.db = db /\ out.fault = "commit"
    BY <1>3 DEF Returns, Ends
  <2>2. \A k \in Kinds : Stored(out)[k] = 0
    <3>1. Counts(r, out, NoneCounted)
      BY <2>1, CountsNothing
    <3> QED BY <2>1, <3>1, NoneCounts DEF Counts
  <2> QED BY <1>1, <2>1, <2>2 DEF Counts
<1> QED BY <1>2, <1>3

LEMMA CountsDeleted ==
  ASSUME Tidy(db), NEW r, NEW id \in Ids, NEW out, Writes(out, Deleted(db, id)),
         db.orders[id] # None
  PROVE  Counts(r, out, NoneCounted)
<1>1. CASE out.fault = "nil"
  <2>1. PICK before, after : before = db.orders /\ after = out.db.orders
    OBVIOUS
  <2>2. after = [before EXCEPT ![id] = None] /\ out.db.serial = db.serial
    BY <1>1, <2>1, DeletedTidy DEF Writes
  <2>3. before \in [Ids -> OrderRow \union {None}] /\ before[id] # None
    BY <2>1, TidyFields
  <2>4. \A i \in Ids : after[i] = IF i = id THEN None ELSE before[i]
    BY <2>2, <2>3
  <2>5. Touched(out.db) = {id}
    BY <2>1, <2>3, <2>4 DEF Touched
  <2>6. /\ {i \in Touched(out.db) : db.orders[i] = None} = {}
        /\ {i \in Touched(out.db) : /\ out.db.orders[i] # None
                                    /\ out.db.orders[i].status = "issued"} = {}
    BY <2>1, <2>3, <2>4, <2>5
  <2>7. Cardinality({}) = 0
    BY FS_EmptySet
  <2>8. out.db.serial - db.serial = 0
    BY <2>2, Serial
  <2>9. Finds(out, 0, 0, 0)
    BY <2>6, <2>7, <2>8, StoredFinds
  <2>10. \A k \in Kinds : Stored(out)[k] = 0
    BY <2>9 DEF Finds, Kinds
  <2> QED BY <2>10, NoneCounts DEF Counts
<1>2. CASE out.fault # "nil"
  <2>1. out.db = db
    BY <1>2 DEF Writes
  <2> QED BY <2>1, CountsNothing
<1> QED BY <1>1, <1>2

KindOf(op) == IF op = "issue" THEN "issued" ELSE "accepted"

\* A batch counts its good results: as many as it has changed orders, unless it
\* was broken off or its acknowledgement lost.
LEMMA CountsBatch ==
  ASSUME Tidy(db), NEW r, NEW op \in {"issue", "accept"}, NEW ids, NEW out, Batch(out, op, ids)
  PROVE  r.door = "grpc" /\ r.op = op => Counts(r, out, Successes(KindOf(op), out.out))
<1> HAVE r.door = "grpc" /\ r.op = op
<1>1. PICK good, touched, counted, kind :
        /\ good = Cardinality(Goods(out.out)) /\ touched = Cardinality(Touched(out.db))
        /\ counted = Successes(KindOf(op), out.out) /\ kind = KindOf(op)
  OBVIOUS
<1>2. good \in Nat /\ touched \in Nat /\ kind \in Kinds
  <2>1. out.out \in Seq(ItemResult)
    BY DEF Batch
  <2> QED BY <1>1, <2>1, GoodsCount, TouchedCount DEF KindOf, Kinds
<1>3. \A k \in Kinds : counted[k] = IF k = kind THEN good ELSE 0
  BY <1>1, <1>2 DEF Successes, Goods, NoneCounted
<1>4. Cardinality({}) = 0
  BY FS_EmptySet
<1>5. CASE out.fault \in {"statement", "item", "batch"}
  <2>1. out.db = db
    BY <1>5 DEF Batch
  <2>2. \A k \in Kinds : Stored(out)[k] = 0
    <3>1. Counts(r, out, NoneCounted)
      BY <2>1, CountsNothing
    <3>2. r.op # "update"
      OBVIOUS
    <3>3. \A k \in Kinds : Stored(out)[k] \in Nat /\ ~(0 < Stored(out)[k])
      BY <1>5, <3>1, <3>2, NoneCounts DEF Counts
    <3> QED BY <3>3
  <2>3. out.fault # "item" => good = 0
    BY <1>1, <1>4, <1>5 DEF Batch
  <2>4. \A k \in Kinds : counted[k] > Stored(out)[k] => out.fault = "item"
    BY <1>3, <2>2, <2>3
  <2>5. \A k \in Kinds : counted[k] \in Nat /\ ~(counted[k] < Stored(out)[k])
    BY <1>2, <1>3, <2>2
  <2> QED BY <1>1, <2>2, <2>4, <2>5 DEF Counts
<1>6. CASE out.fault \in {"nil", "ack"}
  <2>1. Moves(op, out.db) /\ out.db.serial = db.serial + Accepted(op, touched)
    BY <1>1, <1>6 DEF Batch
  <2>2. {id \in Touched(out.db) : db.orders[id] = None} = {}
    BY <2>1 DEF Moves
  <2>3. out.db.serial - db.serial = Accepted(op, touched)
    <3>1. Accepted(op, touched) \in Nat
      BY <1>2 DEF Accepted
    <3> QED BY <2>1, <3>1, Serial
  <2>4. {id \in Touched(out.db) : /\ out.db.orders[id] # None
                                  /\ out.db.orders[id].status = "issued"} =
        IF op = "issue" THEN Touched(out.db) ELSE {}
    BY <2>1 DEF Moves
  <2>5. Finds(out, 0, Accepted(op, touched), IF op = "issue" THEN touched ELSE 0)
    BY <1>1, <1>4, <2>2, <2>3, <2>4, StoredFinds
  <2>6. \A k \in Kinds : Stored(out)[k] = IF k = kind THEN touched ELSE 0
    BY <1>1, <2>5 DEF Finds, Kinds, KindOf, Accepted
  <2>7. out.fault = "nil" => good = touched
    BY <1>1 DEF Batch
  <2>8. out.fault = "ack" => good = 0
    BY <1>1, <1>4 DEF Batch
  <2>9. \A k \in Kinds : counted[k] < Stored(out)[k] => out.fault = "ack"
    BY <1>2, <1>3, <1>6, <2>6, <2>7
  <2>10. \A k \in Kinds : /\ counted[k] \in Nat /\ Stored(out)[k] \in Nat
                          /\ ~(counted[k] > Stored(out)[k])
    BY <1>2, <1>3, <1>6, <2>6, <2>7, <2>8
  <2> QED BY <1>1, <2>9, <2>10 DEF Counts
<1> QED BY <1>5, <1>6 DEF Batch

-----------------------------------------------------------------------------
(***************************************************************************)
(* The handlers.                                                           *)
(***************************************************************************)
\* What BlamesRightly and RefusedChangesNothing say of an answer.
Blames(r, code, out) ==
  /\ code \in Codes /\ out.err \in Errors /\ out.fault \in FaultNames
  /\ code = "internal" /\ out.fault = "nil" =>
       \/ out.err \in {"duplicate", "price", "offset"}
       \/ (r.door = "http" /\ r.op = "update" /\ out.err = "not found")
  /\ out.err = "failed" /\ code # "internal" =>
       r.door = "http" /\ (code = "unauthorized" \/ r.op \in {"get", "delete"})
  /\ code # "ok" => out.db = db

\* What CollectableIsListed says of a list.
Lists(r, code, out) ==
  r.op = "list" /\ code = "ok" /\ r.active /\ r.last <= 0 =>
    /\ out.db = db
    /\ ToSet(out.out) = {id \in Ids : /\ db.orders[id] # None
                                      /\ db.orders[id].recipient = r.user
                                      /\ Stg!Waiting(db.orders[id])}

\* What a reader gets.
Pages(r, code, out) ==
  r.op = "returns" /\ code = "ok" /\ r.limit > 0 =>
    /\ out.db = db
    /\ out.out \in Seq(db.returns) /\ Len(out.out) <= r.limit
    /\ r.page > 0 =>
         \A n \in Nat : n = (r.page - 1) * r.limit /\ n < Word \div 2 =>
           MissesNone(out.out, n, r.limit)

\* What ItemsTellTable says of the answer to a batch.
Reports(r, out, id) ==
  IF r.door = "http" THEN out.out[id] = "nil"
  ELSE \E i \in DOMAIN out.out : out.out[i] = [order |-> id, error |-> "nil"]
Again(r, id) == Cardinality({i \in DOMAIN r.ids : r.ids[i] = id}) > 1
Items(r, code, out) ==
  code = "ok" /\ r.op \in {"issue", "accept"} =>
    \A id \in ToSet(r.ids) :
      /\ Reports(r, out, id) => out.db.orders[id] # db.orders[id]
      /\ out.db.orders[id] # db.orders[id] =>
           \/ Reports(r, out, id)
           \/ r.door = "http" /\ Again(r, id)
           \/ out.fault = "ack"

Rightly(r, code, out, counted) ==
  /\ Blames(r, code, out)
  /\ Tidy(out.db) /\ db.serial <= out.db.serial
  /\ Counts(r, out, counted)
  /\ Lists(r, code, out)
  /\ Pages(r, code, out)
  /\ Items(r, code, out)

Served(r) ==
  \E code, out, counted : Reply(r, code, out, counted) /\ Rightly(r, code, out, counted)

LEMMA RefusedRightly ==
  ASSUME Tidy(db), NEW r, NEW code \in {"invalid", "precondition", "unauthorized"}, Refuse(r, code)
  PROVE  Served(r)
<1>1. PICK out : out = Stg!Refusal("nil")
  OBVIOUS
<1>2. out.db = db /\ out.err = "nil" /\ out.fault = "nil"
  BY <1>1 DEF Stg!Refusal, Stg!Outcome
<1>3. Counts(r, out, NoneCounted)
  BY <1>2, CountsNothing
<1>4. Blames(r, code, out)
  BY <1>2 DEF Blames, Codes, Errors, FaultNames
<1>5. code # "ok" /\ Tidy(out.db) /\ db.serial <= out.db.serial
  BY <1>2, Serial
<1>6. Rightly(r, code, out, NoneCounted)
  BY <1>3, <1>4, <1>5 DEF Rightly, Lists, Pages, Items
<1>7. Reply(r, code, out, NoneCounted)
  BY <1>1 DEF Refuse
<1> QED BY <1>6, <1>7 DEF Served

\* An operation without a list or a batch in its answer.
LEMMA PlainlyServed ==
  ASSUME NEW r, NEW code, r.op \notin {"list", "returns", "issue", "accept"} \/ code # "ok",
         NEW errors, NEW out, Ends(out, errors),
         Blames(r, code, out), NEW counted, Counts(r, out, counted), Reply(r, code, out, counted)
  PROVE  Served(r)
<1>1. Lists(r, code, out) /\ Pages(r, code, out) /\ Items(r, code, out)
  BY DEF Lists, Pages, Items
<1> QED BY <1>1 DEF Served, Rightly, Ends

\* The code for an error of the storage, where each error but "failed" has a code
\* that fits.
LEMMA BlamesOf ==
  ASSUME NEW r, NEW errors, errors \subseteq {"not found", "duplicate", "price", "offset"},
         NEW out, Ends(out, errors)
  PROVE  /\ "not found" \notin errors \/ (r.door = "http" /\ r.op = "update") =>
              Blames(r, IF out.err = "nil" THEN "ok" ELSE "internal", out)
         /\ Blames(r, Found(out.err), out)
         /\ r.door = "http" /\ r.op \in {"get", "delete"} /\ errors \subseteq {"not found"} =>
              /\ Blames(r, IF out.err = "nil" THEN "ok" ELSE "absent", out)
              /\ out.err # "nil" => Blames(r, "absent", out)
<1>1. /\ out.err \in errors \union {"nil", "failed"} /\ out.fault \in FaultNames
      /\ out.err = "failed" <=> out.fault \in {"statement", "item"}
      /\ out.err # "nil" => out.db = db
  BY DEF Ends
<1>2. out.err \in Errors
  BY <1>1 DEF Errors
<1>3. out.err = "nil" \/ out.err = "not found" \/ out.err = "failed"
        \/ out.err \in {"duplicate", "price", "offset"}
  BY <1>1
<1>4. "not found" \notin errors \/ (r.door = "http" /\ r.op = "update") =>
        Blames(r, IF out.err = "nil" THEN "ok" ELSE "internal", out)
  BY <1>1, <1>2, <1>3 DEF Blames, Codes
<1>5. Blames(r, Found(out.err), out)
  <2>1. CASE out.err = "nil"
    BY <1>1, <1>2, <2>1 DEF Blames, Codes, Found
  <2>2. CASE out.err = "not found"
    BY <1>1, <1>2, <2>2 DEF Blames, Codes, Found
  <2>3. CASE out.err \notin {"nil", "not found"}
    BY <1>1, <1>2, <1>3, <2>3 DEF Blames, Codes, Found
  <2> QED BY <2>1, <2>2, <2>3
<1>6. r.door = "http" /\ r.op \in {"get", "delete"} /\ errors \subseteq {"not found"} =>
        /\ Blames(r, IF out.err = "nil" THEN "ok" ELSE "absent", out)
        /\ out.err # "nil" => Blames(r, "absent", out)
  BY <1>1, <1>2, <1>3 DEF Blames, Codes
<1> QED BY <1>4, <1>5, <1>6

\* The same where nothing but the database can be to blame, or the arguments of a
\* new order.
LEMMA BlamesPlainly ==
  ASSUME NEW r, NEW out, Ends(out, {}) \/ Ends(out, {"duplicate", "price"})
  PROVE  /\ Blames(r, IF out.err = "nil" THEN "ok" ELSE "internal", out)
         /\ Blames(r, Found(out.err), out)
<1>1. PICK errors : errors = {"duplicate", "price"}
  OBVIOUS
<1>2. Ends(out, errors)
  BY <1>1, EndsWeaken
<1>3. errors \subseteq {"not found", "duplicate", "price", "offset"} /\ "not found" \notin errors
  BY <1>1
<1> QED BY <1>2, <1>3, BlamesOf, Zenon

LEMMA RequestFields ==
  ASSUME NEW r \in Requests
  PROVE  /\ RequestType(r)
         /\ r.id # Missing => r.id \in Ids
         /\ r.user # Missing => r.user \in Users
         /\ r.ids \in Seq(Ids) /\ r.status \in Statuses
         /\ r.last \in Int /\ r.active \in BOOLEAN /\ r.page \in Int /\ r.limit \in Int
         /\ r.op = "create" => r.id \in Ids
<1>1. RequestType(r)
  BY RequestsTyped
<1>2. r.status \in Statuses
  BY DEF Statuses
<1>3. r.page \in Int /\ r.limit \in Int
  BY <1>1, WordIsPositive DEF RequestType
<1> QED BY <1>1, <1>2, <1>3 DEF RequestType

LEMMA AuthServed ==
  ASSUME Tidy(db), NEW r \in Requests, basicAuthMiddleware(r)
  PROVE  Served(r)
<1>1. CASE Refuse(r, "unauthorized")
  BY <1>1, RefusedRightly
<1>2. CASE \E out \in Stg!Failures(db) : Reply(r, "unauthorized", out, NoneCounted)
  <2>1. PICK out \in Stg!Failures(db) : Reply(r, "unauthorized", out, NoneCounted)
    BY <1>2
  <2>2. Ends(out, {}) /\ out.err = "failed" /\ out.fault = "statement" /\ out.db = db
    BY FailuresEnd
  <2>3. r.door = "http"
    BY DEF basicAuthMiddleware
  <2>4. Blames(r, "unauthorized", out)
    BY <2>2, <2>3 DEF Blames, Codes, Errors, FaultNames
  <2>5. Counts(r, out, NoneCounted)
    BY <2>2, CountsNothing
  <2> QED BY <2>1, <2>2, <2>4, <2>5, PlainlyServed
<1> QED BY <1>1, <1>2 DEF basicAuthMiddleware

LEMMA CreateServed ==
  ASSUME Tidy(db), now \in Nat, NEW r \in Requests, handleCreateOrder(r) \/ CreateOrder(r)
  PROVE  Served(r)
<1>1. r.op = "create" /\ r.id \in Ids /\ RequestType(r)
  BY RequestFields DEF handleCreateOrder, CreateOrder, Http, Grpc
<1>2. CASE Refuse(r, "invalid")
  BY <1>2, RefusedRightly
<1>3. CASE /\ Acceptable(r) /\ r.door = "http"
           /\ \E out \in Added(r) :
                Reply(r, IF out.err = "nil" THEN "ok" ELSE "internal", out, NoneCounted)
  <2>1. PICK out \in Added(r) :
          Reply(r, IF out.err = "nil" THEN "ok" ELSE "internal", out, NoneCounted)
    BY <1>3
  <2>2. Ends(out, {"duplicate", "price"})
    BY <1>1, <1>3, AddOrderEnds DEF Creates
  <2>3. Blames(r, IF out.err = "nil" THEN "ok" ELSE "internal", out)
    BY <2>2, BlamesPlainly
  <2>4. Counts(r, out, NoneCounted)
    BY <1>3, CountsNone
  <2> QED BY <1>1, <2>1, <2>2, <2>3, <2>4, PlainlyServed
<1>4. CASE /\ Acceptable(r) /\ r.door = "grpc"
           /\ \E out \in Added(r) :
                IF out.err = "nil" THEN Reply(r, "ok", out, One("created"))
                ELSE Reply(r, "internal", out, NoneCounted)
  <2>1. PICK out \in Added(r) :
          IF out.err = "nil" THEN Reply(r, "ok", out, One("created"))
          ELSE Reply(r, "internal", out, NoneCounted)
    BY <1>4
  <2>2. Creates(out, r)
    BY <1>1, <1>4, AddOrderEnds
  <2>3. Ends(out, {"duplicate", "price"})
    BY <2>2 DEF Creates
  <2>4. Blames(r, IF out.err = "nil" THEN "ok" ELSE "internal", out)
    BY <2>3, BlamesPlainly
  <2>5. CASE out.err = "nil"
    <3>1. Counts(r, out, One("created"))
      BY <1>1, <1>4, <2>2, <2>5, CountsCreated
    <3> QED BY <1>1, <2>1, <2>3, <2>4, <2>5, <3>1, PlainlyServed
  <2>6. CASE out.err # "nil"
    <3>1. Counts(r, out, NoneCounted)
      BY <2>3, <2>6, CountsNothing DEF Ends
    <3> QED BY <1>1, <2>1, <2>3, <2>4, <2>6, <3>1, PlainlyServed
  <2> QED BY <2>5, <2>6
<1> QED BY <1>2, <1>3, <1>4 DEF handleCreateOrder, CreateOrder, Http, Grpc

LEMMA GetServed ==
  ASSUME Tidy(db), NEW r \in Requests, handleGetOrder(r) \/ GetOrder(r)
  PROVE  Served(r)
<1>1. r.op = "get"
  BY DEF handleGetOrder, GetOrder, Http, Grpc
<1>2. CASE Refuse(r, "invalid")
  BY <1>2, RefusedRightly
<1>3. CASE r.door = "http" /\ \E out \in Stg!GetOrder(r.id) :
             Reply(r, IF out.err = "nil" THEN "ok" ELSE "absent", out, NoneCounted)
  <2>1. PICK out \in Stg!GetOrder(r.id) :
          Reply(r, IF out.err = "nil" THEN "ok" ELSE "absent", out, NoneCounted)
    BY <1>3
  <2>2. Ends(out, {"not found"}) /\ out.db = db
    BY GetOrderEnds
  <2>3. Blames(r, IF out.err = "nil" THEN "ok" ELSE "absent", out)
    BY <1>1, <1>3, <2>2, BlamesOf
  <2>4. Counts(r, out, NoneCounted)
    BY <2>2, CountsNothing
  <2> QED BY <1>1, <2>1, <2>2, <2>3, <2>4, PlainlyServed
<1>4. CASE \E out \in Stg!GetOrder(r.id) : Reply(r, Found(out.err), out, NoneCounted)
  <2>1. PICK out \in Stg!GetOrder(r.id) : Reply(r, Found(out.err), out, NoneCounted)
    BY <1>4
  <2>2. Ends(out, {"not found"}) /\ out.db = db
    BY GetOrderEnds
  <2>3. Blames(r, Found(out.err), out)
    BY <2>2, BlamesOf
  <2>4. Counts(r, out, NoneCounted)
    BY <2>2, CountsNothing
  <2> QED BY <1>1, <2>1, <2>2, <2>3, <2>4, PlainlyServed
<1> QED BY <1>2, <1>3, <1>4 DEF handleGetOrder, GetOrder, Http, Grpc

LEMMA UpdateServed ==
  ASSUME Tidy(db), now \in Nat, NEW r \in Requests,
         handleUpdateOrderStatus(r) \/ UpdateOrderStatus(r)
  PROVE  Served(r)
<1>1. r.op = "update" /\ r.status \in Statuses
  BY RequestFields DEF handleUpdateOrderStatus, UpdateOrderStatus, Http, Grpc
<1>2. CASE Refuse(r, "invalid")
  BY <1>2, RefusedRightly
<1>3. CASE r.id # Missing /\ r.door = "http" /\ \E out \in Stg!UpdateOrderStatus(r.id, r.status) :
             Reply(r, IF out.err = "nil" THEN "ok" ELSE "internal", out, NoneCounted)
  <2>1. PICK out \in Stg!UpdateOrderStatus(r.id, r.status) :
          Reply(r, IF out.err = "nil" THEN "ok" ELSE "internal", out, NoneCounted)
    BY <1>3
  <2>2. Ends(out, {"not found"})
    BY <1>1, <1>3, RequestFields, UpdateEnds
  <2>3. Blames(r, IF out.err = "nil" THEN "ok" ELSE "internal", out)
    BY <1>1, <1>3, <2>2, BlamesOf
  <2>4. Counts(r, out, NoneCounted)
    BY <1>1, CountsNone
  <2> QED BY <1>1, <2>1, <2>2, <2>3, <2>4, PlainlyServed
<1>4. CASE r.id # Missing /\ \E out \in Stg!UpdateOrderStatus(r.id, r.status) :
             Reply(r, Found(out.err), out, NoneCounted)
  <2>1. PICK out \in Stg!UpdateOrderStatus(r.id, r.status) :
          Reply(r, Found(out.err), out, NoneCounted)
    BY <1>4
  <2>2. Ends(out, {"not found"})
    BY <1>1, <1>4, RequestFields, UpdateEnds
  <2>3. Blames(r, Found(out.err), out)
    BY <2>2, BlamesOf
  <2>4. Counts(r, out, NoneCounted)
    BY <1>1, CountsNone
  <2> QED BY <1>1, <2>1, <2>2, <2>3, <2>4, PlainlyServed
<1> QED BY <1>2, <1>3, <1>4 DEF handleUpdateOrderStatus, UpdateOrderStatus, Http, Grpc

LEMMA DeleteServed ==
  ASSUME Tidy(db), NEW r \in Requests, handleDeleteOrder(r) \/ DeleteOrder(r)
  PROVE  Served(r)
<1>1. r.op = "delete"
  BY DEF handleDeleteOrder, DeleteOrder, Http, Grpc
<1>2. CASE \E code \in {"invalid", "precondition"} : Refuse(r, code)
  BY <1>2, RefusedRightly
<1>3. CASE r.door = "http" /\ \E found \in Stg!GetOrder(r.id) :
             found.err # "nil" /\ Reply(r, "absent", found, NoneCounted)
  <2>1. PICK found \in Stg!GetOrder(r.id) :
          found.err # "nil" /\ Reply(r, "absent", found, NoneCounted)
    BY <1>3
  <2>2. Ends(found, {"not found"}) /\ found.db = db
    BY GetOrderEnds
  <2>3. Blames(r, "absent", found)
    BY <1>1, <1>3, <2>1, <2>2, BlamesOf
  <2>4. Counts(r, found, NoneCounted)
    BY <2>2, CountsNothing
  <2> QED BY <1>1, <2>1, <2>2, <2>3, <2>4, PlainlyServed
<1>4. CASE \E found \in Stg!GetOrder(r.id) :
             found.err # "nil" /\ Reply(r, Found(found.err), found, NoneCounted)
  <2>1. PICK found \in Stg!GetOrder(r.id) :
          found.err # "nil" /\ Reply(r, Found(found.err), found, NoneCounted)
    BY <1>4
  <2>2. Ends(found, {"not found"}) /\ found.db = db
    BY GetOrderEnds
  <2>3. Blames(r, Found(found.err), found)
    BY <2>2, BlamesOf
  <2>4. Counts(r, found, NoneCounted)
    BY <2>2, CountsNothing
  <2> QED BY <1>1, <2>1, <2>2, <2>3, <2>4, PlainlyServed
<1>5. CASE /\ r.id # Missing
           /\ \E found \in Stg!GetOrder(r.id) : found.err = "nil"
           /\ \E out \in Stg!DeleteOrder(r.id) :
                \/ Reply(r, IF out.err = "nil" THEN "ok" ELSE "internal", out, NoneCounted)
                \/ Reply(r, Found(out.err), out, NoneCounted)
  <2>1. PICK out \in Stg!DeleteOrder(r.id) :
          \/ Reply(r, IF out.err = "nil" THEN "ok" ELSE "internal", out, NoneCounted)
          \/ Reply(r, Found(out.err), out, NoneCounted)
    BY <1>5
  <2>2. db.orders[r.id] # None
    BY <1>5, GetOrderEnds
  <2>3. r.id \in Ids
    BY <1>5, RequestFields
  <2>4. Writes(out, Deleted(db, r.id))
    BY <2>3, DeleteEnds
  <2>5. Ends(out, {})
    BY <2>4 DEF Writes
  <2>6. /\ Blames(r, IF out.err = "nil" THEN "ok" ELSE "internal", out)
        /\ Blames(r, Found(out.err), out)
    BY <2>5, BlamesPlainly
  <2>7. Counts(r, out, NoneCounted)
    BY <2>2, <2>3, <2>4, CountsDeleted
  <2> QED BY <1>1, <2>1, <2>5, <2>6, <2>7, PlainlyServed
<1> QED BY <1>2, <1>3, <1>4, <1>5 DEF handleDeleteOrder, DeleteOrder, Http, Grpc

LEMMA HistoryServed ==
  ASSUME Tidy(db), NEW r \in Requests, handleOrderHistory(r) \/ GetOrderHistory(r)
  PROVE  Served(r)
<1>1. r.op = "history"
  BY DEF handleOrderHistory, GetOrderHistory, Http, Grpc
<1>2. CASE Refuse(r, "invalid")
  BY <1>2, RefusedRightly
<1>3. CASE \E out \in Stg!GetOrderHistory(r.id) :
             \/ Reply(r, IF out.err = "nil" THEN "ok" ELSE "internal", out, NoneCounted)
             \/ Reply(r, Found(out.err), out, NoneCounted)
  <2>1. PICK out \in Stg!GetOrderHistory(r.id) :
          \/ Reply(r, IF out.err = "nil" THEN "ok" ELSE "internal", out, NoneCounted)
          \/ Reply(r, Found(out.err), out, NoneCounted)
    BY <1>3
  <2>2. Ends(out, {}) /\ out.db = db
    BY QueryEnds DEF Stg!GetOrderHistory
  <2>3. /\ Blames(r, IF out.err = "nil" THEN "ok" ELSE "internal", out)
        /\ Blames(r, Found(out.err), out)
    BY <2>2, BlamesPlainly
  <2>4. Counts(r, out, NoneCounted)
    BY <2>2, CountsNothing
  <2> QED BY <1>1, <2>1, <2>2, <2>3, <2>4, PlainlyServed
<1> QED BY <1>2, <1>3 DEF handleOrderHistory, GetOrderHistory, Http, Grpc


LEMMA ListServed ==
  ASSUME Tidy(db), NEW r \in Requests, handleListOrders(r) \/ ListUserOrders(r)
  PROVE  Served(r)
<1>1. r.op = "list" /\ r.last \in Int /\ r.active \in BOOLEAN
  BY RequestFields DEF handleListOrders, ListUserOrders, Http, Grpc
<1>2. CASE Refuse(r, "invalid")
  BY <1>2, RefusedRightly
<1>3. CASE \E out \in Stg!GetUserOrders(r.user, r.last, r.active) :
             \/ Reply(r, IF out.err = "nil" THEN "ok" ELSE "internal", out, NoneCounted)
             \/ Reply(r, Found(out.err), out, NoneCounted)
  <2>1. PICK out \in Stg!GetUserOrders(r.user, r.last, r.active) :
          \/ Reply(r, IF out.err = "nil" THEN "ok" ELSE "internal", out, NoneCounted)
          \/ Reply(r, Found(out.err), out, NoneCounted)
    BY <1>3
  <2>2. /\ Ends(out, {}) /\ out.db = db
        /\ out.err = "nil" /\ r.last <= 0 /\ r.active =>
             ToSet(out.out) = {id \in Ids : /\ db.orders[id] # None
                                            /\ db.orders[id].recipient = r.user
                                            /\ Stg!Waiting(db.orders[id])}
    BY <1>1, <2>1, UserOrdersEnd
  <2>3. PICK code : /\ code \in {IF out.err = "nil" THEN "ok" ELSE "internal", Found(out.err)}
                    /\ Reply(r, code, out, NoneCounted)
    BY <2>1
  <2>4. code = "ok" => out.err = "nil"
    BY <2>2, <2>3 DEF Found, Ends
  <2>5. Blames(r, code, out)
    BY <2>2, <2>3, BlamesPlainly
  <2>6. Counts(r, out, NoneCounted)
    BY <2>2, CountsNothing
  <2>7. Lists(r, code, out) /\ Pages(r, code, out) /\ Items(r, code, out)
    BY <1>1, <2>2, <2>4 DEF Lists, Pages, Items
  <2>8. Rightly(r, code, out, NoneCounted)
    BY <2>2, <2>5, <2>6, <2>7 DEF Rightly, Ends
  <2> QED BY <2>3, <2>8 DEF Served
<1> QED BY <1>2, <1>3 DEF handleListOrders, ListUserOrders, Http, Grpc

\* The code for an error of AddReturn.
LEMMA BlamesReturn ==
  ASSUME NEW r, NEW out, Ends(out, Preconditions), NEW wrong \in {"invalid", "precondition"}
  PROVE  Blames(r, IF out.err = "nil" THEN "ok"
                   ELSE IF Precondition(out.err) THEN wrong ELSE "internal", out)
<1>1. /\ out.err \in Preconditions \union {"nil", "failed"} /\ out.fault \in FaultNames
      /\ out.err = "failed" <=> out.fault \in {"statement", "item"}
      /\ out.err # "nil" => out.db = db
  BY DEF Ends
<1>2. out.err \in Errors
  BY <1>1 DEF Errors, Preconditions
<1>3. CASE out.err = "nil"
  BY <1>1, <1>2, <1>3 DEF Blames, Codes
<1>4. CASE out.err \in Preconditions
  <2>1. out.err # "nil" /\ out.err # "failed" /\ Precondition(out.err)
    BY <1>4 DEF Preconditions, Precondition
  <2> QED BY <1>1, <1>2, <2>1 DEF Blames, Codes
<1>5. CASE out.err = "failed"
  <2>1. out.err # "nil" /\ ~Precondition(out.err)
    BY <1>5 DEF Precondition
  <2> QED BY <1>1, <1>2, <1>5, <2>1 DEF Blames, Codes
<1> QED BY <1>1, <1>3, <1>4, <1>5

LEMMA ReturnServed ==
  ASSUME Tidy(db), now \in Nat, NEW r \in Requests, handleAddReturn(r) \/ AddReturn(r)
  PROVE  Served(r)
<1>1. r.op = "return"
  BY DEF handleAddReturn, AddReturn, Http, Grpc
<1>2. CASE Refuse(r, "invalid")
  BY <1>2, RefusedRightly
<1>3. CASE Missing \notin {r.id, r.user} /\ \E out \in Stg!AddReturn(r.id, r.user) :
             \/ /\ r.door = "http"
                /\ Reply(r, IF out.err = "nil" THEN "ok"
                            ELSE IF Precondition(out.err) THEN "invalid" ELSE "internal",
                         out, NoneCounted)
             \/ /\ r.door = "grpc"
                /\ IF out.err = "nil" THEN Reply(r, "ok", out, One("accepted"))
                   ELSE Reply(r, IF Precondition(out.err) THEN "precondition" ELSE "internal",
                              out, NoneCounted)
  <2>1. PICK out \in Stg!AddReturn(r.id, r.user) :
             \/ /\ r.door = "http"
                /\ Reply(r, IF out.err = "nil" THEN "ok"
                            ELSE IF Precondition(out.err) THEN "invalid" ELSE "internal",
                         out, NoneCounted)
             \/ /\ r.door = "grpc"
                /\ IF out.err = "nil" THEN Reply(r, "ok", out, One("accepted"))
                   ELSE Reply(r, IF Precondition(out.err) THEN "precondition" ELSE "internal",
                              out, NoneCounted)
    BY <1>3
  <2>2. r.id \in Ids /\ r.user \in Users
    BY <1>3, RequestFields
  <2>3. Returns(out, r.id)
    BY <2>1, <2>2, AddReturnEnds
  <2>4. Ends(out, Preconditions)
    BY <2>3 DEF Returns
  <2>5. \A wrong \in {"invalid", "precondition"} :
          Blames(r, IF out.err = "nil" THEN "ok"
                    ELSE IF Precondition(out.err) THEN wrong ELSE "internal", out)
    BY <2>4, BlamesReturn, Zenon
  <2>6. CASE r.door = "http"
    <3>1. Counts(r, out, NoneCounted)
      BY <2>6, CountsNone
    <3>2. PICK code : code = IF out.err = "nil" THEN "ok"
                             ELSE IF Precondition(out.err) THEN "invalid" ELSE "internal"
      OBVIOUS
    <3>3. Reply(r, code, out, NoneCounted)
      BY <2>1, <2>6, <3>2
    <3>4. Blames(r, code, out)
      BY <2>5, <3>2
    <3> QED BY <1>1, <2>4, <3>1, <3>3, <3>4, PlainlyServed
  <2>7. CASE r.door = "grpc" /\ out.err = "nil"
    <3>1. Counts(r, out, One("accepted"))
      BY <1>1, <2>2, <2>3, <2>7, CountsReturned
    <3>2. Reply(r, "ok", out, One("accepted"))
      BY <2>1, <2>7
    <3>3. Blames(r, "ok", out)
      BY <2>5, <2>7
    <3> QED BY <1>1, <2>4, <3>1, <3>2, <3>3, PlainlyServed
  <2>8. CASE r.door = "grpc" /\ out.err # "nil"
    <3>1. Counts(r, out, NoneCounted)
      BY <2>4, <2>8, CountsNothing DEF Ends
    <3>2. PICK code : code = IF Precondition(out.err) THEN "precondition" ELSE "internal"
      OBVIOUS
    <3>3. Reply(r, code, out, NoneCounted)
      BY <2>1, <2>8, <3>2
    <3>4. Blames(r, code, out)
      BY <2>5, <2>8, <3>2
    <3> QED BY <1>1, <2>4, <3>1, <3>3, <3>4, PlainlyServed
  <2> QED BY <2>1, <2>6, <2>7, <2>8
<1> QED BY <1>2, <1>3 DEF handleAddReturn, AddReturn, Http, Grpc

LEMMA ReturnsServed ==
  ASSUME Tidy(db), NEW r \in Requests, handleListReturns(r) \/ ListReturns(r)
  PROVE  Served(r)
<1>1. r.op = "returns" /\ r.page \in Int /\ r.limit \in Int
  BY RequestFields DEF handleListReturns, ListReturns, Http, Grpc
<1>2. CASE Refuse(r, "invalid")
  BY <1>2, RefusedRightly
<1>3. CASE \E page \in Int, limit \in Nat : \E out \in Stg!GetReturns(page, limit) :
             /\ r.limit > 0 => limit = r.limit
             /\ r.page > 0 => page = r.page
             /\ \/ Reply(r, IF out.err = "nil" THEN "ok" ELSE "internal", out, NoneCounted)
                \/ Reply(r, Found(out.err), out, NoneCounted)
  <2>0. PICK page \in Int, limit \in Nat : \E out \in Stg!GetReturns(page, limit) :
             /\ r.limit > 0 => limit = r.limit
             /\ r.page > 0 => page = r.page
             /\ \/ Reply(r, IF out.err = "nil" THEN "ok" ELSE "internal", out, NoneCounted)
                \/ Reply(r, Found(out.err), out, NoneCounted)
    BY <1>3
  <2>1. PICK out \in Stg!GetReturns(page, limit) :
             /\ r.limit > 0 => limit = r.limit
             /\ r.page > 0 => page = r.page
             /\ \/ Reply(r, IF out.err = "nil" THEN "ok" ELSE "internal", out, NoneCounted)
                \/ Reply(r, Found(out.err), out, NoneCounted)
    BY <2>0
  <2>2. /\ Ends(out, {"offset"}) /\ out.db = db
        /\ out.err = "nil" =>
             /\ out.out \in Seq(db.returns) /\ Len(out.out) <= limit
             /\ \A n \in Nat : n = (page - 1) * limit /\ n < Word \div 2 =>
                  MissesNone(out.out, n, limit)
    BY <2>1, ReturnsEnd
  <2>3. PICK code : /\ code \in {IF out.err = "nil" THEN "ok" ELSE "internal", Found(out.err)}
                    /\ Reply(r, code, out, NoneCounted)
    BY <2>1
  <2>4. code = "ok" => out.err = "nil"
    BY <2>2, <2>3 DEF Found, Ends
  <2>5. Blames(r, code, out)
    <3>1. PICK errors : errors = {"offset"}
      OBVIOUS
    <3>2. Ends(out, errors) /\ errors \subseteq {"not found", "duplicate", "price", "offset"}
            /\ "not found" \notin errors
      BY <2>2, <3>1
    <3>3. /\ Blames(r, IF out.err = "nil" THEN "ok" ELSE "internal", out)
          /\ Blames(r, Found(out.err), out)
      BY <3>2, BlamesOf, Zenon
    <3> QED BY <2>3, <3>3
  <2>6. Counts(r, out, NoneCounted)
    BY <2>2, CountsNothing
  <2>7. Lists(r, code, out) /\ Pages(r, code, out) /\ Items(r, code, out)
    BY <1>1, <2>1, <2>2, <2>4 DEF Lists, Pages, Items
  <2>8. Rightly(r, code, out, NoneCounted)
    BY <2>2, <2>5, <2>6, <2>7 DEF Rightly, Ends
  <2> QED BY <2>3, <2>8 DEF Served
<1>4. CASE handleListReturns(r)
  <2>1. Refuse(r, "invalid") \/ (r.limit > 0 /\ \E out \in Stg!GetReturns(r.page, r.limit) :
             Reply(r, IF out.err = "nil" THEN "ok" ELSE "internal", out, NoneCounted))
    BY <1>4, Zenon DEF handleListReturns
  <2> QED BY <1>1, <1>2, <1>3, <2>1
<1>5. CASE ListReturns(r)
  <2>1. PICK page, limit : /\ page = IF r.page <= 0 THEN 1 ELSE r.page
                           /\ limit = IF r.limit <= 0 THEN 10 ELSE r.limit
    OBVIOUS
  <2>2. /\ page \in Int /\ limit \in Nat
        /\ r.limit > 0 => limit = r.limit
        /\ r.page > 0 => page = r.page
    BY <1>1, <2>1
  <2>3. \E out \in Stg!GetReturns(page, limit) : Reply(r, Found(out.err), out, NoneCounted)
    BY <1>5, <2>1, Zenon DEF ListReturns
  <2> QED BY <1>3, <2>2, <2>3
<1> QED BY <1>4, <1>5

\* The last of the results for an order decides what HTTP reports.
LEMMA LastResult ==
  ASSUME NEW results \in Seq(ItemResult), NEW i \in DOMAIN results
  PROVE  \E last \in DOMAIN results :
           /\ results[last].order = results[i].order
           /\ i <= last
           /\ responseMap(results)[results[i].order] = results[last].error
<1>1. PICK n, id : n = Len(results) /\ id = results[i].order
  OBVIOUS
<1>2. DOMAIN results = 1..n /\ n \in Nat
  BY <1>1
<1> DEFINE T == {k \in 0..n : n - k \in 1..n /\ results[n - k].order = id}
<1>3. T \in SUBSET Nat /\ n - i \in T
  <2>1. n - i \in 0..n /\ n - (n - i) = i
    BY <1>2
  <2> QED BY <1>1, <1>2, <2>1
<1>4. PICK k \in T : \A y \in T : k <= y
  <2> HIDE DEF T
  <2> QED BY <1>3, LeastOf
<1> DEFINE IsLast(m) == /\ results[m].order = id
                        /\ \A j \in DOMAIN results : results[j].order = id => j <= m
<1>5. n - k \in DOMAIN results /\ results[n - k].order = id
  BY <1>2, <1>4
<1>6. ASSUME NEW j \in DOMAIN results, results[j].order = id PROVE j <= n - k
  <2>1. n - j \in 0..n /\ n - (n - j) = j
    BY <1>2
  <2>2. n - j \in T
    BY <1>2, <1>6, <2>1
  <2>3. k <= n - j /\ k \in Nat
    BY <1>3, <1>4, <2>2
  <2> QED BY <1>2, <2>3
<1>7. IsLast(n - k)
  BY <1>5, <1>6
<1>8. PICK last : last = CHOOSE m \in DOMAIN results : IsLast(m)
  OBVIOUS
<1>9. last \in DOMAIN results /\ IsLast(last)
  BY <1>5, <1>7, <1>8
<1>10. responseMap(results)[id] = results[last].error
  <2>1. id \in {results[j].order : j \in DOMAIN results}
    BY <1>1
  <2> QED BY <1>8, <2>1, Zenon DEF responseMap
<1> QED BY <1>1, <1>9, <1>10

\* Two results for the same order.
Twice(results, id) ==
  \E j, k \in DOMAIN results : j # k /\ results[j].order = id /\ results[k].order = id

\* Who reads a reported success in either answer reads it in the results.
LEMMA ReportsResult ==
  ASSUME NEW r, NEW told, NEW results \in Seq(ItemResult),
         IF r.door = "http" THEN told.out = responseMap(results) ELSE told.out = results,
         NEW id, \E i \in DOMAIN results : id = results[i].order
  PROVE  /\ Reports(r, told, id) => id \in DoneIn(results)
         /\ id \in DoneIn(results) => Reports(r, told, id) \/ (r.door = "http" /\ Twice(results, id))
<1>1. PICK i \in DOMAIN results : id = results[i].order
  OBVIOUS
<1>2. \A j \in DOMAIN results : results[j] \in ItemResult
  OBVIOUS
<1>3. id \in DoneIn(results) <=> \E j \in DOMAIN results : /\ results[j].order = id
                                                           /\ results[j].error = "nil"
  BY DEF DoneIn, Goods
<1>4. CASE r.door = "http"
  <2>1. Reports(r, told, id) <=> responseMap(results)[id] = "nil"
    BY <1>4 DEF Reports
  <2>2. ASSUME Reports(r, told, id) PROVE id \in DoneIn(results)
    <3>1. PICK last \in DOMAIN results : /\ results[last].order = id
                                         /\ responseMap(results)[id] = results[last].error
      BY <1>1, <1>2, LastResult
    <3> QED BY <1>3, <2>1, <2>2, <3>1
  <2>3. ASSUME id \in DoneIn(results), ~Reports(r, told, id)
        PROVE  Twice(results, id)
    <3>1. PICK j \in DOMAIN results : results[j].order = id /\ results[j].error = "nil"
      BY <1>3, <2>3
    <3>2. PICK last \in DOMAIN results : /\ results[last].order = id
                                         /\ responseMap(results)[id] = results[last].error
      BY <1>1, <1>2, LastResult
    <3>3. last # j
      BY <2>1, <2>3, <3>1, <3>2
    <3> QED BY <3>1, <3>2, <3>3 DEF Twice
  <2> QED BY <1>4, <2>2, <2>3
<1>5. CASE r.door # "http"
  <2>1. told.out = results
    BY <1>5
  <2>2. Reports(r, told, id) <=>
          \E j \in DOMAIN results : results[j] = [order |-> id, error |-> "nil"]
    BY <1>5, <2>1 DEF Reports
  <2>3. \A j \in DOMAIN results :
          results[j] = [order |-> id, error |-> "nil"] <=>
            results[j].order = id /\ results[j].error = "nil"
    <3> TAKE j \in DOMAIN results
    <3>1. PICK e : e = results[j]
      OBVIOUS
    <3>2. e \in [order : Ids, error : Preconditions \union {"nil", "failed"}]
      BY <1>2, <3>1 DEF ItemResult
    <3>3. e = [order |-> e.order, error |-> e.error]
      BY <3>2
    <3> QED BY <3>1, <3>3
  <2> QED BY <1>3, <2>2, <2>3
<1> QED BY <1>4, <1>5

LEMMA RepeatedTwice ==
  ASSUME NEW r, r.ids \in Seq(Ids), NEW id, NEW j \in DOMAIN r.ids, NEW k \in DOMAIN r.ids, j # k,
         r.ids[j] = id, r.ids[k] = id
  PROVE  Again(r, id)
<1>1. PICK ids, n, S : ids = r.ids /\ n = Len(ids) /\ S = {i \in DOMAIN ids : ids[i] = id}
  OBVIOUS
<1>2. DOMAIN ids = 1..n /\ n \in Nat
  BY <1>1
<1>3. S \in SUBSET (1..n) /\ {j, k} \subseteq S
  BY <1>1, <1>2
<1>4. IsFiniteSet(S)
  <2>1. IsFiniteSet(1..n)
    BY <1>2, FS_Interval
  <2> QED BY <1>3, <2>1, FS_Subset
<1>5. Cardinality({j}) = 1 /\ Cardinality({j, k}) = 2
  <2>1. Cardinality({j}) = 1 /\ IsFiniteSet({j})
    BY FS_Singleton
  <2>2. Cardinality({j} \union {k}) = Cardinality({j}) + 1
    BY <2>1, FS_AddElement
  <2>3. Cardinality({j, k}) = Cardinality({j} \union {k})
    <3>1. {j, k} = {j} \union {k}
      OBVIOUS
    <3> QED BY <3>1, Zenon
  <2>4. PICK one, two : one = Cardinality({j}) /\ two = Cardinality({j, k})
    OBVIOUS
  <2>5. one = 1 /\ two = one + 1
    BY <2>1, <2>2, <2>3, <2>4, Zenon
  <2> QED BY <2>4, <2>5
<1>6. Cardinality({j, k}) <= Cardinality(S) /\ Cardinality(S) \in Nat
  BY <1>3, <1>4, FS_Subset, FS_CardinalityType
<1>7. Cardinality(S) > 1
  BY <1>5, <1>6
<1> QED BY <1>1, <1>7 DEF Again

LEMMA BatchItems ==
  ASSUME Tidy(db), NEW r \in Requests, NEW op \in {"issue", "accept"}, NEW out, Batch(out, op, r.ids),
         NEW code, code = "ok" => out.err = "nil",
         NEW told, told.db = out.db, told.fault = out.fault,
         out.err = "nil" /\ r.door = "http" => told.out = responseMap(out.out),
         out.err = "nil" /\ r.door # "http" => told.out = out.out
  PROVE  Items(r, code, told)
<1>1. SUFFICES ASSUME code = "ok", NEW id \in ToSet(r.ids)
               PROVE  /\ Reports(r, told, id) => told.db.orders[id] # db.orders[id]
                      /\ told.db.orders[id] # db.orders[id] =>
                           \/ Reports(r, told, id)
                           \/ r.door = "http" /\ Again(r, id)
                           \/ told.fault = "ack"
  BY Zenon DEF Items
<1>2. PICK ids, results : ids = r.ids /\ results = out.out
  OBVIOUS
<1>3. ids \in Seq(Ids) /\ out.err = "nil"
  BY <1>1, <1>2, RequestFields
<1>4. /\ results \in Seq(ItemResult) /\ Len(results) = Len(ids)
      /\ \A i \in 1..Len(ids) : results[i].order = ids[i]
  BY <1>2, <1>3 DEF Batch
<1>5. DOMAIN results = DOMAIN ids /\ \A i \in DOMAIN ids : results[i].order = ids[i]
  BY <1>3, <1>4
<1>6. PICK i \in DOMAIN ids : id = ids[i]
  BY <1>1, <1>2 DEF ToSet
<1>7. id \in Ids
  BY <1>3, <1>6
<1>8. /\ Reports(r, told, id) => id \in DoneIn(results)
      /\ id \in DoneIn(results) => Reports(r, told, id) \/ (r.door = "http" /\ Again(r, id))
  <2>1. \E j \in DOMAIN results : id = results[j].order
    BY <1>5, <1>6
  <2>2. IF r.door = "http" THEN told.out = responseMap(results) ELSE told.out = results
    BY <1>2, <1>3
  <2>3. /\ Reports(r, told, id) => id \in DoneIn(results)
        /\ id \in DoneIn(results) => Reports(r, told, id) \/ (r.door = "http" /\ Twice(results, id))
    BY <1>4, <2>1, <2>2, ReportsResult
  <2>4. Twice(results, id) => Again(r, id)
    <3> SUFFICES ASSUME NEW j \in DOMAIN results, NEW k \in DOMAIN results, j # k,
                        results[j].order = id, results[k].order = id
                 PROVE  Again(r, id)
      BY DEF Twice
    <3>1. j \in DOMAIN r.ids /\ k \in DOMAIN r.ids /\ r.ids[j] = id /\ r.ids[k] = id
      BY <1>2, <1>5
    <3> QED BY <1>2, <1>3, <3>1, RepeatedTwice
  <2> QED BY <2>3, <2>4
<1>9. told.db.orders[id] # db.orders[id] <=> id \in Touched(out.db)
  BY <1>7 DEF Touched
<1>10. out.fault \in {"nil", "batch", "ack"}
  BY <1>3 DEF Batch, Ends
<1>11. Goods(results) = {} => DoneIn(results) = {}
  BY DEF DoneIn
<1>12. CASE out.fault = "nil"
  <2>1. Touched(out.db) = DoneIn(results)
    BY <1>2, <1>12 DEF Batch
  <2> QED BY <1>8, <1>9, <2>1
<1>13. CASE out.fault = "batch"
  <2>1. out.db = db /\ Goods(results) = {}
    BY <1>2, <1>13 DEF Batch
  <2> QED BY <1>8, <1>11, <2>1
<1>14. CASE out.fault = "ack"
  <2>1. Goods(results) = {}
    BY <1>2, <1>14 DEF Batch
  <2> QED BY <1>8, <1>11, <1>14, <2>1
<1> QED BY <1>10, <1>12, <1>13, <1>14

\* The answer has other results than the outcome, and nothing else of its own.
LEMMA ToldEnds ==
  ASSUME NEW out, Ends(out, {}), NEW told, told.db = out.db, told.err = out.err,
         told.fault = out.fault
  PROVE  Ends(told, {})
BY DEF Ends

LEMMA CountsTold ==
  ASSUME NEW r, NEW out, NEW counted, Counts(r, out, counted), NEW told, told.db = out.db,
         told.fault = out.fault
  PROVE  Counts(r, told, counted)
<1>1. Stored(told) = Stored(out)
  BY DEF Stored
<1> QED BY <1>1 DEF Counts

LEMMA BatchRightly ==
  ASSUME Tidy(db), NEW r \in Requests, NEW op \in {"issue", "accept"}, r.op = op,
         NEW out, Batch(out, op, r.ids),
         NEW told, told.db = out.db, told.err = out.err, told.fault = out.fault,
         out.err = "nil" /\ r.door = "http" => told.out = responseMap(out.out),
         out.err = "nil" /\ r.door # "http" => told.out = out.out,
         NEW counted, Counts(r, out, counted),
         NEW code, code = IF out.err = "nil" THEN "ok" ELSE "internal",
         Reply(r, code, told, counted)
  PROVE  Served(r)
<1>1. Ends(told, {})
  BY ToldEnds DEF Batch
<1>2. Blames(r, code, told)
  <2>1. code = IF told.err = "nil" THEN "ok" ELSE "internal"
    OBVIOUS
  <2> QED BY <1>1, <2>1, BlamesPlainly
<1>3. Counts(r, told, counted)
  BY CountsTold
<1>4. Items(r, code, told)
  BY BatchItems
<1>5. Lists(r, code, told) /\ Pages(r, code, told)
  BY DEF Lists, Pages
<1>6. Rightly(r, code, told, counted)
  BY <1>1, <1>2, <1>3, <1>4, <1>5 DEF Rightly, Ends
<1> QED BY <1>6 DEF Served

\* The outcome with other results.
LEMMA Retold ==
  ASSUME NEW user, NEW ids, NEW out \in Stg!IssueOrders(user, ids) \union Stg!AcceptReturns(user, ids),
         NEW results, NEW told, told = [out EXCEPT !.out = results]
  PROVE  /\ told.db = out.db /\ told.err = out.err /\ told.fault = out.fault
         /\ told.out = results
<1>1. PICK all : out \in Stg!Bulk(all, ids)
  BY Zenon DEF Stg!IssueOrders, Stg!AcceptReturns
<1>2. \E d, err, fault, rows : out = [db |-> d, err |-> err, fault |-> fault, out |-> rows]
  <2>1. CASE \E d, err, fault, rows : out = Stg!Outcome(d, err, fault, rows)
    BY <2>1 DEF Stg!Outcome
  <2>2. CASE \E d, rows : out = Stg!RolledBack(d, rows)
    BY <2>2 DEF Stg!RolledBack, Stg!Outcome
  <2>3. CASE \E k \in DOMAIN ids : out = Stg!BreaksOff(all, ids, k)
    <3>1. PICK k \in DOMAIN ids : out = Stg!BreaksOff(all, ids, k)
      BY <2>3
    <3>2. PICK rows : rows = Append(SubSeq(all.results, 1, k - 1), Stg!Result(ids[k], "failed"))
      OBVIOUS
    <3>3. out = [Stg!RolledBack(all.db, rows) EXCEPT !.fault = "item"]
      BY <3>1, <3>2 DEF Stg!BreaksOff
    <3>4. Stg!RolledBack(all.db, rows) = [db |-> db, err |-> "failed", fault |-> "statement", out |-> rows]
      BY DEF Stg!RolledBack, Stg!Outcome
    <3>5. out = [db |-> db, err |-> "failed", fault |-> "item", out |-> rows]
      BY <3>3, <3>4
    <3> QED BY <3>5
  <2>4. \/ \E d, err, fault, rows : out = Stg!Outcome(d, err, fault, rows)
        \/ \E d, rows : out = Stg!RolledBack(d, rows)
        \/ \E k \in DOMAIN ids : out = Stg!BreaksOff(all, ids, k)
    BY <1>1 DEF Stg!Bulk
  <2> QED BY <2>1, <2>2, <2>3, <2>4
<1>3. PICK d, err, fault, rows : out = [db |-> d, err |-> err, fault |-> fault, out |-> rows]
  BY <1>2
<1> QED BY <1>3

LEMMA HttpBatchServed ==
  ASSUME Tidy(db), now \in Nat, NEW r \in Requests, handleIssueOrders(r) \/ handleAcceptReturns(r)
  PROVE  Served(r)
<1>1. r.door = "http" /\ r.ids \in Seq(Ids) /\ (r.user # Missing => r.user \in Users)
  BY RequestFields DEF handleIssueOrders, handleAcceptReturns, Http
<1>2. CASE Refuse(r, "invalid")
  BY <1>2, RefusedRightly
<1>3. ASSUME NEW op \in {"issue", "accept"}, r.op = op, NEW outs, handleBulk(r, outs),
             op = "issue" => outs = Stg!IssueOrders(r.user, r.ids),
             op = "accept" => outs = Stg!AcceptReturns(r.user, r.ids),
             ~Refuse(r, "invalid")
      PROVE  Served(r)
  <2>1. r.user # Missing
    BY <1>3, Zenon DEF handleBulk
  <2>2. PICK out \in outs :
          IF out.err = "nil"
          THEN Reply(r, "ok", [out EXCEPT !.out = responseMap(out.out)], NoneCounted)
          ELSE Reply(r, "internal", [out EXCEPT !.out = <<>>], NoneCounted)
    BY <1>3, Zenon DEF handleBulk
  <2>3. Batch(out, op, r.ids)
    BY <1>1, <1>3, <2>1, <2>2, BulkCallsEnd
  <2>4. Counts(r, out, NoneCounted)
    BY <1>1, CountsNone
  <2>5. PICK code, results, told :
          /\ code = IF out.err = "nil" THEN "ok" ELSE "internal"
          /\ results = IF out.err = "nil" THEN responseMap(out.out) ELSE <<>>
          /\ told = [out EXCEPT !.out = results]
    OBVIOUS
  <2>6. Reply(r, code, told, NoneCounted)
    BY <2>2, <2>5
  <2>7. /\ told.db = out.db /\ told.err = out.err /\ told.fault = out.fault
        /\ told.out = results
    <3>1. out \in Stg!IssueOrders(r.user, r.ids) \union Stg!AcceptReturns(r.user, r.ids)
      BY <1>3, <2>2
    <3> QED BY <2>5, <3>1, Retold
  <2>8. out.err = "nil" => told.out = responseMap(out.out)
    BY <2>5, <2>7
  <2> QED BY <1>1, <1>3, <2>3, <2>4, <2>5, <2>6, <2>7, <2>8, BatchRightly
<1>4. CASE handleIssueOrders(r)
  <2>1. r.op = "issue" /\ handleBulk(r, Stg!IssueOrders(r.user, r.ids))
    BY <1>4 DEF handleIssueOrders, Http
  <2> QED BY <1>2, <1>3, <2>1
<1>5. CASE handleAcceptReturns(r)
  <2>1. r.op = "accept" /\ handleBulk(r, Stg!AcceptReturns(r.user, r.ids))
    BY <1>5 DEF handleAcceptReturns, Http
  <2> QED BY <1>2, <1>3, <2>1
<1> QED BY <1>4, <1>5

LEMMA GrpcBatchServed ==
  ASSUME Tidy(db), now \in Nat, NEW r \in Requests, IssueOrders(r) \/ AcceptReturns(r)
  PROVE  Served(r)
<1>1. r.door = "grpc" /\ r.ids \in Seq(Ids) /\ (r.user # Missing => r.user \in Users)
  BY RequestFields DEF IssueOrders, AcceptReturns, Grpc
<1>2. CASE Refuse(r, "invalid")
  BY <1>2, RefusedRightly
<1>3. ASSUME NEW op \in {"issue", "accept"}, r.op = op, NEW outs, CountBulk(r, KindOf(op), outs),
             op = "issue" => outs = Stg!IssueOrders(r.user, r.ids),
             op = "accept" => outs = Stg!AcceptReturns(r.user, r.ids),
             ~Refuse(r, "invalid")
      PROVE  Served(r)
  <2>1. r.user # Missing
    BY <1>3, Zenon DEF CountBulk
  <2>2. PICK out \in outs :
          IF out.err = "nil"
          THEN Reply(r, "ok", out, Successes(KindOf(op), out.out))
          ELSE Reply(r, "internal", [out EXCEPT !.out = <<>>], Successes(KindOf(op), out.out))
    BY <1>3, Zenon DEF CountBulk
  <2>3. Batch(out, op, r.ids)
    BY <1>1, <1>3, <2>1, <2>2, BulkCallsEnd
  <2>4. PICK counted : counted = Successes(KindOf(op), out.out)
    OBVIOUS
  <2>5. Counts(r, out, counted)
    BY <1>1, <1>3, <2>3, <2>4, CountsBatch
  <2>6. CASE out.err = "nil"
    <3>1. PICK code : code = "ok"
      OBVIOUS
    <3>2. code = IF out.err = "nil" THEN "ok" ELSE "internal"
      BY <2>6, <3>1
    <3>3. Reply(r, code, out, counted)
      BY <2>2, <2>4, <2>6, <3>1
    <3> QED BY <1>1, <1>3, <2>3, <2>5, <2>6, <3>2, <3>3, BatchRightly
  <2>7. CASE out.err # "nil"
    <3>1. PICK code, told : code = "internal" /\ told = [out EXCEPT !.out = <<>>]
      OBVIOUS
    <3>2. code = IF out.err = "nil" THEN "ok" ELSE "internal"
      BY <2>7, <3>1
    <3>3. Reply(r, code, told, counted)
      BY <2>2, <2>4, <2>7, <3>1
    <3>4. /\ told.db = out.db /\ told.err = out.err /\ told.fault = out.fault
      <4>1. out \in Stg!IssueOrders(r.user, r.ids) \union Stg!AcceptReturns(r.user, r.ids)
        BY <1>3, <2>2
      <4> QED BY <3>1, <4>1, Retold
    <3> QED BY <1>1, <1>3, <2>3, <2>5, <2>7, <3>2, <3>3, <3>4, BatchRightly
  <2> QED BY <2>6, <2>7
<1>4. CASE IssueOrders(r)
  <2>1. r.op = "issue" /\ CountBulk(r, KindOf("issue"), Stg!IssueOrders(r.user, r.ids))
    BY <1>4 DEF IssueOrders, Grpc, KindOf
  <2> QED BY <1>2, <1>3, <2>1
<1>5. CASE AcceptReturns(r)
  <2>1. r.op = "accept" /\ CountBulk(r, KindOf("accept"), Stg!AcceptReturns(r.user, r.ids))
    BY <1>5 DEF AcceptReturns, Grpc, KindOf
  <2> QED BY <1>2, <1>3, <2>1
<1> QED BY <1>4, <1>5

\* Every request, through either door.
LEMMA ServeServed ==
  ASSUME Tidy(db), now \in Nat, NEW r \in Requests, ServeHttp(r) \/ ServeGrpc(r)
  PROVE  Served(r)
<1>1. CASE ServeHttp(r)
  BY <1>1, AuthServed, CreateServed, GetServed, UpdateServed, DeleteServed, ListServed,
     ReturnServed, ReturnsServed, HttpBatchServed, HistoryServed, Zenon DEF ServeHttp
<1>2. CASE ServeGrpc(r)
  BY <1>2, CreateServed, GetServed, UpdateServed, DeleteServed, ListServed,
     ReturnServed, ReturnsServed, GrpcBatchServed, HistoryServed, Zenon DEF ServeGrpc
<1> QED BY <1>1, <1>2

-----------------------------------------------------------------------------
(***************************************************************************)
(* The invariant: what of the properties the next request relies on, and   *)
(* what it keeps.                                                          *)
(***************************************************************************)
\* The answer lists what the tables, which wait for it, have.
ListTold ==
  answer # None /\ answer.code = "ok" /\ answer.req.op = "list"
    /\ answer.req.active /\ answer.req.last <= 0 =>
    ToSet(answer.out) = {id \in Ids : /\ db.orders[id] # None
                                      /\ db.orders[id].recipient = answer.req.user
                                      /\ Stg!Waiting(db.orders[id])}

Answered ==
  /\ answer # None => answer.code \in Codes /\ answer.err \in Errors
  /\ BlamesRightly
  /\ ListTold

Counted ==
  /\ counters \in [Kinds -> Nat] /\ done \in [Kinds -> Nat]
  /\ faults \subseteq FaultNames \ {"nil"}
  /\ CountersTellTable

Readers(n) == [page : Nat \ {0}, seen : SUBSET (1..n), must : SUBSET (1..n),
               disturbed : BOOLEAN, over : BOOLEAN]

Follows ==
  /\ reader \in Readers(db.serial)
  /\ reader.page > 1 => Cardinality(reader.seen) <= PageSize * (reader.page - 1)

Timed == now \in 0..MaxTime /\ changes \in 0..MaxChanges

FrontInv == Timed /\ Tidy(db) /\ Counted /\ Answered /\ Follows

LEMMA InitInv ==
  Init => FrontInv
<1> HAVE Init
<1>1. Timed
  BY BoundsAreNat DEF Init, Timed
<1>2. Tidy(db)
  <2>1. db.orders = [id \in Ids |-> None] /\ db.returns = {} /\ db.serial = 0
    BY DEF Init
  <2>2. db \in Tables
    BY DEF Init, Tables
  <2> QED BY <2>1, <2>2 DEF Tidy, RowOk, Grown
<1>3. Counted
  <2>1. \A k \in Kinds : counters[k] = 0 /\ done[k] = 0
    BY DEF Init, NoneCounted
  <2>2. counters \in [Kinds -> Nat] /\ done \in [Kinds -> Nat] /\ faults = {}
    BY DEF Init, NoneCounted
  <2> QED BY <2>1, <2>2 DEF Counted, CountersTellTable
<1>4. Answered
  BY DEF Init, Answered, BlamesRightly, ListTold
<1>5. Follows
  BY DEF Init, Follows, Readers
<1> QED BY <1>1, <1>2, <1>3, <1>4, <1>5 DEF FrontInv

-----------------------------------------------------------------------------
(***************************************************************************)
(* What a reply keeps.                                                     *)
(***************************************************************************)
LEMMA ReplyTimed ==
  ASSUME NEW r, NEW code, NEW out, NEW counted, Reply(r, code, out, counted), Timed
  PROVE  Timed'
<1>1. /\ now' = now
      /\ changes' = IF out.db = db THEN changes ELSE changes + 1
      /\ changes' <= MaxChanges
  BY DEF Reply
<1> QED BY <1>1, BoundsAreNat DEF Timed

LEMMA ReplyTables ==
  ASSUME NEW r, NEW code, NEW out, NEW counted, Reply(r, code, out, counted), Tidy(out.db)
  PROVE  Tidy(db)'
<1>1. db' = out.db /\ now' = now
  BY DEF Reply
<1>2. Grown(db)'
  BY <1>1, TidyFields DEF Grown
<1> QED BY <1>1, <1>2 DEF Tidy, RowOk

LEMMA ReplyCounted ==
  ASSUME NEW r, NEW code, NEW out, NEW counted, Reply(r, code, out, counted),
         Counts(r, out, counted), out.fault \in FaultNames, Counted
  PROVE  Counted'
<1>1. faults' = faults \union ({out.fault} \ {"nil"})
  BY DEF Reply
<1>2. faults' \subseteq FaultNames \ {"nil"}
  BY <1>1 DEF Counted
<1>3. \A k \in Kinds : counters'[k] = counters[k] + counted[k]
  BY DEF Reply
<1>4. ASSUME NEW k \in Kinds
      PROVE  /\ counters'[k] \in Nat /\ done'[k] \in Nat
             /\ counters'[k] > done'[k] =>
                  counters[k] > done[k] \/ out.fault \in {"item", "commit"}
             /\ counters'[k] < done'[k] => counters[k] < done[k] \/ out.fault = "ack"
  <2>1. counters[k] \in Nat /\ done[k] \in Nat /\ counted[k] \in Nat
    BY DEF Counted, Counts
  <2>2. CASE r.door = "grpc" /\ r.op # "update"
    <3>1. done'[k] = done[k] + Stored(out)[k]
      BY <2>2 DEF Reply
    <3>2. PICK n : n = Stored(out)[k]
      OBVIOUS
    <3>3. /\ n \in Nat
          /\ counted[k] > n => out.fault \in {"item", "commit"}
          /\ counted[k] < n => out.fault = "ack"
      BY <2>2, <3>2 DEF Counts
    <3> QED BY <1>3, <2>1, <3>1, <3>2, <3>3
  <2>3. CASE ~(r.door = "grpc" /\ r.op # "update")
    <3>1. done' = done
      BY <2>3 DEF Reply
    <3>2. counted[k] = 0
      BY <2>3 DEF Counts
    <3> QED BY <1>3, <2>1, <3>1, <3>2
  <2> QED BY <2>2, <2>3
<1>5. counters' \in [Kinds -> Nat]
  <2>1. counters' = [k \in Kinds |-> counters'[k]]
    BY <1>3 DEF Reply
  <2> QED BY <1>4, <2>1
<1>6. done' \in [Kinds -> Nat]
  <2>1. done' = [k \in Kinds |-> done'[k]]
    BY DEF Reply, Counted
  <2> QED BY <1>4, <2>1
<1>7. CountersTellTable'
  <2> SUFFICES ASSUME NEW k \in Kinds
               PROVE  /\ counters'[k] > done'[k] => faults' \intersect {"item", "commit"} # {}
                      /\ counters'[k] < done'[k] => "ack" \in faults'
    BY DEF CountersTellTable
  <2>1. /\ counters[k] > done[k] => faults \intersect {"item", "commit"} # {}
        /\ counters[k] < done[k] => "ack" \in faults
    BY DEF Counted, CountersTellTable
  <2>2. \A f \in {"item", "commit", "ack"} : out.fault = f => f \in faults'
    BY <1>1
  <2>3. counters'[k] > done'[k] => faults' \intersect {"item", "commit"} # {}
    BY <1>1, <1>4, <2>1, <2>2
  <2>4. counters'[k] < done'[k] => "ack" \in faults'
    BY <1>1, <1>4, <2>1, <2>2
  <2> QED BY <2>3, <2>4
<1> QED BY <1>2, <1>5, <1>6, <1>7 DEF Counted

\* The fields of the answer.
LEMMA ReplyAnswer ==
  ASSUME NEW r, NEW code, NEW out, NEW counted, Reply(r, code, out, counted)
  PROVE  /\ answer'.req = r /\ answer'.code = code /\ answer'.err = out.err
         /\ answer'.fault = out.fault /\ answer'.out = out.out
         /\ db' = out.db
BY DEF Reply

LEMMA ReplyAnswered ==
  ASSUME NEW r, NEW code, NEW out, NEW counted, Reply(r, code, out, counted),
         Blames(r, code, out), Lists(r, code, out)
  PROVE  Answered'
<1>1. /\ answer'.req = r /\ answer'.code = code /\ answer'.err = out.err
      /\ answer'.fault = out.fault /\ answer'.out = out.out
      /\ db' = out.db
  BY ReplyAnswer
<1>2. answer'.code \in Codes /\ answer'.err \in Errors
  BY <1>1 DEF Blames
<1>3. BlamesRightly'
  BY <1>1 DEF BlamesRightly, Blames, Failed
<1>4. ListTold'
  BY <1>1 DEF ListTold, Lists
<1> QED BY <1>2, <1>3, <1>4 DEF Answered

\* The ids of a page are no more than its rows.
LEMMA PageIds ==
  ASSUME NEW S, NEW n \in Nat, \A x \in S : x.id \in 1..n,
         NEW page \in Seq(S), NEW limit \in Nat, Len(page) <= limit,
         NEW ids, ids = IdsOf(page)
  PROVE  /\ ids \in SUBSET (1..n)
         /\ Cardinality(ids) \in Nat /\ Cardinality(ids) <= limit
<1>1. PICK m : m = Len(page)
  OBVIOUS
<1>2. m \in Nat /\ DOMAIN page = 1..m /\ m <= limit
  BY <1>1
<1>3. ids \in SUBSET (1..n)
  BY <1>1, <1>2 DEF IdsOf
<1>4. IsFiniteSet(1..m) /\ Cardinality(1..m) = m
  BY <1>2, FS_Interval
<1> DEFINE f == [i \in 1..m |-> page[i].id]
<1>5. f \in Surjection(1..m, ids)
  <2>1. \A y \in ids : \E i \in 1..m : f[i] = y
    BY <1>2 DEF IdsOf
  <2>2. f \in [1..m -> ids]
    BY <1>2 DEF IdsOf
  <2> HIDE DEF f
  <2> QED BY <2>1, <2>2 DEF Surjection
<1> HIDE DEF f
<1>6. Cardinality(ids) <= Cardinality(1..m) /\ IsFiniteSet(ids)
  BY <1>4, <1>5, FS_Surjection
<1>7. Cardinality(ids) \in Nat
  BY <1>6, FS_CardinalityType
<1> QED BY <1>2, <1>3, <1>4, <1>6, <1>7

LEMMA PagesAdd ==
  ASSUME NEW n \in Nat, NEW seen \in SUBSET (1..n), NEW ids \in SUBSET (1..n), NEW page \in Nat \ {0},
         page > 1 => Cardinality(seen) <= PageSize * (page - 1), Cardinality(ids) <= PageSize
  PROVE  Cardinality(IF page = 1 THEN ids ELSE seen \union ids) <= PageSize * page
<1>1. IsFiniteSet(1..n)
  BY FS_Interval
<1>2. IsFiniteSet(seen) /\ IsFiniteSet(ids) /\ IsFiniteSet(seen \intersect ids)
  BY <1>1, FS_Subset
<1>3. PICK a, b, c : a = Cardinality(seen) /\ b = Cardinality(ids) /\ c = Cardinality(seen \intersect ids)
  OBVIOUS
<1>4. a \in Nat /\ b \in Nat /\ c \in Nat
  BY <1>2, <1>3, FS_CardinalityType
<1>5. Cardinality(seen \union ids) = a + b - c
  BY <1>2, <1>3, FS_Union
<1>6. PageSize \in Nat
  BY PageSizeIsPositive
<1>7. CASE page = 1
  BY <1>7, <1>6
<1>8. CASE page # 1
  <2>1. PICK before : before = PageSize * (page - 1)
    OBVIOUS
  <2>2. PageSize * page = before + PageSize /\ before \in Int
    BY <1>6, <2>1
  <2>3. a + b - c <= before + PageSize
    BY <1>3, <1>4, <1>6, <1>8, <2>1, <2>2
  <2> QED BY <1>5, <1>8, <2>2, <2>3
<1> QED BY <1>7, <1>8

LEMMA ReplyFollows ==
  ASSUME NEW r, r.page \in Int, NEW code, NEW out, NEW counted, Reply(r, code, out, counted), Tidy(db),
         Tidy(out.db), db.serial <= out.db.serial, Pages(r, code, out), Follows
  PROVE  Follows'
<1>1. PICK n, m : n = db.serial /\ m = out.db.serial
  OBVIOUS
<1>2. n \in Nat /\ m \in Nat /\ n <= m /\ db'.serial = m
  BY <1>1, TidyFields, ReplyAnswer
<1>3. reader \in Readers(n)
  BY <1>1 DEF Follows
<1>4. \A S \in SUBSET (1..n) : S \in SUBSET (1..m)
  BY <1>2
<1> DEFINE asked == /\ r.op = "returns" /\ code = "ok"
                    /\ r.limit = PageSize /\ r.page = reader.page
           gone == ReturnIds \ {x.id : x \in out.db.returns} # {}
           ids == {out.out[i].id : i \in DOMAIN out.out}
           short == Len(out.out) < PageSize
           seen == IF r.page = 1 THEN ids ELSE reader.seen \union ids
           must == IF r.page = 1 THEN ReturnIds ELSE reader.must
<1>5. reader' = IF asked
                THEN [page |-> IF short THEN 1 ELSE r.page + 1, seen |-> seen, must |-> must,
                      disturbed |-> ~(r.page = 1) /\ reader.disturbed, over |-> short]
                ELSE [reader EXCEPT !.disturbed = @ \/ gone, !.over = FALSE]
  BY Zenon DEF Reply, Follow
<1>6. CASE ~asked
  <2>1. PICK old, disturbed : old = reader /\ disturbed = (old.disturbed \/ gone)
    OBVIOUS
  <2>2. disturbed \in BOOLEAN
    BY <2>1
  <2>3. reader' = [old EXCEPT !.disturbed = disturbed, !.over = FALSE]
    BY <1>5, <1>6, <2>1
  <2>4. reader' \in Readers(m) /\ reader'.page = old.page /\ reader'.seen = old.seen
    BY <1>3, <1>4, <2>1, <2>2, <2>3 DEF Readers
  <2> QED BY <1>2, <2>1, <2>4 DEF Follows
<1>7. CASE asked
  <2>1. /\ reader.page \in Nat \ {0} /\ reader.seen \in SUBSET (1..n)
        /\ reader.must \in SUBSET (1..n) /\ reader.disturbed \in BOOLEAN
    BY <1>3 DEF Readers
  <2>2. PICK page, old : page = r.page /\ old = reader.seen
    OBVIOUS
  <2>3. page = reader.page /\ page \in Nat \ {0}
    BY <1>7, <2>1, <2>2
  <2>4. PageSize \in Nat /\ PageSize > 0
    BY PageSizeIsPositive
  <2>5. out.out \in Seq(db.returns) /\ Len(out.out) <= PageSize
    BY <1>7, <2>4 DEF Pages
  <2>6. \A x \in db.returns : x.id \in 1..n
    BY <1>1 DEF Tidy
  <2>7. ids \in SUBSET (1..n) /\ Cardinality(ids) \in Nat /\ Cardinality(ids) <= PageSize
    <3>1. PICK rows : rows = out.out
      OBVIOUS
    <3>2. rows \in Seq(db.returns) /\ Len(rows) <= PageSize /\ ids = IdsOf(rows)
      BY <2>5, <3>1 DEF IdsOf
    <3> HIDE DEF ids
    <3> QED BY <1>2, <2>4, <2>6, <3>2, PageIds
  <2>8. ReturnIds \in SUBSET (1..n)
    BY <2>6 DEF ReturnIds
  <2> HIDE DEF ids
  <2>9. seen \in SUBSET (1..n) /\ must \in SUBSET (1..n)
    BY <2>1, <2>7, <2>8
  <2>10. page > 1 => Cardinality(old) <= PageSize * (page - 1)
    BY <2>2, <2>3 DEF Follows
  <2>11. Cardinality(seen) <= PageSize * page
    <3>1. old \in SUBSET (1..n)
      BY <2>1, <2>2
    <3>2. Cardinality(IF page = 1 THEN ids ELSE old \union ids) <= PageSize * page
      BY <1>2, <2>3, <2>7, <2>10, <3>1, PagesAdd
    <3> QED BY <2>2, <3>2
  <2>12. PICK next, s, u, d, o :
           /\ next = IF short THEN 1 ELSE page + 1
           /\ s = seen /\ u = must /\ d = (~(r.page = 1) /\ reader.disturbed) /\ o = short
    OBVIOUS
  <2>13. reader' = [page |-> next, seen |-> s, must |-> u, disturbed |-> d, over |-> o]
    BY <1>5, <1>7, <2>2, <2>12
  <2>14. /\ next \in Nat \ {0} /\ d \in BOOLEAN /\ o \in BOOLEAN
         /\ s \in SUBSET (1..m) /\ u \in SUBSET (1..m)
    <3>1. next \in Nat \ {0}
      BY <2>3, <2>12
    <3>2. d \in BOOLEAN /\ o \in BOOLEAN
      BY <2>12
    <3>3. s \in SUBSET (1..n) /\ u \in SUBSET (1..n)
      BY <2>9, <2>12
    <3> QED BY <1>4, <3>1, <3>2, <3>3
  <2>15. reader' \in Readers(m)
    BY <2>13, <2>14 DEF Readers
  <2>16. reader'.page > 1 => Cardinality(reader'.seen) <= PageSize * (reader'.page - 1)
    <3>1. reader'.page = next /\ reader'.seen = s
      BY <2>13
    <3>2. next > 1 => next - 1 = page
      BY <2>3, <2>12
    <3>3. Cardinality(s) <= PageSize * page
      BY <2>11, <2>12
    <3> QED BY <3>1, <3>2, <3>3
  <2> QED BY <1>2, <2>15, <2>16 DEF Follows
<1> QED BY <1>6, <1>7

LEMMA ServeInv ==
  ASSUME FrontInv, NEW r \in Requests, ServeHttp(r) \/ ServeGrpc(r)
  PROVE  FrontInv'
<1>1. Tidy(db) /\ Timed /\ Counted /\ Follows /\ now \in Nat
  BY DEF FrontInv, Timed
<1>2. PICK code, out, counted : Reply(r, code, out, counted) /\ Rightly(r, code, out, counted)
  BY <1>1, ServeServed DEF Served
<1>3. /\ Blames(r, code, out) /\ out.fault \in FaultNames
      /\ Tidy(out.db) /\ db.serial <= out.db.serial
      /\ Counts(r, out, counted) /\ Lists(r, code, out) /\ Pages(r, code, out)
  BY <1>2 DEF Rightly, Blames
<1>4. Timed'
  BY <1>1, <1>2, ReplyTimed
<1>5. Tidy(db)'
  BY <1>2, <1>3, ReplyTables
<1>6. Counted'
  BY <1>1, <1>2, <1>3, ReplyCounted
<1>7. Answered'
  BY <1>2, <1>3, ReplyAnswered
<1>8. Follows'
  BY <1>1, <1>2, <1>3, RequestFields, ReplyFollows
<1> QED BY <1>4, <1>5, <1>6, <1>7, <1>8 DEF FrontInv

LEMMA NextInv ==
  FrontInv /\ [Next]_vars => FrontInv'
<1> SUFFICES ASSUME FrontInv, [Next]_vars PROVE FrontInv'
  OBVIOUS
<1>1. ASSUME NEW r \in Requests, ServeHttp(r) \/ ServeGrpc(r) PROVE FrontInv'
  BY <1>1, ServeInv
<1>2. CASE Tick
  <2>1. /\ answer' = None /\ now' = now + 1 /\ now' \in 0..MaxTime /\ now \in Nat
        /\ db' = db /\ counters' = counters /\ done' = done /\ faults' = faults
        /\ reader' = reader /\ changes' = changes
    BY <1>2, BoundsAreNat DEF Tick, FrontInv, Timed
  <2>2. Timed' /\ Counted' /\ Follows'
    BY <2>1 DEF FrontInv, Timed, Counted, CountersTellTable, Follows
  <2>3. Answered'
    BY <2>1 DEF Answered, BlamesRightly, ListTold
  <2>4. Tidy(db)'
    <3>1. \A id \in Ids : RowOk(db.orders[id])'
      <4> SUFFICES ASSUME NEW id \in Ids PROVE RowOk(db.orders[id])'
        OBVIOUS
      <4>1. PICK row : row = db.orders[id]
        OBVIOUS
      <4>2. row \in OrderRow \union {None} /\ RowOk(row)
        BY <4>1, TidyFields DEF FrontInv, Tidy
      <4>3. row # None => row.updated \in Nat
        BY <4>2 DEF OrderRow
      <4>4. db'.orders[id] = row
        BY <2>1, <4>1
      <4> QED BY <2>1, <4>2, <4>3, <4>4 DEF RowOk
    <3>2. \A x \in db.returns : x.at <= now'
      <4> SUFFICES ASSUME NEW x \in db.returns PROVE x.at <= now'
        OBVIOUS
      <4>1. x.at \in Nat /\ x.at <= now
        BY TidyFields DEF FrontInv, Tidy, ReturnRow
      <4> QED BY <2>1, <4>1
    <3> QED BY <2>1, <3>1, <3>2 DEF FrontInv, Tidy, Grown
  <2> QED BY <2>2, <2>3, <2>4 DEF FrontInv
<1>3. CASE Receive
  <2>1. /\ answer' = None /\ now' = now
        /\ db' = db /\ counters' = counters /\ done' = done /\ faults' = faults
        /\ reader' = reader /\ changes' = changes
    BY <1>3 DEF Receive
  <2>2. Timed' /\ Counted' /\ Follows' /\ Tidy(db)'
    BY <2>1 DEF FrontInv, Timed, Counted, CountersTellTable, Follows, Tidy, RowOk, Grown
  <2>3. Answered'
    BY <2>1 DEF Answered, BlamesRightly, ListTold
  <2> QED BY <2>2, <2>3 DEF FrontInv
<1>4. CASE UNCHANGED vars
  <2>1. /\ answer' = answer /\ now' = now
        /\ db' = db /\ counters' = counters /\ done' = done /\ faults' = faults
        /\ reader' = reader /\ changes' = changes
    BY <1>4 DEF vars
  <2>2. Timed' /\ Counted' /\ Follows' /\ Tidy(db)'
    BY <2>1 DEF FrontInv, Timed, Counted, CountersTellTable, Follows, Tidy, RowOk, Grown
  <2>3. Answered'
    BY <2>1 DEF FrontInv, Answered, BlamesRightly, ListTold, Failed
  <2> QED BY <2>2, <2>3 DEF FrontInv
<1> QED BY <1>1, <1>2, <1>3, <1>4 DEF Next

LEMMA Invariant ==
  Spec => []FrontInv
BY InitInv, NextInv, PTL DEF Spec

-----------------------------------------------------------------------------
(***************************************************************************)
(* The theorems.                                                           *)
(***************************************************************************)
\* The tables, the counters and the reader are what TypeOK says after any
\* requests, in whatever order and with whatever failures: return ids are never
\* given twice, no return refers to an order that is not there, and a row's times
\* never lie in the future.
THEOREM TypeCorrect ==
  Spec => []TypeOK
<1>1. FrontInv => TypeOK
  <2> HAVE FrontInv
  <2>1. now \in 0..MaxTime /\ changes \in 0..MaxChanges
    BY DEF FrontInv, Timed
  <2>2. /\ db \in Tables
        /\ \A x \in db.returns : db.orders[x.order] # None /\ x.id \in 1..db.serial /\ x.at <= now
        /\ \A x, y \in db.returns : x.id = y.id => x = y
    BY DEF FrontInv, Tidy
  <2>3. \A id \in Ids : db.orders[id] # None =>
          /\ db.orders[id].created <= db.orders[id].updated
          /\ db.orders[id].updated <= now
    BY DEF FrontInv, Tidy, RowOk
  <2>4. /\ counters \in [Kinds -> Nat] /\ done \in [Kinds -> Nat]
        /\ faults \subseteq {"statement", "item", "commit", "batch", "ack"}
    BY DEF FrontInv, Counted, FaultNames
  <2>5. answer # None => answer.code \in Codes /\ answer.err \in Errors
    BY DEF FrontInv, Answered
  <2>6. reader.page > 1 => Cardinality(reader.seen) <= PageSize * (reader.page - 1)
    BY DEF FrontInv, Follows
  <2>7. reader.seen \union reader.must \subseteq 1..db.serial
    BY DEF FrontInv, Follows, Readers
  <2> QED BY <2>1, <2>2, <2>3, <2>4, <2>5, <2>6, <2>7 DEF TypeOK
<1> QED BY <1>1, Invariant, PTL

\* However orders are created through the two doors, with any weight and any price,
\* no stored one has a weight at or beyond the limit of its container (NaN, which
\* passes both checks, is neither), a wrapper that the enum cannot say, or a price
\* outside INTEGER: AddOrder is the only writer of these columns, and both handlers
\* ask the packager first.
THEOREM StoredSound ==
  Spec => []StoredOrdersAreSound
<1>1. FrontInv => StoredOrdersAreSound
  BY DEF FrontInv, Tidy, RowOk, StoredOrdersAreSound
<1> QED BY <1>1, Invariant, PTL

\* An order created over either door, returned, or handled in a batch is counted
\* as often as it was done over gRPC, but for the two failures that the property
\* names: a batch broken off or the lost error of a single commit (the counter is
\* ahead), and a lost acknowledgement (it is behind).
THEOREM CountersTell ==
  Spec => []CountersTellTable
<1>1. FrontInv => CountersTellTable
  BY DEF FrontInv, Counted
<1> QED BY <1>1, Invariant, PTL

\* No handler answers 500 or Internal unless the database failed, or blames the
\* client when it did, but for the cases that the property names.
THEOREM BlamedRightly ==
  Spec => []BlamesRightly
<1>1. FrontInv => BlamesRightly
  BY DEF FrontInv, Answered
<1> QED BY <1>1, Invariant, PTL

\* The list of active orders, whose filter is a condition of the query in
\* GetByUserID, agrees with what IssueOrders and AddReturn would say of each order
\* as the answer leaves: each order to collect is in it, none to bring back is.
THEOREM CollectableListed ==
  Spec => []CollectableIsListed
<1>1. FrontInv => CollectableIsListed
  <2> SUFFICES ASSUME FrontInv, answer # None, answer.code = "ok", answer.req.op = "list",
                      answer.req.active, answer.req.last <= 0, NEW id \in Ids
               PROVE  /\ Stg!IssueError(db.orders[id], answer.req.user) = "nil" =>
                           id \in ToSet(answer.out)
                      /\ Stg!ReturnError(db.orders[id], answer.req.user) = "nil" =>
                           id \notin ToSet(answer.out)
    BY DEF CollectableIsListed
  <2>1. ToSet(answer.out) = {i \in Ids : /\ db.orders[i] # None
                                         /\ db.orders[i].recipient = answer.req.user
                                         /\ Stg!Waiting(db.orders[i])}
    BY DEF FrontInv, Answered, ListTold
  <2>2. PICK row, user : row = db.orders[id] /\ user = answer.req.user
    OBVIOUS
  <2>3. id \in ToSet(answer.out) <=> /\ row # None /\ row.recipient = user
                                     /\ row.status \notin {"issued", "returned"}
    BY <2>1, <2>2 DEF Stg!Waiting
  <2>4. /\ Stg!IssueError(row, user) = "nil" =>
             row # None /\ row.status = "received" /\ row.recipient = user
        /\ Stg!ReturnError(row, user) = "nil" => row.status = "issued"
    BY ItemErrors
  <2> QED BY <2>2, <2>3, <2>4
<1> QED BY <1>1, Invariant, PTL

LEMMA NextServes ==
  ASSUME FrontInv, [Next]_vars, answer = None, answer' # None
  PROVE  \E r \in Requests : Served(r)
<1>1. Tidy(db) /\ now \in Nat
  BY DEF FrontInv, Timed
<1>2. \E r \in Requests : ServeHttp(r) \/ ServeGrpc(r)
  BY DEF Next, Tick, Receive, vars
<1> QED BY <1>1, <1>2, ServeServed

\* A request that is not answered "ok" has changed nothing, through either door
\* and whatever failed: the rollbacks of the storage leave no half of a batch.
THEOREM RefusalsChangeNothing ==
  Spec => RefusedChangesNothing
<1>1. ASSUME FrontInv, [Next]_vars
      PROVE  [answer = None /\ answer' # None /\ answer'.code # "ok" => db' = db]_vars
  <2>1. SUFFICES ASSUME answer = None, answer' # None, answer'.code # "ok"
                 PROVE  db' = db
    OBVIOUS
  <2>2. PICK r \in Requests : Served(r)
    BY <1>1, <2>1, NextServes
  <2>3. PICK code, out, counted : Reply(r, code, out, counted) /\ Blames(r, code, out)
    BY <2>2 DEF Served, Rightly
  <2>4. answer'.code = code /\ db' = out.db
    BY <2>3, ReplyAnswer
  <2> QED BY <2>1, <2>3, <2>4 DEF Blames
<1> QED BY <1>1, Invariant, PTL DEF Spec, RefusedChangesNothing

\* What a batch reports done it has done, and what it has done it reports, for
\* batches of any length, with repeated and foreign orders among them: the
\* exceptions are a lost acknowledgement and HTTP's one result for a repeated id.
THEOREM ItemsTold ==
  Spec => ItemsTellTable
<1> DEFINE A == answer = None /\ answer' # None /\ answer'.code = "ok"
                  /\ answer'.req.op \in {"issue", "accept"} =>
                LET r == answer'.req
                    Reported(id) ==
                      IF r.door = "http" THEN answer'.out[id] = "nil"
                      ELSE \E i \in DOMAIN answer'.out :
                             answer'.out[i] = [order |-> id, error |-> "nil"]
                    Repeated(id) == Cardinality({i \in DOMAIN r.ids : r.ids[i] = id}) > 1
                IN \A id \in ToSet(r.ids) :
                     /\ Reported(id) => db'.orders[id] # db.orders[id]
                     /\ db'.orders[id] # db.orders[id] =>
                          \/ Reported(id)
                          \/ r.door = "http" /\ Repeated(id)
                          \/ answer'.fault = "ack"
<1>1. ASSUME FrontInv, [Next]_vars PROVE A
  <2>1. SUFFICES ASSUME answer = None, answer' # None PROVE A
    OBVIOUS
  <2>2. PICK r \in Requests : Served(r)
    BY <1>1, <2>1, NextServes
  <2>3. PICK code, out, counted : Reply(r, code, out, counted) /\ Items(r, code, out)
    BY <2>2 DEF Served, Rightly
  <2>4. /\ answer'.req = r /\ answer'.code = code /\ answer'.fault = out.fault
        /\ answer'.out = out.out /\ db' = out.db
    BY <2>3, ReplyAnswer
  <2> QED BY <2>3, <2>4 DEF Items, Reports, Again
<1>2. FrontInv /\ [Next]_vars => [A]_vars
  BY <1>1
<1> QED BY <1>2, Invariant, PTL DEF Spec, ItemsTellTable

-----------------------------------------------------------------------------
(***************************************************************************)
(* The reader of the pages.                                                *)
(***************************************************************************)
\* The offset of every page that a reader may ask for fits in an int.
OffsetsFit ==
  \A r \in Requests : r.op = "returns" /\ r.limit = PageSize =>
    (r.page - 1) * PageSize < Word \div 2

\* A lone row that the reader has not met comes behind the pages it has read.
Unmet(x) == x.id \in reader.must \ reader.seen /\ Lone(x)
Ahead(x) == (reader.page - 1) * PageSize <= Cardinality(Later(x))
Paged ==
  /\ ~reader.disturbed => \A x \in db.returns : Unmet(x) => Ahead(x)
  /\ PagesMissNothing

LEMMA InitPaged ==
  Init => Paged
BY DEF Init, Paged, PagesMissNothing

LEMMA LaterFinite ==
  ASSUME NEW x, Tidy(db)
  PROVE  IsFiniteSet(Later(x)) /\ Cardinality(Later(x)) \in Nat
<1>1. Later(x) \in SUBSET db.returns
  BY DEF Later
<1>2. IsFiniteSet(Later(x))
  BY <1>1, ReturnsFinite, FS_Subset
<1> QED BY <1>2, FS_CardinalityType

\* If no return has gone then those there were are still there.
LEMMA NoneGone ==
  ASSUME Tidy(db), NEW d, Tidy(d), ReturnIds \ {x.id : x \in d.returns} = {}
  PROVE  db.returns \subseteq d.returns
<1> SUFFICES ASSUME NEW x \in db.returns PROVE x \in d.returns
  OBVIOUS
<1>1. x.id \in 1..db.serial /\ x.id \in ReturnIds
  BY DEF Tidy, ReturnIds
<1>2. PICK y \in d.returns : y.id = x.id
  BY <1>1
<1>3. y \in db.returns \/ y.id > db.serial
  BY DEF Tidy, Grown
<1>4. y \in db.returns
  BY <1>1, <1>2, <1>3, TidyFields
<1>5. y = x
  BY <1>2, <1>4 DEF Tidy
<1> QED BY <1>5

\* After the page that the reader asked for, what it has not met is behind it.
LEMMA PageTurned ==
  ASSUME Tidy(db), Paged, reader.page \in Nat \ {0}, reader.page # 1 => ~reader.disturbed,
         NEW rows, NEW n \in Nat, n = (reader.page - 1) * PageSize, MissesNone(rows, n, PageSize),
         NEW seen, seen = (IF reader.page = 1 THEN IdsOf(rows) ELSE reader.seen \union IdsOf(rows)),
         NEW must, must = (IF reader.page = 1 THEN ReturnIds ELSE reader.must),
         NEW x \in db.returns, x.id \in must \ seen, Lone(x)
  PROVE  Len(rows) = PageSize /\ n + PageSize <= Cardinality(Later(x))
<1>1. x.id \notin IdsOf(rows)
  OBVIOUS
<1>2. n <= Cardinality(Later(x))
  <2>1. CASE reader.page = 1
    <3>1. n = 0
      BY <2>1, PageSizeIsPositive
    <3> QED BY <3>1, LaterFinite
  <2>2. CASE reader.page # 1
    <3>1. Unmet(x)
      BY <2>2 DEF Unmet
    <3> QED BY <2>2, <3>1 DEF Paged, Ahead
  <2> QED BY <2>1, <2>2
<1> QED BY <1>1, <1>2 DEF MissesNone

LEMMA AskedPaged ==
  ASSUME Tidy(db), Follows, Paged, db' = db,
         NEW rows, NEW n \in Nat, n = (reader.page - 1) * PageSize, MissesNone(rows, n, PageSize),
         Len(rows) \in Nat, Len(rows) <= PageSize,
         NEW seen, seen = (IF reader.page = 1 THEN IdsOf(rows) ELSE reader.seen \union IdsOf(rows)),
         NEW must, must = (IF reader.page = 1 THEN ReturnIds ELSE reader.must),
         reader' = [page |-> IF Len(rows) < PageSize THEN 1 ELSE reader.page + 1,
                    seen |-> seen, must |-> must,
                    disturbed |-> ~(reader.page = 1) /\ reader.disturbed,
                    over |-> Len(rows) < PageSize]
  PROVE  Paged'
<1>1. PICK page : page = reader.page
  OBVIOUS
<1>2. page \in Nat \ {0}
  BY <1>1 DEF Follows, Readers
<1>3. PageSize \in Nat /\ PageSize > 0
  BY PageSizeIsPositive
<1>4. /\ reader'.page = (IF Len(rows) < PageSize THEN 1 ELSE page + 1)
      /\ reader'.seen = seen /\ reader'.must = must
      /\ reader'.disturbed = (page # 1 /\ reader.disturbed)
      /\ reader'.over = (Len(rows) < PageSize)
  BY <1>1
<1>5. ASSUME ~reader'.disturbed, NEW x \in db.returns, x.id \in must \ seen, Lone(x)
      PROVE  Len(rows) = PageSize /\ n + PageSize <= Cardinality(Later(x))
  <2>1. reader.page # 1 => ~reader.disturbed
    BY <1>1, <1>4, <1>5
  <2> QED BY <1>1, <1>2, <1>5, <2>1, PageTurned
<1>6. ASSUME ~reader'.disturbed, NEW x \in db.returns, Unmet(x)'
      PROVE  Ahead(x)'
  <2>1. x.id \in must \ seen /\ Lone(x)
    BY <1>4, <1>6 DEF Unmet, Lone
  <2>2. Len(rows) = PageSize /\ n + PageSize <= Cardinality(Later(x))
    BY <1>5, <1>6, <2>1
  <2>3. reader'.page = page + 1
    BY <1>3, <1>4, <2>2
  <2>4. (reader'.page - 1) * PageSize = n + PageSize
    <3>1. \A p, size \in Nat : ((p + 1) - 1) * size = (p - 1) * size + size
      OBVIOUS
    <3>2. ((page + 1) - 1) * PageSize = (page - 1) * PageSize + PageSize
      BY <1>2, <1>3, <3>1
    <3>3. PICK k, m : k = (reader'.page - 1) * PageSize /\ m = (page - 1) * PageSize
      OBVIOUS
    <3>4. k = m + PageSize
      BY <2>3, <3>2, <3>3
    <3> QED BY <1>1, <3>3, <3>4
  <2>5. Later(x)' = Later(x)
    BY DEF Later
  <2> QED BY <2>2, <2>4, <2>5 DEF Ahead
<1>7. PagesMissNothing'
  <2> SUFFICES ASSUME reader'.over, ~reader'.disturbed, NEW x \in db.returns,
                      x.id \in must \ seen
               PROVE  \E y \in db.returns : y # x /\ y.at = x.at
    BY <1>4 DEF PagesMissNothing
  <2>1. Len(rows) # PageSize
    <3>1. Len(rows) < PageSize
      BY <1>4, Zenon
    <3> QED BY <1>3, <3>1
  <2>2. ~Lone(x)
    BY <1>5, <2>1, Zenon
  <2> QED BY <2>2 DEF Lone
<1> QED BY <1>6, <1>7 DEF Paged

LEMMA OthersPaged ==
  ASSUME Tidy(db), NEW d, Tidy(d), db' = d, Follows, Paged,
         reader' = [reader EXCEPT !.disturbed = @ \/ ReturnIds \ {x.id : x \in d.returns} # {},
                                  !.over = FALSE]
  PROVE  Paged'
<1>1. PICK old, gone : old = reader /\ gone = (ReturnIds \ {x.id : x \in d.returns} # {})
  OBVIOUS
<1>2. old \in Readers(db.serial)
  BY <1>1 DEF Follows
<1>3. reader' = [old EXCEPT !.disturbed = old.disturbed \/ gone, !.over = FALSE]
  BY <1>1
<1>4. /\ reader'.page = old.page /\ reader'.seen = old.seen /\ reader'.must = old.must
      /\ reader'.disturbed = (old.disturbed \/ gone) /\ reader'.over = FALSE
  BY <1>2, <1>3 DEF Readers
<1>5. ASSUME ~reader'.disturbed, NEW x \in d.returns, Unmet(x)'
      PROVE  Ahead(x)'
  <2>1. db.returns \subseteq d.returns
    BY <1>1, <1>4, <1>5, NoneGone
  <2>2. x.id \in old.must \ old.seen
    BY <1>4, <1>5 DEF Unmet
  <2>3. x \in db.returns
    <3>1. x.id \in 1..db.serial
      BY <1>2, <2>2 DEF Readers
    <3>2. x \in db.returns \/ x.id > db.serial
      BY DEF Tidy, Grown
    <3> QED BY <3>1, <3>2, TidyFields
  <2>4. Lone(x)
    BY <1>5, <2>1 DEF Unmet, Lone
  <2>5. (old.page - 1) * PageSize <= Cardinality(Later(x))
    BY <1>1, <1>4, <1>5, <2>2, <2>3, <2>4 DEF Paged, Unmet, Ahead
  <2>6. PICK here, there : here = Later(x) /\ there = {y \in d.returns : y.at > x.at}
    OBVIOUS
  <2>7. here \in SUBSET there
    BY <2>1, <2>6 DEF Later
  <2>8. IsFiniteSet(there)
    <3>1. there \in SUBSET d.returns
      BY <2>6
    <3> QED BY <3>1, ReturnsFinite, FS_Subset
  <2>9. /\ Cardinality(here) <= Cardinality(there)
        /\ Cardinality(here) \in Nat /\ Cardinality(there) \in Nat
    BY <2>7, <2>8, FS_Subset, FS_CardinalityType
  <2>10. Cardinality(Later(x))' = Cardinality(there)
    BY <2>6 DEF Later
  <2>11. (old.page - 1) * PageSize \in Int
    <3>1. old.page \in Int
      BY <1>2 DEF Readers
    <3> QED BY <3>1, PageSizeIsPositive
  <2>12. (old.page - 1) * PageSize <= Cardinality(there)
    BY <2>5, <2>6, <2>9, <2>11
  <2> QED BY <1>4, <2>10, <2>12 DEF Ahead
<1>6. PagesMissNothing'
  BY <1>4 DEF PagesMissNothing
<1> QED BY <1>5, <1>6 DEF Paged

LEMMA ReplyPaged ==
  ASSUME OffsetsFit, FrontInv, Paged, NEW r \in Requests, Served(r)
  PROVE  Paged'
<1>1. PICK code, out, counted : /\ Reply(r, code, out, counted)
                                /\ Tidy(out.db) /\ Pages(r, code, out)
  BY DEF Served, Rightly
<1>2. Tidy(db) /\ Follows /\ db' = out.db
  BY <1>1, ReplyAnswer DEF FrontInv
<1> DEFINE asked == /\ r.op = "returns" /\ code = "ok"
                    /\ r.limit = PageSize /\ r.page = reader.page
           gone == ReturnIds \ {x.id : x \in out.db.returns} # {}
           ids == {out.out[i].id : i \in DOMAIN out.out}
           short == Len(out.out) < PageSize
<1>3. reader' = IF asked
                THEN [page |-> IF short THEN 1 ELSE r.page + 1,
                      seen |-> IF r.page = 1 THEN ids ELSE reader.seen \union ids,
                      must |-> IF r.page = 1 THEN ReturnIds ELSE reader.must,
                      disturbed |-> ~(r.page = 1) /\ reader.disturbed, over |-> short]
                ELSE [reader EXCEPT !.disturbed = @ \/ gone, !.over = FALSE]
  BY <1>1, Zenon DEF Reply, Follow
<1>4. CASE asked
  <2>1. PICK rows : rows = out.out
    OBVIOUS
  <2>2. PICK seen, must :
          /\ seen = (IF reader.page = 1 THEN IdsOf(rows) ELSE reader.seen \union IdsOf(rows))
          /\ must = (IF reader.page = 1 THEN ReturnIds ELSE reader.must)
    OBVIOUS
  <2>3. reader' = [page |-> IF Len(rows) < PageSize THEN 1 ELSE reader.page + 1,
                   seen |-> seen, must |-> must,
                   disturbed |-> ~(reader.page = 1) /\ reader.disturbed,
                   over |-> Len(rows) < PageSize]
    BY <1>3, <1>4, <2>1, <2>2 DEF IdsOf
  <2>4. PageSize \in Nat /\ PageSize > 0 /\ reader.page \in Nat \ {0}
    BY <1>2, PageSizeIsPositive DEF Follows, Readers
  <2>5. PICK n : n = (reader.page - 1) * PageSize
    OBVIOUS
  <2>6. n \in Nat /\ n < Word \div 2
    <3>1. \A p \in Nat \ {0} : (p - 1) * PageSize \in Nat
      BY <2>4
    <3>2. n < Word \div 2
      BY <1>4, <2>5 DEF OffsetsFit
    <3> QED BY <2>4, <2>5, <3>1, <3>2
  <2>7. /\ out.db = db
        /\ rows \in Seq(db.returns) /\ Len(rows) <= PageSize
        /\ MissesNone(rows, n, PageSize)
    BY <1>1, <1>4, <2>1, <2>4, <2>5, <2>6 DEF Pages
  <2>8. Len(rows) \in Nat
    BY <2>7
  <2> QED BY <1>2, <2>2, <2>3, <2>5, <2>6, <2>7, <2>8, AskedPaged
<1>5. CASE ~asked
  BY <1>1, <1>2, <1>3, <1>5, OthersPaged
<1> QED BY <1>4, <1>5

LEMMA NextPaged ==
  ASSUME OffsetsFit
  PROVE  FrontInv /\ Paged /\ [Next]_vars => Paged'
<1> SUFFICES ASSUME FrontInv, Paged, [Next]_vars PROVE Paged'
  OBVIOUS
<1>1. CASE \E r \in Requests : ServeHttp(r) \/ ServeGrpc(r)
  <2>1. PICK r \in Requests : Served(r)
    BY <1>1, ServeServed DEF FrontInv, Timed
  <2> QED BY <2>1, ReplyPaged
<1>2. CASE Tick \/ Receive \/ UNCHANGED vars
  <2>1. db' = db /\ reader' = reader
    BY <1>2 DEF Tick, Receive, vars
  <2> QED BY <2>1 DEF Paged, PagesMissNothing, Unmet, Ahead, Lone, Later
<1> QED BY <1>1, <1>2 DEF Next

\* GetReturns orders by the time of the return, newest first, and cuts a page by
\* LIMIT and OFFSET: who turns the pages while others return orders meets every
\* return that was there all the time and shares its time with no other, because
\* a new one can only push it towards the pages still to come.
THEOREM ReadersMissNothing ==
  ASSUME OffsetsFit
  PROVE  Spec => []PagesMissNothing
<1>1. FrontInv /\ Paged /\ [Next]_vars => Paged'
  BY NextPaged
<1>2. Paged => PagesMissNothing
  BY DEF Paged
<1> QED BY <1>1, <1>2, InitPaged, Invariant, PTL DEF Spec
=============================================================================
