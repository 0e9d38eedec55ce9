------------------------------- MODULE Frontend -------------------------------
(***************************************************************************)
(* The two doors of the service: the HTTP handlers of internal/server and  *)
(* the gRPC handlers of internal/grpcserver over one storage.  A handler   *)
(* checks its request, calls the storage and translates the outcome into   *)
(* an answer; the gRPC ones also count.  One request is one step, and its  *)
(* answer is taken before the next: what requests do to each other inside  *)
(* the storage is in OrderStore.                                           *)
(*                                                                         *)
(* Codes: "ok", "invalid" (400, InvalidArgument), "precondition"           *)
(* (FailedPrecondition), "absent" (404, NotFound), "unauthorized" (401)    *)
(* and "internal" (500, Internal).                                         *)
(***************************************************************************)
EXTENDS Integers, Sequences, FiniteSets, SequencesExt

CONSTANTS
  Ids, Users, ReturnWindow, MaxPrice, Word, Faults, None, NaN,  \* of StorageCalls
  Requests,    \* requests that clients may send
  PageSize,    \* the limit with which a client reads the returns page by page
  MaxTime,     \* bound of the clock
  MaxChanges,  \* bound of the number of requests that change the tables
  MaxFaults    \* bound of the failures; each kind happens once

VARIABLES
  now,       \* the clock
  db,        \* the tables
  counters,  \* OrdersCreatedTotal, ReturnsAcceptedTotal, OrdersIssuedTotal
  done,      \* what gRPC requests have really changed since the start
  faults,    \* kinds of failures met so far
  answer,    \* the answer on its way, with the storage's outcome behind it
  reader,    \* a client that reads the returns page by page
  changes    \* requests that changed the tables so far

vars == <<now, db, counters, done, faults, answer, reader, changes>>

Stg == INSTANCE StorageCalls

Missing == ""   \* an argument that is empty or not there
Kinds == {"created", "accepted", "issued"}
Codes == {"ok", "invalid", "precondition", "absent", "unauthorized", "internal"}
Errors == {"nil", "not found", "foreign", "status", "expired", "duplicate", "wrapper",
           "price", "offset", "failed"}
Ops == {"create", "get", "update", "delete", "list", "return", "returns",
        "issue", "accept", "history"}

\* A request; the arguments that its operation does not have hold any value.
RequestType(r) ==
  /\ r.door \in {"http", "grpc"} /\ r.op \in Ops
  /\ r.known \in BOOLEAN      \* credentials of somebody in table users
  /\ r.readable \in BOOLEAN   \* the body decodes, numbers are numbers
  /\ r.id \in Ids \union {Missing} /\ r.user \in Users \union {Missing}
  /\ r.ids \in Seq(Ids)
  /\ r.status \in STRING /\ r.until \in Nat
  /\ r.wrapper \in STRING /\ r.membrane \in BOOLEAN /\ r.price \in Int
  /\ r.weight \in Int \union {NaN}
  /\ r.last \in Int /\ r.active \in BOOLEAN
  /\ {r.page, r.limit} \subseteq -(Word \div 2)..(Word \div 2 - 1)
  /\ r.op = "create" => r.id \in Ids
  /\ r.door = "http" => r.weight # NaN                   \* JSON has no NaN
  /\ r.door = "grpc" => r.page * r.limit < Word \div 2   \* int32 arguments

ASSUME IdsFinite == IsFiniteSet(Ids)
ASSUME BoundsAreNat == {ReturnWindow, MaxPrice, MaxTime, MaxChanges, MaxFaults} \subseteq Nat
ASSUME PageSizeIsPositive == PageSize \in Nat \ {0}
ASSUME WordIsPositive == Word \in Nat \ {0}
ASSUME FaultsKnown == Faults \subseteq Stg!FaultKinds
ASSUME NaNIsApart == NaN \notin Int
ASSUME RequestsTyped == \A r \in Requests : RequestType(r)

\* The statuses that the storage knows and those that requests bring.
Statuses == {"received", "issued", "returned"} \union {r.status : r \in Requests}

\* The tables.  Nobody looks whether the recipient of a new order is empty.
OrderRow ==
  [recipient : Users \union {Missing}, until : Nat, status : Statuses, updated : Nat,
   created : Nat, wrapper : Stg!WrapperType, price : Int,
   weight : Int \union {NaN}]
ReturnRow == [id : Nat, order : Ids, user : Users, at : Nat]
Tables == [orders : [Ids -> OrderRow \union {None}], returns : SUBSET ReturnRow, serial : Nat]

ASSUME NoneIsApart == None \notin OrderRow

NoneCounted == [k \in Kinds |-> 0]

Init ==
  /\ now = 0
  /\ db = [orders |-> [id \in Ids |-> None], returns |-> {}, serial |-> 0]
  /\ counters = NoneCounted
  /\ done = NoneCounted
  /\ faults = {}
  /\ answer = None
  /\ reader = [page |-> 1, seen |-> {}, must |-> {}, disturbed |-> FALSE, over |-> FALSE]
  /\ changes = 0

\* The tables refer to each other as their keys say, the counters only grow with
\* requests, and the reader knows rows that were there.
TypeOK ==
  /\ now \in 0..MaxTime
  /\ changes \in 0..MaxChanges
  /\ db \in Tables
  /\ \A id \in Ids : db.orders[id] # None =>
       /\ db.orders[id].created <= db.orders[id].updated
       /\ db.orders[id].updated <= now
  /\ \A x \in db.returns : db.orders[x.order] # None /\ x.id \in 1..db.serial /\ x.at <= now
  /\ \A x, y \in db.returns : x.id = y.id => x = y
  /\ counters \in [Kinds -> Nat] /\ done \in [Kinds -> Nat]
  /\ faults \subseteq {"statement", "item", "commit", "batch", "ack"}
  /\ answer # None => answer.code \in Codes /\ answer.err \in Errors
  /\ reader.page > 1 => Cardinality(reader.seen) <= PageSize * (reader.page - 1)
  /\ reader.seen \union reader.must \subseteq 1..db.serial

-----------------------------------------------------------------------------
(***************************************************************************)
(* An answer, and what goes with it.                                       *)
(***************************************************************************)
ReturnIds == {x.id : x \in db.returns}

\* What a request has changed in the tables, as the counters name it.
Stored(out) ==
  LET touched == {id \in Ids : out.db.orders[id] # db.orders[id]}
      became(status) == {id \in touched : out.db.orders[id] # None /\ out.db.orders[id].status = status}
  IN [created |-> Cardinality({id \in touched : db.orders[id] = None}),
      accepted |-> out.db.serial - db.serial,
      issued |-> Cardinality(became("issued"))]

\* Pages asked for one after the other, up to the first that is not full.
Follow(r, code, out) ==
  LET ids == {out.out[i].id : i \in DOMAIN out.out}
      gone == ReturnIds \ {x.id : x \in out.db.returns} # {}
  IN reader' =
       IF r.op = "returns" /\ code = "ok" /\ r.limit = PageSize /\ r.page = reader.page
       THEN LET first == r.page = 1  short == Len(out.out) < PageSize
            IN [page |-> IF short THEN 1 ELSE r.page + 1,
                seen |-> IF first THEN ids ELSE reader.seen \union ids,
                must |-> IF first THEN ReturnIds ELSE reader.must,
                disturbed |-> ~first /\ reader.disturbed,
                over |-> short]
       ELSE [reader EXCEPT !.disturbed = @ \/ gone,
                           !.over = FALSE]

\* The answer to r with the storage's outcome out; counted goes to the counters.
Reply(r, code, out, counted) ==
  /\ answer' = [req |-> r, code |-> code, err |-> out.err, fault |-> out.fault, out |-> out.out]
  /\ db' = out.db
  /\ counters' = [k \in Kinds |-> counters[k] + counted[k]]
  /\ done' = IF r.door = "grpc" /\ r.op # "update"
             THEN [k \in Kinds |-> done[k] + Stored(out)[k]] ELSE done
  /\ out.fault \notin faults
  /\ faults' = faults \union ({out.fault} \ {"nil"})
  /\ Cardinality(faults') <= MaxFaults
  /\ changes' = IF out.db = db THEN changes ELSE changes + 1
  /\ changes' <= MaxChanges
  /\ Follow(r, code, out)
  /\ UNCHANGED now

\* The request is refused before the storage is called.
Refuse(r, code) == Reply(r, code, Stg!Refusal("nil"), NoneCounted)

Packable(r) ==
  /\ r.wrapper \in Stg!Containers
  /\ Stg!ValidateWeight(Stg!GetPackager(r.wrapper, r.membrane), r.weight)

\* Values a request may not have: a storage time in the past, no packaging.
Acceptable(r) == r.readable /\ now <= r.until /\ Packable(r)

Added(r) == Stg!AddOrder(r, Stg!GetPackager(r.wrapper, r.membrane))

\* strings.Contains on the error of the storage: what the caller is to blame for.
Precondition(err) == err \in {"not found", "foreign", "status", "expired"}

\* Until when an order is kept from the courier.
Kept(id) == db.orders[id].status # "received" \/ now < db.orders[id].until

One(kind) == [NoneCounted EXCEPT ![kind] = 1]

\* One increment for each result with Success.
Successes(kind, results) ==
  [NoneCounted EXCEPT ![kind] = Cardinality({i \in DOMAIN results : results[i].error = "nil"})]

-----------------------------------------------------------------------------
(***************************************************************************)
(* internal/server: the HTTP handlers.                                     *)
(***************************************************************************)
\* ValidateUser knows the user, and the query works.
basicAuthMiddleware(r) ==
  /\ answer = None
  /\ r.door = "http"
  /\ \/ ~r.known /\ Refuse(r, "unauthorized")
     \/ \E out \in Stg!Failures(db) : Reply(r, "unauthorized", out, NoneCounted)

Http(r, op) == answer = None /\ r.door = "http" /\ r.op = op /\ r.known

handleCreateOrder(r) ==
  /\ Http(r, "create")
  /\ \/ ~Acceptable(r) /\ Refuse(r, "invalid")
     \/ /\ Acceptable(r)
        /\ \E out \in Added(r) :
             Reply(r, IF out.err = "nil" THEN "ok" ELSE "internal", out, NoneCounted)

handleGetOrder(r) ==
  /\ Http(r, "get")
  /\ r.id # Missing
  /\ \E out \in Stg!GetOrder(r.id) :
       Reply(r, IF out.err = "nil" THEN "ok" ELSE "absent", out, NoneCounted)

handleUpdateOrderStatus(r) ==
  /\ Http(r, "update")
  /\ r.id # Missing
  /\ \/ ~r.readable /\ Refuse(r, "invalid")
     \/ /\ r.readable
        /\ \E out \in Stg!UpdateOrderStatus(r.id, r.status) :
             Reply(r, IF out.err = "nil" THEN "ok" ELSE "internal", out, NoneCounted)

handleDeleteOrder(r) ==
  /\ Http(r, "delete")
  /\ r.id # Missing
  /\ \E found \in Stg!GetOrder(r.id) :
       \/ found.err # "nil" /\ Reply(r, "absent", found, NoneCounted)
       \/ found.err = "nil" /\ Kept(r.id) /\ Refuse(r, "invalid")
       \/ /\ found.err = "nil"
          /\ ~Kept(r.id)
          /\ \E out \in Stg!DeleteOrder(r.id) :
               Reply(r, IF out.err = "nil" THEN "ok" ELSE "internal", out, NoneCounted)

\* last is 0 when the query does not have it; "0" itself is refused like -1.
handleListOrders(r) ==
  /\ Http(r, "list")
  /\ r.user # Missing
  /\ \/ (~r.readable \/ r.last < 0) /\ Refuse(r, "invalid")
     \/ /\ r.readable
        /\ r.last >= 0
        /\ \E out \in Stg!GetUserOrders(r.user, r.last, r.active) :
             Reply(r, IF out.err = "nil" THEN "ok" ELSE "internal", out, NoneCounted)

handleAddReturn(r) ==
  /\ Http(r, "return")
  /\ \/ (~r.readable \/ Missing \in {r.id, r.user}) /\ Refuse(r, "invalid")
     \/ /\ r.readable
        /\ Missing \notin {r.id, r.user}
        /\ \E out \in Stg!AddReturn(r.id, r.user) :
             Reply(r, IF out.err = "nil" THEN "ok"
                      ELSE IF Precondition(out.err) THEN "invalid" ELSE "internal",
                   out, NoneCounted)

handleListReturns(r) ==
  /\ Http(r, "returns")
  /\ \/ (~r.readable \/ r.page <= 0 \/ r.limit <= 0) /\ Refuse(r, "invalid")
     \/ /\ r.readable
        /\ r.page > 0
        /\ r.limit > 0
        /\ \E out \in Stg!GetReturns(r.page, r.limit) :
             Reply(r, IF out.err = "nil" THEN "ok" ELSE "internal", out, NoneCounted)

\* The map of the answer: the last result of an id stands.
responseMap(results) ==
  [id \in {results[i].order : i \in DOMAIN results} |->
     LET last == CHOOSE i \in DOMAIN results :
                   /\ results[i].order = id
                   /\ \A j \in DOMAIN results : results[j].order = id => j <= i
     IN results[last].error]

handleBulk(r, outs) ==
  \/ (~r.readable \/ r.user = Missing \/ r.ids = <<>>) /\ Refuse(r, "invalid")
  \/ /\ r.readable
     /\ r.user # Missing
     /\ r.ids # <<>>
     /\ \E out \in outs :
          IF out.err = "nil"
          THEN Reply(r, "ok", [out EXCEPT !.out = responseMap(out.out)], NoneCounted)
          ELSE Reply(r, "internal", [out EXCEPT !.out = <<>>], NoneCounted)

handleIssueOrders(r) ==
  Http(r, "issue") /\ handleBulk(r, Stg!IssueOrders(r.user, r.ids))

handleAcceptReturns(r) ==
  Http(r, "accept") /\ handleBulk(r, Stg!AcceptReturns(r.user, r.ids))

handleOrderHistory(r) ==
  /\ Http(r, "history")
  /\ r.id # Missing
  /\ \E out \in Stg!GetOrderHistory(r.id) :
       Reply(r, IF out.err = "nil" THEN "ok" ELSE "internal", out, NoneCounted)

-----------------------------------------------------------------------------
(***************************************************************************)
(* internal/grpcserver: the gRPC handlers.                                 *)
(***************************************************************************)
Grpc(r, op) == answer = None /\ r.door = "grpc" /\ r.op = op

\* "not found" in the error of the storage makes NotFound.
Found(err) == CASE err = "nil" -> "ok" [] err = "not found" -> "absent" [] OTHER -> "internal"

\* No error of the storage contains "already exists": the code is never AlreadyExists.
CreateOrder(r) ==
  /\ Grpc(r, "create")
  /\ \/ ~Acceptable(r) /\ Refuse(r, "invalid")
     \/ /\ Acceptable(r)
        /\ \E out \in Added(r) :
             IF out.err = "nil" THEN Reply(r, "ok", out, One("created"))
             ELSE Reply(r, "internal", out, NoneCounted)

GetOrder(r) ==
  /\ Grpc(r, "get")
  /\ \/ r.id = Missing /\ Refuse(r, "invalid")
     \/ /\ r.id # Missing
        /\ \E out \in Stg!GetOrder(r.id) : Reply(r, Found(out.err), out, NoneCounted)

UpdateOrderStatus(r) ==
  /\ Grpc(r, "update")
  /\ \/ Missing \in {r.id, r.status} /\ Refuse(r, "invalid")
     \/ /\ Missing \notin {r.id, r.status}
        /\ \E out \in Stg!UpdateOrderStatus(r.id, r.status) :
             Reply(r, Found(out.err), out, NoneCounted)

DeleteOrder(r) ==
  /\ Grpc(r, "delete")
  /\ \/ r.id = Missing /\ Refuse(r, "invalid")
     \/ /\ r.id # Missing
        /\ \E found \in Stg!GetOrder(r.id) :
             \/ found.err # "nil" /\ Reply(r, Found(found.err), found, NoneCounted)
             \/ found.err = "nil" /\ Kept(r.id) /\ Refuse(r, "precondition")
             \/ /\ found.err = "nil"
                /\ ~Kept(r.id)
                /\ \E out \in Stg!DeleteOrder(r.id) :
                     Reply(r, Found(out.err), out, NoneCounted)

\* A last_n of 0 or less is no limit.
ListUserOrders(r) ==
  /\ Grpc(r, "list")
  /\ \/ r.user = Missing /\ Refuse(r, "invalid")
     \/ /\ r.user # Missing
        /\ \E out \in Stg!GetUserOrders(r.user, r.last, r.active) :
             Reply(r, Found(out.err), out, NoneCounted)

AddReturn(r) ==
  /\ Grpc(r, "return")
  /\ \/ Missing \in {r.id, r.user} /\ Refuse(r, "invalid")
     \/ /\ Missing \notin {r.id, r.user}
        /\ \E out \in Stg!AddReturn(r.id, r.user) :
             IF out.err = "nil" THEN Reply(r, "ok", out, One("accepted"))
             ELSE Reply(r, IF Precondition(out.err) THEN "precondition" ELSE "internal",
                        out, NoneCounted)

\* A page or limit of 0 or less becomes the first page, ten rows long.
ListReturns(r) ==
  /\ Grpc(r, "returns")
  /\ \E out \in Stg!GetReturns(IF r.page <= 0 THEN 1 ELSE r.page,
                               IF r.limit <= 0 THEN 10 ELSE r.limit) :
       Reply(r, Found(out.err), out, NoneCounted)

\* The results are counted whether or not the transaction has failed; with an
\* error the caller gets no response.
CountBulk(r, kind, outs) ==
  \/ (r.user = Missing \/ r.ids = <<>>) /\ Refuse(r, "invalid")
  \/ /\ r.user # Missing
     /\ r.ids # <<>>
     /\ \E out \in outs :
          IF out.err = "nil"
          THEN Reply(r, "ok", out, Successes(kind, out.out))
          ELSE Reply(r, "internal", [out EXCEPT !.out = <<>>], Successes(kind, out.out))

IssueOrders(r) ==
  Grpc(r, "issue") /\ CountBulk(r, "issued", Stg!IssueOrders(r.user, r.ids))

AcceptReturns(r) ==
  Grpc(r, "accept") /\ CountBulk(r, "accepted", Stg!AcceptReturns(r.user, r.ids))

GetOrderHistory(r) ==
  /\ Grpc(r, "history")
  /\ \/ r.id = Missing /\ Refuse(r, "invalid")
     \/ /\ r.id # Missing
        /\ \E out \in Stg!GetOrderHistory(r.id) : Reply(r, Found(out.err), out, NoneCounted)

-----------------------------------------------------------------------------
Tick ==
  /\ answer = None
  /\ now < MaxTime
  /\ now' = now + 1
  /\ UNCHANGED <<db, counters, done, faults, answer, reader, changes>>

\* The client has its answer.
Receive ==
  /\ answer # None
  /\ answer' = None
  /\ UNCHANGED <<now, db, counters, done, faults, reader, changes>>

ServeHttp(r) ==
  \/ basicAuthMiddleware(r)
  \/ handleCreateOrder(r) \/ handleGetOrder(r) \/ handleUpdateOrderStatus(r)
  \/ handleDeleteOrder(r) \/ handleListOrders(r) \/ handleAddReturn(r)
  \/ handleListReturns(r) \/ handleIssueOrders(r) \/ handleAcceptReturns(r)
  \/ handleOrderHistory(r)

ServeGrpc(r) ==
  \/ CreateOrder(r) \/ GetOrder(r) \/ UpdateOrderStatus(r) \/ DeleteOrder(r)
  \/ ListUserOrders(r) \/ AddReturn(r) \/ ListReturns(r) \/ IssueOrders(r)
  \/ AcceptReturns(r) \/ GetOrderHistory(r)

Next ==
  \/ \E r \in Requests : ServeHttp(r) \/ ServeGrpc(r)
  \/ Tick
  \/ Receive

Spec == Init /\ [][Next]_vars

-----------------------------------------------------------------------------
(***************************************************************************)
(* Properties.                                                             *)
(***************************************************************************)
Failed == answer.fault # "nil"

\* An answer of 500 or Internal means that the database failed, and a failure
\* that the storage reports is answered so: nobody is blamed for the other's.
\* The exceptions are what the handlers leave to the storage (a duplicate id, a
\* price or an offset that is no number for Postgres, PUT to an order that is not
\* there) and, over HTTP, the failures that answer 401 or 404.
BlamesRightly ==
  answer # None =>
    LET http == answer.req.door = "http"  op == answer.req.op
    IN /\ answer.code = "internal" /\ ~Failed =>
            \/ answer.err \in {"duplicate", "price", "offset"}
            \/ (http /\ op = "update" /\ answer.err = "not found")
       /\ answer.err = "failed" /\ answer.code # "internal" =>
            http /\ (answer.code = "unauthorized" \/ op \in {"get", "delete"})

\* A request that was not answered "ok" has changed nothing, however far into a
\* batch it failed.
RefusedChangesNothing ==
  [][answer = None /\ answer' # None /\ answer'.code # "ok" => db' = db]_vars

\* In a batch answered "ok" an item reported done was done by this request and
\* one reported failed was not, unless the server lost the acknowledgement of
\* the commit; over HTTP a repeated id is reported by its last result, which
\* fails though the first was done.
ItemsTellTable ==
  [][answer = None /\ answer' # None /\ answer'.code = "ok" /\ answer'.req.op \in {"issue", "accept"} =>
       LET r == answer'.req
           Reported(id) ==
             IF r.door = "http" THEN answer'.out[id] = "nil"
             ELSE \E i \in DOMAIN answer'.out : answer'.out[i] = [order |-> id, error |-> "nil"]
           Repeated(id) == Cardinality({i \in DOMAIN r.ids : r.ids[i] = id}) > 1
       IN \A id \in ToSet(r.ids) :
            /\ Reported(id) => db'.orders[id] # db.orders[id]
            /\ db'.orders[id] # db.orders[id] =>
                 \/ Reported(id)
                 \/ r.door = "http" /\ Repeated(id)
                 \/ answer'.fault = "ack"]_vars

\* The counters agree with what the gRPC requests have changed.  They run ahead
\* only when a statement failed in the middle of a batch or the commit of a
\* single order failed, and fall behind only when a batch was committed and the
\* acknowledgement of its commit lost.
CountersTellTable ==
  \A k \in Kinds :
    /\ counters[k] > done[k] => faults \intersect {"item", "commit"} # {}
    /\ counters[k] < done[k] => "ack" \in faults

\* Every stored order is packed as the table can say, at a price that INTEGER holds
\* after both surcharges, and is not as heavy as its container's limit, with or
\* without a membrane around it.  A weight that is no number is not: the packagers
\* let it through, and gRPC can bring it.
StoredOrdersAreSound ==
  \A id \in Ids : db.orders[id] # None =>
    LET row == db.orders[id]
    IN /\ row.wrapper \in Stg!WrapperType
       /\ row.wrapper.container = "Bag" => row.weight = NaN \/ row.weight < 10
       /\ row.wrapper.container = "Box" => row.weight = NaN \/ row.weight < 30
       /\ -(MaxPrice + 1) <= row.price /\ row.price <= MaxPrice

\* The list of active orders without a limit has every order that the user could
\* collect now, and none that he could bring back.
CollectableIsListed ==
  answer # None /\ answer.code = "ok" /\ answer.req.op = "list"
    /\ answer.req.active /\ answer.req.last <= 0 =>
    \A id \in Ids :
      /\ Stg!IssueError(db.orders[id], answer.req.user) = "nil" => id \in ToSet(answer.out)
      /\ Stg!ReturnError(db.orders[id], answer.req.user) = "nil" => id \notin ToSet(answer.out)

\* Who reads the returns page by page, while others return and collect orders,
\* misses none that was there all the time, unless a return went away meanwhile
\* or shares its time with another, as those of one batch do.
PagesMissNothing ==
  reader.over /\ ~reader.disturbed =>
    \A x \in db.returns :
      x.id \in reader.must \ reader.seen => \E y \in db.returns : y # x /\ y.at = x.at
=============================================================================
