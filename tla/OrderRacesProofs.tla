--------------------------- MODULE OrderRacesProofs ----------------------------
(***************************************************************************)
(* What may go wrong with the cache, the courier and the answers, and      *)
(* nothing else, for any clients, requests and faults.                     *)
(*                                                                         *)
(* Every observed step is a step of OrderStore, so its invariants hold.    *)
(* Races, the inductive invariant, says of each request that what it goes  *)
(* by is what stands in the table unless it was overtaken, and of the      *)
(* cache that it is current but where the history variables say so.        *)
(* Booked, for the answers, counts the requests that have committed and    *)
(* not answered yet.                                                       *)
(***************************************************************************)
EXTENDS OrderRaces, OrderAuditProofs

Current(o) == cache[o] \in {None, orders[o]}

\* A request that has committed o is about to write it to the cache.
Behind(o) == \E c \in Clients : pc[c] = "cache" /\ o \in tx[c].todo

Fresh == \A o \in Orders : Current(o) \/ o \in stale \/ Behind(o)

\* The courier may take o, by the row that stands in the table.
Takeable(o) == orders[o] # None /\ Returnable(orders[o])

\* UpdateOrderStatus has found the status that it was to write.
ChangesNothing(c) == pc[c] = "commit" /\ Req(c).op = "update" /\ Touched(c) = {}

\* What c goes by stands in the table, or c was overtaken, or no other may write it.
Knows(c) ==
  /\ pc[c] = "set" => tx[c].seen = orders[Target(c)] \/ Target(c) \in overtaken[c]
  /\ ChangesNothing(c) =>
       \E o \in Orders : o = Target(c) /\ lock[o] = c /\ tx[c].seen = orders[o]
  /\ pc[c] = "lock" /\ Req(c).op = "delete" =>
       Takeable(Target(c)) \/ Target(c) \in overtaken[c]
  /\ pc[c] \in {"record", "commit"} /\ Req(c).op = "delete" =>
       \A o \in Orders : Hits(c, o) => Takeable(o) \/ o \in overtaken[c]
  /\ pc[c] = "cache" =>
       \A o \in tx[c].todo : writes[c][o].row \in {None, orders[o]} \/ o \in overtaken[c]

Races == RacesTypeOK /\ Fresh /\ \A c \in Clients : Knows(c)

\* A step of c leaves the other requests where they are and their locks to them.
OthersStay(c) ==
  \A d \in Clients \ {c} :
    /\ pc'[d] = pc[d] /\ tx'[d] = tx[d] /\ writes'[d] = writes[d]
    /\ overtaken[d] \subseteq overtaken'[d]
    /\ \A o \in Orders : lock[o] = d => lock'[o] = d

-----------------------------------------------------------------------------
(***************************************************************************)
(* Frames.                                                                 *)
(***************************************************************************)

LEMMA RacesStep == [RacesNext]_<<vars, raceVars>> => [Next]_vars
<1> SUFFICES ASSUME [RacesNext]_<<vars, raceVars>> PROVE [Next]_vars
  OBVIOUS
<1>1. ASSUME NEW c \in Clients, ObservedRead(c) \/ ObservedCommit(c) \/ ObservedUpdate(c)
      PROVE  Next
  BY <1>1 DEF ObservedRead, ObservedCommit, ObservedUpdate, Next, Proceed, Fail
<1>2. ASSUME NEW c \in Clients, Unobserved(c) PROVE Next
  BY <1>2 DEF Unobserved, Next, Proceed, Fail
<1> QED
  BY <1>1, <1>2 DEF RacesNext, ObservedRestart, Next

LEMMA RacesTyped == RacesTypeOK /\ TypeOK /\ [RacesNext]_<<vars, raceVars>> => RacesTypeOK'
<1> SUFFICES ASSUME RacesTypeOK, TypeOK, [RacesNext]_<<vars, raceVars>> PROVE RacesTypeOK'
  OBVIOUS
<1> USE DEF RacesTypeOK
<1>1. ASSUME NEW c \in Clients, Moves(c) PROVE overtaken' \in [Clients -> SUBSET Orders]
  BY <1>1 DEF Moves
<1>2. ASSUME NEW c \in Clients, NEW o \in Orders, Caches(c, o) PROVE stale' \in SUBSET Orders
  BY <1>2 DEF Caches
<1>3. ASSUME NEW c \in Clients, Overtakes(c) PROVE overtaken' \in [Clients -> SUBSET Orders]
  BY <1>3 DEF Overtakes
<1>4. ASSUME NEW c \in Clients, ObservedRead(c) PROVE RacesTypeOK'
  <2>1. pc[c] \in {"get", "fill", "set"} /\ Target(c) \in Orders
    BY <1>4, TargetType DEF ObservedRead, CacheHit, CacheMiss, GetByID, FillCache
  <2>2. ReadsCache(c) => overtaken' \in [Clients -> SUBSET Orders]
    BY <2>1 DEF ReadsCache
  <2> QED
    BY <1>1, <1>2, <1>4, <2>1, <2>2 DEF ObservedRead
<1>5. ASSUME NEW c \in Clients, ObservedCommit(c) PROVE RacesTypeOK'
  BY <1>1, <1>3, <1>5 DEF ObservedCommit
<1>6. ASSUME NEW c \in Clients, ObservedUpdate(c) PROVE RacesTypeOK'
  <2>1. tx[c].todo \subseteq Orders
    BY DEF TypeOK, TypesOK, TxType
  <2> QED
    BY <1>1, <1>2, <1>6, <2>1 DEF ObservedUpdate
<1>7. ASSUME ObservedRestart PROVE RacesTypeOK'
  BY <1>7 DEF ObservedRestart
<1> QED
  BY <1>1, <1>4, <1>5, <1>6, <1>7 DEF RacesNext, raceVars

\* Another request still knows what it knew.
LEMMA KnowsFrame ==
  ASSUME TypeOK, PendingIsCurrent, NEW c \in Clients, OthersStay(c), now' = now,
         NEW d \in Clients \ {c}, Knows(d),
         \A o \in Orders : \/ orders'[o] = orders[o]
                           \/ lock[o] # d /\ (Relies(d, o) => o \in overtaken'[d])
  PROVE  Knows(d)'
<1>1. /\ pc'[d] = pc[d] /\ tx'[d] = tx[d] /\ writes'[d] = writes[d]
      /\ overtaken[d] \subseteq overtaken'[d]
      /\ \A o \in Orders : lock[o] = d => lock'[o] = d
  BY DEF OthersStay
<1>2. Target(d)' = Target(d) /\ Req(d)' = Req(d)
  BY <1>1 DEF Target, Req
<1>3. pc[d] \in {"set", "lock"} => Target(d) \in Orders
  BY TargetType
<1>4. pc'[d] = "set" => tx'[d].seen = orders'[Target(d)] \/ Target(d) \in overtaken'[d]
  BY <1>1, <1>3 DEF Knows, Relies
<1>5. ChangesNothing(d)' =>
        \E o \in Orders : o = Target(d) /\ lock'[o] = d /\ tx'[d].seen = orders'[o]
  <2>1. ChangesNothing(d)' => ChangesNothing(d)
    BY <1>1, <1>2 DEF ChangesNothing, Touched
  <2> QED
    BY <1>1, <2>1 DEF Knows
<1>6. ASSUME NEW o \in Orders, orders'[o] = orders[o], Takeable(o) PROVE Takeable(o)'
  BY <1>6 DEF Takeable, Returnable
<1>7. pc'[d] = "lock" /\ Req(d).op = "delete" =>
        Takeable(Target(d))' \/ Target(d) \in overtaken'[d]
  <2> SUFFICES ASSUME pc[d] = "lock", Req(d).op = "delete", Target(d) \notin overtaken'[d]
               PROVE  Takeable(Target(d))'
    BY <1>1
  <2>1. PICK o \in Orders : o = Target(d)
    BY <1>3
  <2>2. Takeable(o) /\ Relies(d, o)
    BY <1>1, <2>1 DEF Knows, Relies
  <2>3. Takeable(o)'
    BY <1>6, <2>1, <2>2
  <2> QED
    BY <1>2, <2>1, <2>3 DEF Takeable, Returnable
<1>8. ASSUME pc[d] \in {"record", "commit"}, Req(d).op = "delete", NEW o \in Orders, Hits(d, o)'
      PROVE  Takeable(o)' \/ o \in overtaken'[d]
  <2>1. Hits(d, o)
    BY <1>1, <1>8 DEF Hits
  <2>2. lock[o] = d
    BY <1>8, <2>1 DEF PendingIsCurrent
  <2> QED
    BY <1>1, <1>6, <1>8, <2>1, <2>2 DEF Knows
<1>9. ASSUME pc[d] = "cache", NEW o \in tx[d].todo
      PROVE  writes[d][o].row \in {None, orders'[o]} \/ o \in overtaken'[d]
  <2>1. o \in Orders
    BY <1>9 DEF TypeOK, TypesOK, TxType
  <2> QED
    BY <1>1, <1>9, <2>1 DEF Knows, Relies
<1> QED
  BY <1>1, <1>2, <1>4, <1>5, <1>7, <1>8, <1>9 DEF Knows

\* A step of c that changes no committed row.
LEMMA RacesQuiet ==
  ASSUME TypeOK, PendingIsCurrent, Races, NEW c \in Clients, OthersStay(c),
         UNCHANGED <<now, orders>>, RacesTypeOK', Fresh', Knows(c)'
  PROVE  Races'
<1>1. ASSUME NEW d \in Clients \ {c} PROVE Knows(d)'
  BY KnowsFrame DEF Races
<1> QED
  BY <1>1 DEF Races

\* A step of c at a call before its commit leaves the cache as it is.
LEMMA FreshKept ==
  ASSUME Races, NEW c \in Clients, pc[c] # "cache", OthersStay(c),
         UNCHANGED <<cache, orders, stale>>
  PROVE  Fresh'
<1> SUFFICES ASSUME NEW o \in Orders, ~Current(o), o \notin stale PROVE Behind(o)'
  BY DEF Fresh, Current
<1> QED
  BY DEF Races, Fresh, Behind, OthersStay

\* A client that has nothing written and goes to a call that goes by nothing.
LEMMA KnowsNothing ==
  ASSUME NEW c \in Clients, pc'[c] \in {"idle", "get", "fill"}
  PROVE  Knows(c)'
BY DEF Knows, ChangesNothing

\* The other requests, and their locks, at the steps of c.
LEMMA StayFinish ==
  ASSUME TypeOK, NEW c \in Clients, NEW oks, Finish(c, oks), Unlock(c) \/ UNCHANGED lock,
         \A d \in Clients \ {c} : overtaken[d] \subseteq overtaken'[d]
  PROVE  OthersStay(c) /\ pc'[c] = "idle"
BY DEF Finish, Unlock, OthersStay, TypeOK, TypesOK

LEMMA StayMoves ==
  ASSUME RacesTypeOK, NEW c \in Clients, Moves(c)
  PROVE  /\ \A d \in Clients \ {c} : overtaken'[d] = overtaken[d]
         /\ overtaken'[c] = IF pc'[c] = "idle" THEN {} ELSE overtaken[c]
BY DEF Moves, RacesTypeOK

\* Ending a request without a commit.
LEMMA RacesEnd ==
  ASSUME TypeOK, PendingIsCurrent, Races, RacesTypeOK', NEW c \in Clients, pc[c] # "cache",
         NEW oks, Finish(c, oks), Unlock(c) \/ UNCHANGED lock, Moves(c),
         UNCHANGED <<now, orders, cache, stale>>
  PROVE  Races'
<1>1. OthersStay(c) /\ pc'[c] = "idle"
  BY StayFinish, StayMoves DEF Races
<1>2. Fresh'
  BY <1>1, FreshKept
<1> QED
  BY <1>1, <1>2, KnowsNothing, RacesQuiet

-----------------------------------------------------------------------------
(***************************************************************************)
(* Reading.                                                                *)
(***************************************************************************)

LEMMA RacesStart ==
  ASSUME TypeOK, PendingIsCurrent, Races, RacesTypeOK', NEW c \in Clients,
         Start(c), Moves(c), UNCHANGED stale
  PROVE  Races'
<1>1. PICK r \in Requests :
        /\ pc' = [pc EXCEPT ![c] = IF r.op \in {"get", "delete"} THEN "get" ELSE "lock"]
        /\ tx' = [tx EXCEPT ![c] = Begin(r)]
  BY DEF Start
<1>2. pc[c] = "idle" /\ UNCHANGED <<now, orders, cache, lock, writes>>
  BY DEF Start, tables
<1>3. tx'[c].req = r /\ pc'[c] = IF r.op \in {"get", "delete"} THEN "get" ELSE "lock"
  BY <1>1 DEF Begin, TypeOK, TypesOK
<1>4. OthersStay(c)
  BY <1>1, <1>2, StayMoves DEF Races, OthersStay, TypeOK, TypesOK
<1>5. Knows(c)'
  BY <1>3 DEF Knows, ChangesNothing, Req
<1> QED
  BY <1>2, <1>4, <1>5, FreshKept, RacesQuiet

\* GetOrder returned a row to c that is the committed one, or c is overtaken.
LEMMA RacesUse ==
  ASSUME TypeOK, PendingIsCurrent, Races, RacesTypeOK', NEW c \in Clients,
         pc[c] \in {"get", "set"}, NEW row, row # None, UseOrder(c, row),
         UNCHANGED <<now, orders, lock>>, Fresh',
         \A d \in Clients \ {c} : overtaken[d] \subseteq overtaken'[d],
         pc'[c] # "idle" => row = orders[Target(c)] \/ Target(c) \in overtaken'[c]
  PROVE  Races'
<1>1. CASE Finish(c, {})
  BY <1>1, StayFinish, KnowsNothing, RacesQuiet
<1>2. CASE /\ Returnable(row)
           /\ pc' = [pc EXCEPT ![c] = "lock"]
           /\ tx' = [tx EXCEPT ![c].seen = None]
           /\ UNCHANGED <<writes, answered>>
  <2>1. pc'[c] = "lock" /\ OthersStay(c)
    BY <1>2 DEF OthersStay, TypeOK, TypesOK
  <2>2. tx'[c].req = tx[c].req /\ tx'[c].item = tx[c].item
    BY <1>2 DEF TypeOK, TypesOK, TxType
  <2>3. Takeable(Target(c))' \/ Target(c)' \in overtaken'[c]
    BY <1>2, <2>1, <2>2 DEF Takeable, Target, Req, Returnable
  <2>4. Knows(c)'
    BY <2>1, <2>3 DEF Knows, ChangesNothing
  <2> QED
    BY <2>1, <2>4, RacesQuiet
<1> QED
  BY <1>1, <1>2 DEF UseOrder

LEMMA RacesCacheHit ==
  ASSUME TypeOK, PendingIsCurrent, Races, RacesTypeOK', NEW c \in Clients,
         CacheHit(c), ReadsCache(c), UNCHANGED stale
  PROVE  Races'
<1>1. /\ pc[c] = "get" /\ Target(c) \in Orders /\ UNCHANGED <<now, orders, cache, lock>>
      /\ UseOrder(c, cache[Target(c)]) /\ cache[Target(c)] # None
  BY TargetType DEF CacheHit, tables
<1>2. /\ \A d \in Clients \ {c} : overtaken'[d] = overtaken[d]
      /\ pc'[c] # "idle" =>
           cache[Target(c)] = orders[Target(c)] \/ Target(c) \in overtaken'[c]
  BY <1>1 DEF ReadsCache, Races, RacesTypeOK
<1>3. OthersStay(c)
  <2>1. \A d \in Clients \ {c} : pc'[d] = pc[d] /\ tx'[d] = tx[d] /\ writes'[d] = writes[d]
    BY <1>1 DEF UseOrder, Finish, TypeOK, TypesOK
  <2> QED
    BY <1>1, <1>2, <2>1 DEF OthersStay
<1>4. Fresh'
  BY <1>1, <1>3, FreshKept
<1> QED
  BY <1>1, <1>2, <1>4, RacesUse

LEMMA RacesCacheMiss ==
  ASSUME TypeOK, PendingIsCurrent, Races, RacesTypeOK', NEW c \in Clients,
         CacheMiss(c), Moves(c), UNCHANGED stale
  PROVE  Races'
<1>1. /\ pc[c] = "get" /\ pc'[c] = "fill" /\ UNCHANGED <<now, orders, cache, lock>>
      /\ \A d \in Clients \ {c} : pc'[d] = pc[d] /\ tx'[d] = tx[d] /\ writes'[d] = writes[d]
  BY DEF CacheMiss, tables, TypeOK, TypesOK
<1>2. OthersStay(c)
  BY <1>1, StayMoves DEF Races, OthersStay
<1> QED
  BY <1>1, <1>2, FreshKept, KnowsNothing, RacesQuiet

LEMMA RacesGetByID ==
  ASSUME TypeOK, PendingIsCurrent, Races, RacesTypeOK', NEW c \in Clients,
         GetByID(c), Moves(c), UNCHANGED stale
  PROVE  Races'
<1>1. pc[c] = "fill" /\ UNCHANGED <<now, orders, cache, lock>>
  BY DEF GetByID, tables
<1>2. CASE Finish(c, {})
  BY <1>1, <1>2, RacesEnd
<1>3. CASE /\ tx' = [tx EXCEPT ![c].seen = orders[Target(c)]]
           /\ pc' = [pc EXCEPT ![c] = "set"]
           /\ UNCHANGED <<writes, answered>>
  <2>1. pc'[c] = "set" /\ OthersStay(c)
    BY <1>1, <1>3, StayMoves DEF Races, OthersStay, TypeOK, TypesOK
  <2>2. /\ tx'[c].req = tx[c].req /\ tx'[c].item = tx[c].item
        /\ tx'[c].seen = orders[Target(c)]
    BY <1>3 DEF TypeOK, TypesOK, TxType
  <2>3. Knows(c)'
    BY <1>1, <2>1, <2>2 DEF Knows, ChangesNothing, Target, Req
  <2> QED
    BY <1>1, <2>1, <2>3, FreshKept, RacesQuiet
<1> QED
  BY <1>2, <1>3 DEF GetByID

\* The row that c writes to the cache is current there, or is counted as stale.
LEMMA FreshCaches ==
  ASSUME TypeOK, Races, NEW c \in Clients, NEW o \in Orders, NEW row,
         row \in {None, orders[o]} \/ o \in overtaken[c],
         CachePut(o, row), Caches(c, o), UNCHANGED orders,
         \A p \in Orders \ {o} : Behind(p) => Behind(p)'
  PROVE  Fresh'
<1> SUFFICES ASSUME NEW p \in Orders
             PROVE  Current(p)' \/ p \in stale' \/ Behind(p)'
  BY DEF Fresh
<1>1. CASE p = o
  <2>1. cache'[o] \in {None, row}
    BY DEF CachePut, TypeOK, TypesOK
  <2> QED
    BY <1>1, <2>1 DEF Current, Caches
<1>2. CASE p # o
  <2>1. cache'[p] = cache[p]
    BY <1>2 DEF CachePut, TypeOK, TypesOK
  <2>2. p \in stale => p \in stale'
    BY <1>2 DEF Caches
  <2>3. Current(p) \/ p \in stale \/ Behind(p)
    BY DEF Races, Fresh
  <2> QED
    BY <1>2, <2>1, <2>2, <2>3 DEF Current
<1> QED
  BY <1>1, <1>2

LEMMA RacesFillCache ==
  ASSUME TypeOK, PendingIsCurrent, Races, RacesTypeOK', NEW c \in Clients,
         FillCache(c), Moves(c), Caches(c, Target(c))
  PROVE  Races'
<1>1. /\ pc[c] = "set" /\ Target(c) \in Orders /\ UNCHANGED <<now, orders, lock>>
      /\ UseOrder(c, tx[c].seen)
  BY TargetType DEF FillCache, tables
<1>2. tx[c].seen = orders[Target(c)] \/ Target(c) \in overtaken[c]
  BY <1>1 DEF Races, Knows
<1>3. tx[c].seen # None
  BY <1>1 DEF TypeOK, Shaped
<1>4. ASSUME NEW p \in Orders, Behind(p) PROVE Behind(p)'
  <2>1. PICK d \in Clients : pc[d] = "cache" /\ p \in tx[d].todo
    BY <1>4 DEF Behind
  <2>2. d # c /\ pc'[d] = pc[d] /\ tx'[d] = tx[d]
    BY <1>1, <2>1 DEF UseOrder, Finish, TypeOK, TypesOK
  <2> QED
    BY <2>1, <2>2 DEF Behind
<1>5. Fresh'
  BY <1>1, <1>2, <1>4, FreshCaches DEF FillCache
<1>6. \A d \in Clients \ {c} : overtaken'[d] = overtaken[d]
  BY StayMoves DEF Races
<1>7. pc'[c] # "idle" => overtaken'[c] = overtaken[c]
  BY StayMoves DEF Races
<1> QED
  BY <1>1, <1>2, <1>3, <1>5, <1>6, <1>7, RacesUse

-----------------------------------------------------------------------------
(***************************************************************************)
(* Writing, under row locks.                                               *)
(***************************************************************************)

\* A statement of c's transaction: it takes free locks only.
LEMMA RacesStatement ==
  ASSUME TypeOK, PendingIsCurrent, Races, RacesTypeOK', NEW c \in Clients,
         pc[c] \in {"lock", "record"}, pc'[c] # "idle", Moves(c),
         \A d \in Clients \ {c} : pc'[d] = pc[d] /\ tx'[d] = tx[d] /\ writes'[d] = writes[d],
         \A o \in Orders : lock'[o] = lock[o] \/ ~Blocked(c, o),
         UNCHANGED <<now, orders, cache, stale>>, Knows(c)'
  PROVE  Races'
<1>1. OthersStay(c)
  <2>1. ASSUME NEW d \in Clients \ {c}, NEW o \in Orders, lock[o] = d PROVE lock'[o] = d
    <3>1. Blocked(c, o)
      BY <2>1, NoneIsApart DEF Blocked
    <3> QED
      BY <2>1, <3>1
  <2> QED
    BY <2>1, StayMoves DEF OthersStay, Races
<1> QED
  BY <1>1, FreshKept, RacesQuiet

\* Writing the order that the request is about.
LEMMA RacesWrite ==
  ASSUME TypeOK, PendingIsCurrent, Races, RacesTypeOK', NEW c \in Clients, pc[c] = "lock",
         Req(c).op \notin BulkOps, Moves(c), NEW o \in Orders, o = Target(c),
         NEW e, e.hit => ~Blocked(c, o), Write(c, o, e), Goto(c, "record"),
         UNCHANGED <<now, orders, cache, tx, stale>>
  PROVE  Races'
<1>1. /\ pc'[c] = "record"
      /\ \A d \in Clients \ {c} : pc'[d] = pc[d] /\ tx'[d] = tx[d] /\ writes'[d] = writes[d]
      /\ \A p \in Orders \ {o} : writes'[c][p] = None
  BY DEF Write, Goto, TypeOK, TypesOK, Shaped, Req
<1>2. \A p \in Orders : lock'[p] = lock[p] \/ ~Blocked(c, p)
  BY DEF Write, TypeOK, TypesOK
<1>3. Knows(c)'
  <2>1. Req(c).op = "delete" => Takeable(o) \/ o \in overtaken[c]
    BY DEF Races, Knows
  <2>2. Takeable(o) => Takeable(o)'
    BY DEF Takeable, Returnable
  <2>3. overtaken'[c] = overtaken[c]
    BY <1>1, StayMoves DEF Races
  <2>4. \A p \in Orders : Hits(c, p)' => p = o
    BY <1>1 DEF Hits
  <2>5. Req(c)' = Req(c)
    BY DEF Req
  <2>6. Req(c).op = "delete" => \A p \in Orders : Hits(c, p)' => Takeable(p)' \/ p \in overtaken'[c]
    BY <2>1, <2>2, <2>3, <2>4
  <2> QED
    BY <1>1, <2>5, <2>6 DEF Knows, ChangesNothing
<1> QED
  BY <1>1, <1>2, <1>3, RacesStatement

LEMMA RacesInsert ==
  ASSUME TypeOK, PendingIsCurrent, Races, RacesTypeOK', NEW c \in Clients,
         InsertOrder(c), Moves(c), UNCHANGED stale
  PROVE  Races'
<1>1. PICK o \in Orders : o = Target(c) /\ pc[c] = "lock" /\ ~Blocked(c, o)
  BY TargetType DEF InsertOrder
<1>2. PICK e : Write(c, o, e)
  BY <1>1 DEF InsertOrder
<1> QED
  BY <1>1, <1>2, RacesWrite DEF InsertOrder, BulkOps, tables

LEMMA RacesReturn ==
  ASSUME TypeOK, PendingIsCurrent, Races, RacesTypeOK', NEW c \in Clients,
         ReturnOrder(c), Moves(c), UNCHANGED stale
  PROVE  Races'
<1>1. PICK o \in Orders : o = Target(c) /\ pc[c] = "lock" /\ ~Blocked(c, o)
  BY TargetType DEF ReturnOrder
<1>2. PICK e : Write(c, o, e)
  BY <1>1 DEF ReturnOrder
<1> QED
  BY <1>1, <1>2, RacesWrite DEF ReturnOrder, BulkOps, tables

LEMMA RacesDelete ==
  ASSUME TypeOK, PendingIsCurrent, Races, RacesTypeOK', NEW c \in Clients,
         DeleteRow(c), Moves(c), UNCHANGED stale
  PROVE  Races'
<1>1. PICK o \in Orders : o = Target(c) /\ pc[c] = "lock"
  BY TargetType DEF DeleteRow
<1>2. PICK e : Write(c, o, e) /\ (e.hit => orders[o] # None)
  <2>1. PICK e : e = [action |-> "ORDER_DELETED", old |-> "", row |-> None,
                      at |-> now, hit |-> orders[o] # None]
    OBVIOUS
  <2>2. Write(c, o, e)
    BY <1>1, <2>1 DEF DeleteRow
  <2>3. e.hit => orders[o] # None
    BY <2>1, Zenon
  <2> QED
    BY <2>2, <2>3
<1>3. e.hit => ~Blocked(c, o)
  BY <1>1, <1>2 DEF DeleteRow
<1> QED
  BY <1>1, <1>2, <1>3, RacesWrite DEF DeleteRow, BulkOps, tables

LEMMA RacesChangeStatus ==
  ASSUME TypeOK, PendingIsCurrent, Races, RacesTypeOK', NEW c \in Clients,
         ChangeStatus(c), Moves(c), UNCHANGED stale
  PROVE  Races'
<1>1. PICK o \in Orders : o = Target(c) /\ pc[c] = "lock" /\ ~Blocked(c, o)
  BY TargetType DEF ChangeStatus
<1>2. Req(c).op = "update" /\ UNCHANGED <<now, orders, cache>>
  BY DEF ChangeStatus, tables
<1>3. CASE /\ tx' = [tx EXCEPT ![c].seen = orders[o]]
           /\ lock' = [lock EXCEPT ![o] = c]
           /\ Goto(c, "commit")
           /\ UNCHANGED writes
  <2>1. /\ pc'[c] = "commit"
        /\ \A d \in Clients \ {c} : pc'[d] = pc[d] /\ tx'[d] = tx[d] /\ writes'[d] = writes[d]
    BY <1>3 DEF Goto, TypeOK, TypesOK
  <2>2. /\ tx'[c].req = tx[c].req /\ tx'[c].item = tx[c].item
        /\ tx'[c].seen = orders[o]
    BY <1>3 DEF TypeOK, TypesOK, TxType
  <2>3. lock'[o] = c /\ \A p \in Orders : lock'[p] = lock[p] \/ ~Blocked(c, p)
    BY <1>1, <1>3 DEF TypeOK, TypesOK
  <2>4. Knows(c)'
    BY <1>1, <1>2, <2>1, <2>2, <2>3 DEF Knows, Target, Req
  <2> QED
    BY <1>1, <1>2, <2>1, <2>3, <2>4, RacesStatement
<1>4. CASE ~SameStatus(orders[o], Req(c).status)
  <2>1. PICK e : Write(c, o, e)
    BY <1>1, <1>4 DEF ChangeStatus
  <2> QED
    BY <1>1, <1>2, <1>4, <2>1, RacesWrite DEF ChangeStatus, BulkOps
<1> QED
  BY <1>1, <1>3, <1>4 DEF ChangeStatus

LEMMA RacesBulkItem ==
  ASSUME TypeOK, PendingIsCurrent, Races, RacesTypeOK', NEW c \in Clients,
         BulkItem(c), Moves(c), UNCHANGED stale
  PROVE  Races'
<1>1. PICK o \in Orders :
        /\ o = Target(c) /\ pc[c] = "lock" /\ Req(c).op \in BulkOps
        /\ UNCHANGED <<now, orders, cache>>
        /\ tx' = [tx EXCEPT ![c].item = tx[c].item + 1]
        /\ Goto(c, "record") \/ UNCHANGED pc
        /\ UNCHANGED writes \/ \E e : writes' = [writes EXCEPT ![c][o] = e]
  BY TargetType DEF BulkItem, tables
<1>2. /\ pc'[c] \in {"lock", "record"} /\ tx'[c].req = tx[c].req
      /\ \A d \in Clients \ {c} : pc'[d] = pc[d] /\ tx'[d] = tx[d] /\ writes'[d] = writes[d]
  BY <1>1 DEF Goto, TypeOK, TypesOK, TxType
<1>3. \A p \in Orders : lock'[p] = lock[p] \/ ~Blocked(c, p)
  <2>1. lock' = [lock EXCEPT ![o] = lock'[o]] /\ (lock'[o] = lock[o] \/ ~Blocked(c, o))
    <3>1. PICK row : /\ row = None \/ ~Blocked(c, o)
                     /\ lock' = [lock EXCEPT ![o] = IF row # None THEN c ELSE lock[o]]
      BY <1>1 DEF BulkItem
    <3> QED
      BY <3>1 DEF TypeOK, TypesOK
  <2> QED
    BY <2>1 DEF TypeOK, TypesOK
<1>4. Knows(c)'
  BY <1>1, <1>2 DEF Knows, ChangesNothing, BulkOps, Req
<1> QED
  BY <1>1, <1>2, <1>3, <1>4, RacesStatement

LEMMA RacesRecord ==
  ASSUME TypeOK, PendingIsCurrent, Races, RacesTypeOK', NEW c \in Clients,
         Record(c), Moves(c), UNCHANGED stale
  PROVE  Races'
<1>1. pc[c] = "record" /\ UNCHANGED <<now, orders, cache, tx, lock>>
  BY DEF Record, tables
<1>2. /\ pc'[c] = "commit"
      /\ \A d \in Clients \ {c} : pc'[d] = pc[d] /\ tx'[d] = tx[d] /\ writes'[d] = writes[d]
  BY DEF Record, Goto, TypeOK, TypesOK
<1>3. Req(c).op \in {"update", "delete"} => writes'[c] = writes[c]
  BY DEF Record, TypeOK, TypesOK
<1>4. ~ChangesNothing(c)'
  <2>1. Req(c).op = "update" => \E o \in Orders : writes[c][o] # None
    BY <1>1 DEF TypeOK, Shaped, Req
  <2> QED
    BY <1>1, <1>3, <2>1 DEF ChangesNothing, Touched, Req
<1>5. ASSUME Req(c).op = "delete", NEW o \in Orders, Hits(c, o)'
      PROVE  Takeable(o)' \/ o \in overtaken'[c]
  <2>1. Hits(c, o)
    BY <1>3, <1>5 DEF Hits
  <2>2. Takeable(o) \/ o \in overtaken[c]
    BY <1>1, <1>5, <2>1 DEF Races, Knows
  <2>3. Takeable(o) => Takeable(o)'
    BY <1>1 DEF Takeable, Returnable
  <2>4. overtaken'[c] = overtaken[c]
    BY <1>2, StayMoves DEF Races
  <2> QED
    BY <2>2, <2>3, <2>4
<1>6. Knows(c)'
  BY <1>1, <1>2, <1>4, <1>5 DEF Knows, Req
<1> QED
  BY <1>1, <1>2, <1>6, RacesStatement

-----------------------------------------------------------------------------
(***************************************************************************)
(* The end of a transaction, and what comes after it.                      *)
(***************************************************************************)

\* A commit overtakes whoever goes by a row that it changes and holds no lock.
LEMMA CommitFrame ==
  ASSUME TypeOK, PendingIsCurrent, Races, NEW c \in Clients, pc[c] = "commit", Apply(c),
         Unlock(c), Overtakes(c), now' = now,
         \A d \in Clients \ {c} : pc'[d] = pc[d] /\ tx'[d] = tx[d] /\ writes'[d] = writes[d]
  PROVE  \A d \in Clients \ {c} : Knows(d)'
<1> TAKE d \in Clients \ {c}
<1>1. OthersStay(c)
  BY DEF OthersStay, Unlock, Overtakes
<1>2. ASSUME NEW o \in Orders, orders'[o] # orders[o]
      PROVE  lock[o] # d /\ (Relies(d, o) => o \in overtaken'[d])
  <2>1. Hits(c, o)
    BY <1>2 DEF Apply
  <2>2. lock[o] = c
    BY <2>1 DEF PendingIsCurrent
  <2> QED
    BY <2>1, <2>2 DEF Overtakes
<1> QED
  BY <1>1, <1>2, KnowsFrame DEF Races

\* A statement that hits no row is a DELETE.
LEMMA UnhitRow ==
  ASSUME TypeOK, PendingIsCurrent, Staged, NEW c \in Clients, pc[c] = "commit",
         NEW o \in Orders, writes[c][o] # None, ~writes[c][o].hit
  PROVE  writes[c][o].row = None
<1>1. PICK e : e = writes[c][o]
  OBVIOUS
<1>2. Made(e, Req(c), tx[c].at)
  BY <1>1, AtCommit
<1>3. ~e.hit
  BY <1>1
<1>4. e.row = None
  BY <1>2, <1>3, Zenon DEF Made
<1> QED
  BY <1>1, <1>4

LEMMA RacesCommit ==
  ASSUME TypeOK, PendingIsCurrent, Staged, Races, RacesTypeOK', NEW c \in Clients,
         Commit(c), Overtakes(c), UNCHANGED stale
  PROVE  Races'
<1>1. pc[c] = "commit" /\ Apply(c) /\ Unlock(c) /\ AfterCommit(c) /\ UNCHANGED <<now, cache>>
  BY DEF Commit
<1>2. \A d \in Clients \ {c} : pc'[d] = pc[d] /\ tx'[d] = tx[d] /\ writes'[d] = writes[d]
  BY <1>1 DEF AfterCommit, Goto, Finish, TypeOK, TypesOK
<1>3. \A d \in Clients \ {c} : Knows(d)'
  BY <1>1, <1>2, CommitFrame
<1>4. \A o \in Orders : orders'[o] = IF Hits(c, o) THEN writes[c][o].row ELSE orders[o]
  BY <1>1 DEF Apply
<1>5. CASE Touched(c) = {} /\ Req(c).op = "update"
  <2>1. \A o \in Orders : orders'[o] = orders[o]
    BY <1>4, <1>5 DEF Touched, Hits
  <2>2. Goto(c, "set") /\ UNCHANGED <<tx, writes>>
    BY <1>1, <1>5 DEF AfterCommit
  <2>3. pc'[c] = "set"
    BY <2>2 DEF Goto, TypeOK, TypesOK
  <2>4. \E o \in Orders : o = Target(c) /\ tx[c].seen = orders[o]
    BY <1>1, <1>5 DEF Races, Knows, ChangesNothing
  <2>5. Knows(c)'
    BY <2>1, <2>2, <2>3, <2>4 DEF Knows, ChangesNothing, Target, Req
  <2>6. Fresh'
    <3> SUFFICES ASSUME NEW o \in Orders, ~Current(o), o \notin stale PROVE Behind(o)'
      BY <1>1, <2>1 DEF Fresh, Current
    <3> QED
      BY <1>1, <1>2 DEF Races, Fresh, Behind
  <2> QED
    BY <1>3, <2>5, <2>6 DEF Races
<1>6. CASE Touched(c) = {} /\ Req(c).op # "update"
  <2>1. \A o \in Orders : orders'[o] = orders[o]
    BY <1>4, <1>6 DEF Touched, Hits
  <2>2. pc'[c] = "idle"
    BY <1>1, <1>6 DEF AfterCommit, Finish, TypeOK, TypesOK
  <2>3. Fresh'
    <3> SUFFICES ASSUME NEW o \in Orders, ~Current(o), o \notin stale PROVE Behind(o)'
      BY <1>1, <2>1 DEF Fresh, Current
    <3> QED
      BY <1>1, <1>2 DEF Races, Fresh, Behind
  <2> QED
    BY <1>3, <2>2, <2>3, KnowsNothing DEF Races
<1>7. CASE Touched(c) # {}
  <2>1. Goto(c, "cache") /\ tx' = [tx EXCEPT ![c].todo = Touched(c)] /\ UNCHANGED writes
    BY <1>1, <1>7 DEF AfterCommit
  <2>2. pc'[c] = "cache" /\ tx'[c].todo = Touched(c)
    BY <2>1 DEF Goto, TypeOK, TypesOK, TxType
  <2>3. ASSUME NEW o \in Touched(c) PROVE writes[c][o].row \in {None, orders'[o]}
    <3>1. o \in Orders /\ writes[c][o] # None
      BY <2>3 DEF Touched
    <3>2. CASE Hits(c, o)
      BY <1>4, <3>1, <3>2
    <3>3. CASE ~Hits(c, o)
      BY <1>1, <3>1, <3>3, UnhitRow DEF Hits
    <3> QED
      BY <3>2, <3>3
  <2>4. Knows(c)'
    BY <2>1, <2>2, <2>3 DEF Knows, ChangesNothing
  <2>5. Fresh'
    <3> SUFFICES ASSUME NEW o \in Orders, ~Current(o)', o \notin stale PROVE Behind(o)'
      BY DEF Fresh
    <3>1. CASE Hits(c, o)
      BY <2>2, <3>1 DEF Behind, Hits, Touched
    <3>2. CASE ~Hits(c, o)
      <4>1. ~Current(o)
        BY <1>1, <1>4, <3>2 DEF Current
      <4> QED
        BY <1>1, <1>2, <4>1 DEF Races, Fresh, Behind
    <3> QED
      BY <3>1, <3>2
  <2> QED
    BY <1>3, <2>4, <2>5 DEF Races
<1> QED
  BY <1>5, <1>6, <1>7

LEMMA RacesAckLost ==
  ASSUME TypeOK, PendingIsCurrent, Races, RacesTypeOK', NEW c \in Clients,
         CommitAckLost(c), Overtakes(c),
         stale' = stale \union {o \in Orders : Hits(c, o) /\ cache[o] # None}
  PROVE  Races'
<1>1. /\ pc[c] = "commit" /\ Apply(c) /\ Unlock(c) /\ Finish(c, CommitErrorAnswer(c))
      /\ UNCHANGED <<now, cache>>
  BY DEF CommitAckLost
<1>2. /\ \A d \in Clients \ {c} : pc'[d] = pc[d] /\ tx'[d] = tx[d] /\ writes'[d] = writes[d]
      /\ pc'[c] = "idle"
  BY <1>1 DEF Finish, TypeOK, TypesOK
<1>3. \A d \in Clients \ {c} : Knows(d)'
  BY <1>1, <1>2, CommitFrame
<1>4. Fresh'
  <2> SUFFICES ASSUME NEW o \in Orders, ~Current(o)', o \notin stale' PROVE Behind(o)'
    BY DEF Fresh
  <2>1. ~Hits(c, o) /\ o \notin stale
    BY <1>1 DEF Current
  <2>2. ~Current(o)
    BY <1>1, <2>1 DEF Current, Apply
  <2> QED
    BY <1>1, <1>2, <2>1, <2>2 DEF Races, Fresh, Behind
<1> QED
  BY <1>2, <1>3, <1>4, KnowsNothing DEF Races

LEMMA RacesUpdateCache ==
  ASSUME TypeOK, PendingIsCurrent, Races, RacesTypeOK', NEW c \in Clients, ObservedUpdate(c)
  PROVE  Races'
<1>1. PICK o \in tx[c].todo :
        /\ CachePut(o, writes[c][o].row)
        /\ IF tx[c].todo = {o}
           THEN Finish(c, Confirmed(c))
           ELSE /\ tx' = [tx EXCEPT ![c].todo = tx[c].todo \ {o}]
                /\ UNCHANGED <<pc, writes, answered>>
  BY DEF ObservedUpdate, UpdateCache
<1>2. pc[c] = "cache" /\ UNCHANGED <<now, orders, lock>> /\ o \in Orders
  BY <1>1 DEF ObservedUpdate, UpdateCache, tables, TypeOK, TypesOK, TxType
<1>3. PICK p \in tx[c].todo : p \notin tx'[c].todo /\ Caches(c, p)
  BY DEF ObservedUpdate
<1>4. p = o
  BY <1>1, <1>2, <1>3 DEF TypeOK, TypesOK, TxType
<1>5. writes[c][o].row \in {None, orders[o]} \/ o \in overtaken[c]
  BY <1>1, <1>2 DEF Races, Knows
<1>6. \A d \in Clients \ {c} : pc'[d] = pc[d] /\ tx'[d] = tx[d] /\ writes'[d] = writes[d]
  BY <1>1, <1>2 DEF Finish, TypeOK, TypesOK
<1>7. OthersStay(c)
  BY <1>2, <1>6, StayMoves DEF OthersStay, ObservedUpdate, Races
<1>8. CASE Finish(c, Confirmed(c)) /\ tx[c].todo = {o}
  <2>1. pc'[c] = "idle"
    BY <1>8 DEF Finish, TypeOK, TypesOK
  <2>2. ASSUME NEW q \in Orders \ {o}, Behind(q) PROVE Behind(q)'
    BY <1>6, <1>8, <2>2 DEF Behind
  <2>3. Fresh'
    BY <1>1, <1>2, <1>3, <1>4, <1>5, <2>2, FreshCaches
  <2> QED
    BY <1>2, <1>7, <2>1, <2>3, KnowsNothing, RacesQuiet
<1>9. CASE tx' = [tx EXCEPT ![c].todo = tx[c].todo \ {o}] /\ UNCHANGED <<pc, writes>>
  <2>1. tx'[c].todo = tx[c].todo \ {o} /\ pc'[c] = "cache"
    BY <1>2, <1>9 DEF TypeOK, TypesOK, TxType
  <2>2. ASSUME NEW q \in Orders \ {o}, Behind(q) PROVE Behind(q)'
    BY <1>2, <1>6, <2>1, <2>2 DEF Behind
  <2>3. Fresh'
    BY <1>1, <1>2, <1>3, <1>4, <1>5, <2>2, FreshCaches
  <2>4. overtaken'[c] = overtaken[c]
    BY <2>1, StayMoves DEF ObservedUpdate, Races
  <2>5. Knows(c)'
    BY <1>2, <1>9, <2>1, <2>4 DEF Races, Knows, ChangesNothing
  <2> QED
    BY <1>2, <1>7, <2>3, <2>5, RacesQuiet
<1> QED
  BY <1>1, <1>8, <1>9

\* LoadInitialData reads the table.
LEMMA RacesRestart ==
  ASSUME TypeOK, RacesTypeOK', Restart, stale' = {}
  PROVE  Races'
<1>1. Fresh'
  BY DEF Restart, tables, Fresh, Current
<1>2. \A c \in Clients : Knows(c)'
  BY KnowsNothing DEF Restart
<1> QED
  BY <1>1, <1>2 DEF Races

\* Time passes: what may be taken may still be taken.
LEMMA RacesPass ==
  ASSUME TypeOK, Races, RacesTypeOK', now' \in Nat, now <= now',
         UNCHANGED <<orders, cache, lock, pc, tx, writes, raceVars>>
  PROVE  Races'
<1>1. Fresh'
  BY DEF Races, Fresh, Current, Behind, raceVars
<1>2. ASSUME NEW o, o \in Orders, Takeable(o) PROVE Takeable(o)'
  <2>1. orders[o] \in Row /\ now \in Nat
    BY <1>2 DEF Takeable, TypeOK, TypesOK
  <2>2. orders[o].until \in Nat
    BY <2>1 DEF Row
  <2> QED
    BY <1>2, <2>1, <2>2 DEF Takeable, Returnable
<1>3. ASSUME NEW c \in Clients PROVE Knows(c)'
  <2>1. Knows(c)
    BY DEF Races
  <2>2. pc[c] = "lock" => Target(c) \in Orders
    BY TargetType
  <2> QED
    BY <1>2, <2>1, <2>2
       DEF Knows, ChangesNothing, Touched, Target, Req, Hits, Takeable, raceVars
<1> QED
  BY <1>1, <1>3 DEF Races

LEMMA StepRaces ==
  TypeOK /\ PendingIsCurrent /\ Staged /\ Races /\ [RacesNext]_<<vars, raceVars>> => Races'
<1> SUFFICES ASSUME TypeOK, PendingIsCurrent, Staged, Races, [RacesNext]_<<vars, raceVars>>
             PROVE  Races'
  OBVIOUS
<1>1. RacesTypeOK'
  BY RacesTyped DEF Races
<1>2. ASSUME NEW c \in Clients, ObservedRead(c) PROVE Races'
  BY <1>1, <1>2, RacesCacheHit, RacesCacheMiss, RacesGetByID, RacesFillCache DEF ObservedRead
<1>3. ASSUME NEW c \in Clients, Abort(c), pc[c] # "cache", Moves(c), UNCHANGED stale
      PROVE  Races'
  BY <1>1, <1>3, RacesEnd DEF Abort, tables
<1>4. ASSUME NEW c \in Clients, ObservedCommit(c) PROVE Races'
  <2>1. CASE CommitFails(c) /\ Moves(c) /\ UNCHANGED stale
    BY <1>1, <2>1, RacesEnd DEF CommitFails, tables
  <2> QED
    BY <1>1, <1>4, <2>1, RacesCommit, RacesAckLost DEF ObservedCommit
<1>5. ASSUME NEW c \in Clients, Unobserved(c), Moves(c), UNCHANGED <<stale, unkept>>
      PROVE  Races'
  <2>1. CASE Refuse(c) \/ StatementFails(c) \/ DeadlockAbort(c)
    <3>1. Abort(c)
      BY <2>1 DEF Refuse, StatementFails, DeadlockAbort
    <3>2. pc[c] # "cache"
      BY <2>1 DEF Refuse, StatementFails, DeadlockAbort, WaitsFor
    <3> QED
      BY <1>3, <1>5, <3>1, <3>2
  <2> QED
    BY <1>1, <1>5, <2>1, RacesStart, RacesInsert, RacesChangeStatus, RacesDelete, RacesReturn,
       RacesBulkItem, RacesRecord DEF Unobserved
<1>6. CASE ObservedRestart
  BY <1>1, <1>6, RacesRestart DEF ObservedRestart
<1>7. CASE ((Tick \/ Done) /\ UNCHANGED raceVars) \/ UNCHANGED <<vars, raceVars>>
  <2>1. now \in Nat
    BY DEF TypeOK, TypesOK
  <2>2. now' \in Nat /\ now <= now' /\ UNCHANGED <<orders, cache, lock, pc, tx, writes, raceVars>>
    BY <1>7, <2>1 DEF Tick, Done, vars, tables
  <2> QED
    BY <1>1, <2>2, RacesPass
<1> QED
  BY <1>1, <1>2, <1>4, <1>5, <1>6, <1>7, RacesUpdateCache DEF RacesNext

LEMMA RacesBegin == RacesInit => Races /\ PendingIsCurrent /\ TypeOK /\ Staged
<1> SUFFICES ASSUME RacesInit PROVE Races /\ PendingIsCurrent
  BY InitType, InitStaged DEF RacesInit
<1> USE DEF RacesInit
<1>1. RacesTypeOK
  BY DEF RacesTypeOK
<1>2. Fresh
  BY DEF Init, Fresh, Current
<1>3. \A c \in Clients : Knows(c)
  BY DEF Init, Knows, ChangesNothing
<1>4. PendingIsCurrent
  BY DEF Init, PendingIsCurrent, Hits, NoWrites
<1> QED
  BY <1>1, <1>2, <1>3, <1>4 DEF Races

LEMMA RacesHold == RacesSpec => [](TypeOK /\ PendingIsCurrent /\ Staged /\ Races)
BY RacesBegin, RacesStep, StepType, StepPending, StepStaged, StepRaces, PTL DEF RacesSpec

\* The observed system is the system: whatever holds of every run of OrderStore
\* holds of what is observed here.
THEOREM ObservedRunsAreRuns == RacesSpec => Spec
<1>1. RacesInit => Init
  BY DEF RacesInit
<1> QED
  BY <1>1, RacesStep, PTL DEF RacesSpec, Spec

\* For any number of clients and under every fault, a row in the cache that is not the
\* committed one is owed to a request that has yet to write the cache, to one that was
\* overtaken before it wrote it, or to a lost acknowledgement.
THEOREM CacheErrsByRace == RacesSpec => []CacheErrsOnlyByRace
<1>1. Races => CacheErrsOnlyByRace
  BY DEF Races, Fresh, Current, Behind, CacheErrsOnlyByRace
<1> QED
  BY <1>1, RacesHold, PTL

\* A commit removes a row only for a DELETE, and its client holds the row lock.
LEMMA CourierStep ==
  TypeOK /\ PendingIsCurrent /\ Staged /\ Races /\ [Next]_vars =>
    \A o \in Orders : orders[o] # None /\ orders'[o] = None =>
       \/ orders[o].status = "received" /\ orders[o].until <= now
       \/ \E c \in Clients : lock[o] = c /\ o \in overtaken[c]
<1> SUFFICES ASSUME TypeOK, PendingIsCurrent, Staged, Races, [Next]_vars,
                    NEW o \in Orders, orders[o] # None, orders'[o] = None
             PROVE  \/ orders[o].status = "received" /\ orders[o].until <= now
                    \/ \E c \in Clients : lock[o] = c /\ o \in overtaken[c]
  OBVIOUS
<1>1. PICK c \in Clients : pc[c] = "commit" /\ Apply(c)
  <2>1. ASSUME NEW d \in Clients, Start(d) \/ DeadlockAbort(d) PROVE UNCHANGED orders
    BY <2>1 DEF Start, DeadlockAbort, Abort, tables
  <2>2. ASSUME NEW d \in Clients, Proceed(d), ~Commit(d) PROVE UNCHANGED orders
    BY <2>2 DEF Proceed, CacheHit, CacheMiss, GetByID, FillCache, InsertOrder, ChangeStatus,
       DeleteRow, ReturnOrder, Refuse, BulkItem, Record, UpdateCache, Abort, tables
  <2>3. ASSUME NEW d \in Clients, Fail(d), ~CommitAckLost(d) PROVE UNCHANGED orders
    BY <2>3 DEF Fail, StatementFails, CommitFails, Abort, tables
  <2>4. ASSUME Restart \/ Tick \/ Done \/ UNCHANGED vars PROVE UNCHANGED orders
    BY <2>4 DEF Restart, Tick, Done, vars, tables
  <2>5. \E d \in Clients : Commit(d) \/ CommitAckLost(d)
    <3>1. orders' # orders
      OBVIOUS
    <3>2. PICK d \in Clients : Start(d) \/ Proceed(d) \/ Fail(d) \/ DeadlockAbort(d)
      BY <2>4, <3>1 DEF Next
    <3>3. Commit(d) \/ CommitAckLost(d)
      BY <2>1, <2>2, <2>3, <3>1, <3>2
    <3> QED
      BY <3>3
  <2> QED
    BY <2>5 DEF Commit, CommitAckLost
<1>2. Hits(c, o) /\ writes[c][o].row = None
  BY <1>1 DEF Apply
<1>3. Req(c).op = "delete"
  <2>1. PICK e : e = writes[c][o]
    OBVIOUS
  <2>2. Made(e, Req(c), tx[c].at) /\ e.row = None
    BY <1>1, <1>2, <2>1, AtCommit DEF Hits
  <2> QED
    BY <2>2, Zenon DEF Made
<1>4. Takeable(o) \/ o \in overtaken[c]
  BY <1>1, <1>2, <1>3 DEF Races, Knows
<1>5. lock[o] = c
  BY <1>1, <1>2 DEF PendingIsCurrent
<1> QED
  BY <1>4, <1>5 DEF Takeable, Returnable

\* For any number of clients and under every fault, an order that may not be taken goes
\* to the courier only if the handler was overtaken, or had read the cache when it erred.
THEOREM CourierErrsByRace == RacesSpec => CourierErrsOnlyByRace
<1>1. TypeOK /\ PendingIsCurrent /\ Staged /\ Races /\ [RacesNext]_<<vars, raceVars>> =>
        [\A o \in Orders : orders[o] # None /\ orders'[o] = None =>
           \/ orders[o].status = "received" /\ orders[o].until <= now
           \/ \E c \in Clients : lock[o] = c /\ o \in overtaken[c]]_<<vars, raceVars>>
  BY RacesStep, CourierStep
<1> QED
  BY <1>1, RacesHold, PTL DEF RacesSpec, CourierErrsOnlyByRace

-----------------------------------------------------------------------------
(***************************************************************************)
(* Answers.  A request that has committed changes and not yet answered has *)
(* its tasks in the log and its answer to come.                            *)
(***************************************************************************)

\* The clients that will yet report a change to o.
Owing(o) == {c \in Clients : pc[c] = "cache" /\ Req(c).op # "update" /\ writes[c][o] # None}

\* What answers about o may be put down to: a task, or a commit that failed.
Backing(o) == Cardinality(Reported(audit[o])) + unkept[o]

Booked == \A o \in Orders : answered[o] + Cardinality(Owing(o)) <= Backing(o)

LEMMA OwingCounts ==
  ASSUME NEW o \in Orders
  PROVE  IsFiniteSet(Owing(o)) /\ Cardinality(Owing(o)) \in Nat
<1>1. Owing(o) \in SUBSET Clients
  BY DEF Owing
<1> QED
  BY <1>1, ClientsFinite, FS_Subset, FS_CardinalityType

LEMMA ReportedCounts ==
  ASSUME NEW log \in Seq(AuditEntry)
  PROVE  Reported(log) \subseteq 1..Len(log) /\ IsFiniteSet(Reported(log))
         /\ Cardinality(Reported(log)) \in Nat
<1>1. Reported(log) \in SUBSET (1..Len(log)) /\ Len(log) \in Nat
  BY DEF Reported
<1>2. IsFiniteSet(1..Len(log))
  BY <1>1, FS_Interval
<1> QED
  BY <1>1, <1>2, FS_Subset, FS_CardinalityType

LEMMA BackingCounts ==
  ASSUME TypeOK, RacesTypeOK, NEW o \in Orders
  PROVE  Backing(o) \in Nat /\ Cardinality(Reported(audit[o])) \in Nat /\ unkept[o] \in Nat
<1>1. audit[o] \in Seq(AuditEntry) /\ unkept[o] \in Nat
  BY DEF TypeOK, TypesOK, RacesTypeOK
<1>2. Cardinality(Reported(audit[o])) \in Nat
  BY <1>1, ReportedCounts
<1> QED
  BY <1>1, <1>2 DEF Backing

LEMMA ReportedGrows ==
  ASSUME NEW log \in Seq(AuditEntry), NEW a \in AuditEntry
  PROVE  Cardinality(Reported(Append(log, a))) =
           IF a.action # "STATUS_UPDATED" THEN Cardinality(Reported(log)) + 1
           ELSE Cardinality(Reported(log))
<1>1. PICK long : long = Append(log, a)
  OBVIOUS
<1>2. /\ long[Len(log) + 1] = a /\ Len(log) \in Nat
      /\ \A j \in 1..Len(log) : long[j] = log[j]
      /\ DOMAIN long = 1..(Len(log) + 1) /\ DOMAIN log = 1..Len(log)
  BY <1>1, AppendedTask
<1>3. Reported(long) = IF a.action # "STATUS_UPDATED" THEN Reported(log) \union {Len(log) + 1}
                       ELSE Reported(log)
  BY <1>2 DEF Reported
<1>4. IsFiniteSet(Reported(log)) /\ Len(log) + 1 \notin Reported(log)
  BY <1>2, ReportedCounts
<1>5. Cardinality(Reported(log) \union {Len(log) + 1}) = Cardinality(Reported(log)) + 1
  BY <1>4, FS_AddElement
<1> QED
  BY <1>1, <1>3, <1>5

\* A commit adds the tasks that its transaction reports.
LEMMA AppliedReports ==
  ASSUME TypeOK, TypeOK', PendingIsCurrent, Staged, NEW c \in Clients, pc[c] = "commit", Apply(c),
         NEW o \in Orders
  PROVE  Cardinality(Reported(audit'[o])) =
           IF writes[c][o] # None /\ Req(c).op # "update" THEN Cardinality(Reported(audit[o])) + 1
           ELSE Cardinality(Reported(audit[o]))
<1>1. audit[o] \in Seq(AuditEntry) /\ audit'[o] \in Seq(AuditEntry)
  BY DEF TypeOK, TypesOK
<1>2. CASE writes[c][o] = None
  BY <1>2, ApplyUntouched
<1>3. CASE writes[c][o] # None
  <2>1. PICK e : e = writes[c][o]
    OBVIOUS
  <2>2. Made(e, Req(c), tx[c].at)
    BY <1>3, <2>1, AtCommit
  <2>3. e.action # "STATUS_UPDATED" <=> Req(c).op # "update"
    BY <2>2 DEF Made
  <2>4. PICK a : a = AuditOf(e)
    OBVIOUS
  <2>5. audit'[o] = Append(audit[o], a)
    BY <1>3, <2>1, <2>4 DEF Apply, Audits
  <2>6. a \in AuditEntry
    BY <1>1, <2>5, AppendedType, Zenon
  <2>7. a.action = e.action
    BY <2>4 DEF AuditOf
  <2> QED
    BY <1>1, <1>3, <2>1, <2>3, <2>5, <2>6, <2>7, ReportedGrows
<1> QED
  BY <1>2, <1>3

\* The same of what backs the answers, while no commit fails.
LEMMA AppliedBacks ==
  ASSUME TypeOK, TypeOK', RacesTypeOK, PendingIsCurrent, Staged, NEW c \in Clients,
         pc[c] = "commit", Apply(c), UNCHANGED unkept, NEW o \in Orders
  PROVE  Backing(o)' =
           IF writes[c][o] # None /\ Req(c).op # "update" THEN Backing(o) + 1 ELSE Backing(o)
<1>1. Cardinality(Reported(audit[o])) \in Nat /\ unkept[o] \in Nat
  BY BackingCounts
<1> QED
  BY <1>1, AppliedReports DEF Backing

\* A step that reports nothing and makes nobody owe more.
LEMMA BookedFrame ==
  ASSUME TypeOK, RacesTypeOK, Booked, UNCHANGED <<audit, answered, unkept>>,
         \A o \in Orders : Owing(o)' \subseteq Owing(o)
  PROVE  Booked'
<1> SUFFICES ASSUME NEW o \in Orders
             PROVE  answered'[o] + Cardinality(Owing(o)') <= Backing(o)'
  BY DEF Booked
<1>1. answered[o] \in Nat /\ Backing(o) \in Nat /\ Backing(o)' = Backing(o)
  BY BackingCounts DEF TypeOK, TypesOK, Backing
<1>2. IsFiniteSet(Owing(o)) /\ Cardinality(Owing(o)) \in Nat
  BY OwingCounts
<1>3. Owing(o)' \in SUBSET Owing(o)
  OBVIOUS
<1>4. Cardinality(Owing(o)') <= Cardinality(Owing(o)) /\ Cardinality(Owing(o)') \in Nat
  BY <1>2, <1>3, FS_Subset, FS_CardinalityType
<1>5. answered[o] + Cardinality(Owing(o)) <= Backing(o)
  BY DEF Booked
<1> QED
  BY <1>1, <1>2, <1>4, <1>5

\* A step of c that does not bring it to its answer.
LEMMA BookedQuiet ==
  ASSUME TypeOK, RacesTypeOK, Booked, UNCHANGED <<audit, answered, unkept>>, NEW c \in Clients,
         \A d \in Clients \ {c} : pc'[d] = pc[d] /\ tx'[d] = tx[d] /\ writes'[d] = writes[d],
         \/ pc'[c] # "cache"
         \/ pc'[c] = pc[c] /\ tx'[c].req = tx[c].req /\ writes'[c] = writes[c]
  PROVE  Booked'
<1>1. ASSUME NEW o \in Orders PROVE Owing(o)' \subseteq Owing(o)
  BY DEF Owing, Req
<1> QED
  BY <1>1, BookedFrame

\* The end of a request that reports nothing.
LEMMA BookedAbort ==
  ASSUME TypeOK, RacesTypeOK, Booked, UNCHANGED <<audit, unkept>>, NEW c \in Clients,
         Finish(c, {})
  PROVE  Booked'
<1>1. answered' = answered
  BY DEF Finish, TypeOK, TypesOK
<1>2. /\ \A d \in Clients \ {c} : pc'[d] = pc[d] /\ tx'[d] = tx[d] /\ writes'[d] = writes[d]
      /\ pc'[c] = "idle"
  BY DEF Finish, TypeOK, TypesOK
<1> QED
  BY <1>1, <1>2, BookedQuiet

\* What Booked needs of one order at the end of a step: an answer has backing, and
\* what is answered is owed no more.
LEMMA BookedSum ==
  ASSUME TypeOK, TypeOK', RacesTypeOK, Booked, NEW o \in Orders, NEW c \in Clients,
         \/ /\ Backing(o)' = Backing(o) + 1
            /\ answered'[o] = answered[o] /\ Owing(o)' \subseteq Owing(o) \union {c}
         \/ /\ Backing(o)' = Backing(o) + 1
            /\ answered'[o] <= answered[o] + 1 /\ Owing(o)' \subseteq Owing(o)
         \/ /\ Backing(o)' = Backing(o)
            /\ answered'[o] = answered[o] /\ Owing(o)' \subseteq Owing(o)
         \/ /\ Backing(o)' = Backing(o)
            /\ answered'[o] = answered[o] + 1
            /\ c \in Owing(o) /\ Owing(o)' \subseteq Owing(o) \ {c}
  PROVE  answered'[o] + Cardinality(Owing(o)') <= Backing(o)'
<1>1. PICK had, has : had = Owing(o) /\ has = Owing(o)'
  OBVIOUS
<1>2. answered[o] \in Nat /\ answered'[o] \in Nat
  BY DEF TypeOK, TypesOK
<1>3. Backing(o) \in Nat /\ answered[o] + Cardinality(had) <= Backing(o)
  BY <1>1, BackingCounts DEF Booked
<1>4. IsFiniteSet(had) /\ Cardinality(had) \in Nat
  BY <1>1, OwingCounts
<1>5. /\ IsFiniteSet(had \union {c}) /\ Cardinality(had \union {c}) <= Cardinality(had) + 1
      /\ Cardinality(had \union {c}) \in Nat
  <2>1. IsFiniteSet(had \union {c}) /\ Cardinality(had \union {c}) =
          IF c \in had THEN Cardinality(had) ELSE Cardinality(had) + 1
    BY <1>4, FS_AddElement
  <2> QED
    BY <1>4, <2>1
<1>6. /\ IsFiniteSet(had \ {c}) /\ Cardinality(had \ {c}) \in Nat
      /\ c \in had => Cardinality(had \ {c}) = Cardinality(had) - 1
  BY <1>4, FS_RemoveElement, FS_CardinalityType
<1>7. \A S : has \subseteq S /\ IsFiniteSet(S) =>
              Cardinality(has) <= Cardinality(S) /\ Cardinality(has) \in Nat
  BY FS_Subset, FS_CardinalityType
<1>8. CASE /\ Backing(o)' = Backing(o) + 1
           /\ answered'[o] = answered[o] /\ Owing(o)' \subseteq Owing(o) \union {c}
  <2>1. Cardinality(has) <= Cardinality(had) + 1 /\ Cardinality(has) \in Nat
    BY <1>1, <1>4, <1>5, <1>7, <1>8
  <2> QED
    BY <1>1, <1>2, <1>3, <1>4, <1>8, <2>1
<1>9. CASE /\ Backing(o)' = Backing(o) + 1
           /\ answered'[o] <= answered[o] + 1 /\ Owing(o)' \subseteq Owing(o)
  <2>1. Cardinality(has) <= Cardinality(had) /\ Cardinality(has) \in Nat
    BY <1>1, <1>4, <1>7, <1>9
  <2> QED
    BY <1>1, <1>2, <1>3, <1>4, <1>9, <2>1
<1>10. CASE /\ Backing(o)' = Backing(o)
            /\ answered'[o] = answered[o] /\ Owing(o)' \subseteq Owing(o)
  <2>1. Cardinality(has) <= Cardinality(had) /\ Cardinality(has) \in Nat
    BY <1>1, <1>4, <1>7, <1>10
  <2> QED
    BY <1>1, <1>2, <1>3, <1>4, <1>10, <2>1
<1>11. CASE /\ Backing(o)' = Backing(o)
            /\ answered'[o] = answered[o] + 1
            /\ c \in Owing(o) /\ Owing(o)' \subseteq Owing(o) \ {c}
  <2>1. Cardinality(has) <= Cardinality(had) - 1 /\ Cardinality(has) \in Nat
    BY <1>1, <1>4, <1>6, <1>7, <1>11
  <2> QED
    BY <1>1, <1>2, <1>3, <1>4, <1>11, <2>1
<1> QED
  BY <1>8, <1>9, <1>10, <1>11

LEMMA BookedCommit ==
  ASSUME TypeOK, TypeOK', RacesTypeOK, PendingIsCurrent, Staged, Booked, NEW c \in Clients,
         Commit(c), UNCHANGED unkept
  PROVE  Booked'
<1> SUFFICES ASSUME NEW o \in Orders
             PROVE  answered'[o] + Cardinality(Owing(o)') <= Backing(o)'
  BY DEF Booked
<1>1. pc[c] = "commit" /\ Apply(c) /\ AfterCommit(c)
  BY DEF Commit
<1>2. \A d \in Clients \ {c} : pc'[d] = pc[d] /\ tx'[d] = tx[d] /\ writes'[d] = writes[d]
  BY <1>1 DEF AfterCommit, Goto, Finish, TypeOK, TypesOK
<1>3. answered'[o] = answered[o]
  BY <1>1 DEF AfterCommit, Finish
<1>4. Owing(o)' \subseteq Owing(o) \union {c}
  BY <1>2 DEF Owing, Req
<1>5. CASE writes[c][o] # None /\ Req(c).op # "update"
  BY <1>1, <1>3, <1>4, <1>5, AppliedBacks, BookedSum
<1>6. CASE ~(writes[c][o] # None /\ Req(c).op # "update")
  <2>1. Backing(o)' = Backing(o)
    BY <1>1, <1>6, AppliedBacks
  <2>2. c \notin Owing(o)'
    <3>1. \/ pc'[c] # "cache"
          \/ writes' = writes /\ tx'[c].req = tx[c].req
      <4>1. \/ Goto(c, "set")
            \/ Finish(c, {})
            \/ tx' = [tx EXCEPT ![c].todo = Touched(c)] /\ UNCHANGED writes
        BY <1>1, Zenon DEF AfterCommit
      <4>2. pc \in [Clients -> PCs] /\ tx \in [Clients -> TxType] /\ tx[c] \in TxType
        BY DEF TypeOK, TypesOK
      <4>3. CASE Goto(c, "set") \/ Finish(c, {})
        BY <4>2, <4>3 DEF Goto, Finish
      <4>4. CASE tx' = [tx EXCEPT ![c].todo = Touched(c)] /\ UNCHANGED writes
        BY <4>2, <4>4 DEF TxType
      <4> QED
        BY <4>1, <4>3, <4>4
    <3> QED
      BY <1>6, <3>1 DEF Owing, Req
  <2> QED
    BY <1>3, <1>4, <2>1, <2>2, BookedSum
<1> QED
  BY <1>5, <1>6

LEMMA BookedAckLost ==
  ASSUME TypeOK, TypeOK', RacesTypeOK, PendingIsCurrent, Staged, Booked, NEW c \in Clients,
         CommitAckLost(c), UNCHANGED unkept
  PROVE  Booked'
<1> SUFFICES ASSUME NEW o \in Orders
             PROVE  answered'[o] + Cardinality(Owing(o)') <= Backing(o)'
  BY DEF Booked
<1>1. pc[c] = "commit" /\ Apply(c) /\ Finish(c, CommitErrorAnswer(c))
  BY DEF CommitAckLost
<1>2. /\ \A d \in Clients \ {c} : pc'[d] = pc[d] /\ tx'[d] = tx[d] /\ writes'[d] = writes[d]
      /\ pc'[c] = "idle"
  BY <1>1 DEF Finish, TypeOK, TypesOK
<1>3. Owing(o)' \subseteq Owing(o)
  BY <1>2 DEF Owing, Req
<1>4. answered[o] \in Nat
  BY DEF TypeOK, TypesOK
<1>5. CASE writes[c][o] # None /\ Req(c).op # "update"
  <2>1. answered'[o] <= answered[o] + 1
    BY <1>1, <1>4 DEF Finish
  <2> QED
    BY <1>1, <1>3, <1>5, <2>1, AppliedBacks, BookedSum
<1>6. CASE ~(writes[c][o] # None /\ Req(c).op # "update")
  <2>1. o \notin CommitErrorAnswer(c)
    BY <1>6 DEF CommitErrorAnswer, Confirmed, Touched
  <2>2. answered'[o] = answered[o]
    BY <1>1, <2>1 DEF Finish
  <2> QED
    BY <1>1, <1>3, <1>6, <2>2, AppliedBacks, BookedSum
<1> QED
  BY <1>5, <1>6

\* The last write of a committed request to the cache is followed by its answer.
LEMMA BookedUpdateCache ==
  ASSUME TypeOK, TypeOK', RacesTypeOK, Booked, NEW c \in Clients, UpdateCache(c),
         UNCHANGED unkept
  PROVE  Booked'
<1>1. pc[c] = "cache" /\ UNCHANGED audit
  BY DEF UpdateCache, tables
<1>2. PICK p \in tx[c].todo :
        IF tx[c].todo = {p} THEN Finish(c, Confirmed(c))
        ELSE tx' = [tx EXCEPT ![c].todo = @ \ {p}] /\ UNCHANGED <<pc, writes, answered>>
  BY DEF UpdateCache
<1>3. CASE tx[c].todo # {p}
  <2>1. tx'[c].req = tx[c].req /\ \A d \in Clients \ {c} : tx'[d] = tx[d]
    <3>1. tx' = [tx EXCEPT ![c].todo = @ \ {p}]
      BY <1>2, <1>3
    <3>2. tx \in [Clients -> TxType] /\ tx[c] \in TxType
      BY DEF TypeOK, TypesOK
    <3> QED
      BY <3>1, <3>2 DEF TxType
  <2> QED
    BY <1>1, <1>2, <1>3, <2>1, BookedQuiet
<1>4. CASE tx[c].todo = {p}
  <2> SUFFICES ASSUME NEW o \in Orders
               PROVE  answered'[o] + Cardinality(Owing(o)') <= Backing(o)'
    BY DEF Booked
  <2>1. Finish(c, Confirmed(c))
    BY <1>2, <1>4
  <2>2. /\ \A d \in Clients \ {c} : pc'[d] = pc[d] /\ tx'[d] = tx[d] /\ writes'[d] = writes[d]
        /\ pc'[c] = "idle"
    BY <2>1 DEF Finish, TypeOK, TypesOK
  <2>3. Owing(o)' \subseteq Owing(o) \ {c}
    BY <2>2 DEF Owing, Req
  <2>4. Backing(o)' = Backing(o)
    BY <1>1 DEF Backing
  <2>5. CASE writes[c][o] # None /\ Req(c).op # "update"
    <3>1. answered'[o] = answered[o] + 1
      BY <2>1, <2>5 DEF Finish, Confirmed, Touched
    <3>2. c \in Owing(o)
      BY <1>1, <2>5 DEF Owing
    <3> QED
      BY <2>3, <2>4, <3>1, <3>2, BookedSum
  <2>6. CASE ~(writes[c][o] # None /\ Req(c).op # "update")
    <3>1. answered'[o] = answered[o]
      BY <2>1, <2>6 DEF Finish, Confirmed, Touched
    <3> QED
      BY <2>3, <2>4, <3>1, BookedSum
  <2> QED
    BY <2>5, <2>6
<1> QED
  BY <1>3, <1>4

\* A commit that failed backs the answer that a single operation gives after it.
LEMMA BookedCommitFails ==
  ASSUME TypeOK, TypeOK', RacesTypeOK, Booked, NEW c \in Clients, CommitFails(c),
         unkept' = [o \in Orders |->
           IF o \in Touched(c) /\ Req(c).op \notin BulkOps THEN unkept[o] + 1 ELSE unkept[o]]
  PROVE  Booked'
<1> SUFFICES ASSUME NEW o \in Orders
             PROVE  answered'[o] + Cardinality(Owing(o)') <= Backing(o)'
  BY DEF Booked
<1>1. Finish(c, CommitErrorAnswer(c)) /\ UNCHANGED audit
  BY DEF CommitFails, tables
<1>2. /\ \A d \in Clients \ {c} : pc'[d] = pc[d] /\ tx'[d] = tx[d] /\ writes'[d] = writes[d]
      /\ pc'[c] = "idle"
  BY <1>1 DEF Finish, TypeOK, TypesOK
<1>3. Owing(o)' \subseteq Owing(o)
  BY <1>2 DEF Owing, Req
<1>4. /\ answered[o] \in Nat /\ Cardinality(Reported(audit[o])) \in Nat /\ unkept[o] \in Nat
  BY BackingCounts DEF TypeOK, TypesOK
<1>5. CASE o \in Touched(c) /\ Req(c).op \notin BulkOps
  <2>1. answered'[o] <= answered[o] + 1
    BY <1>1, <1>4 DEF Finish
  <2>2. Backing(o)' = Backing(o) + 1
    BY <1>1, <1>4, <1>5 DEF Backing
  <2> QED
    BY <1>3, <2>1, <2>2, BookedSum
<1>6. CASE ~(o \in Touched(c) /\ Req(c).op \notin BulkOps)
  <2>1. o \notin CommitErrorAnswer(c)
    BY <1>6 DEF CommitErrorAnswer, Confirmed
  <2>2. answered'[o] = answered[o]
    BY <1>1, <2>1 DEF Finish
  <2>3. Backing(o)' = Backing(o)
    BY <1>1, <1>6 DEF Backing
  <2> QED
    BY <1>3, <2>2, <2>3, BookedSum
<1> QED
  BY <1>5, <1>6

LEMMA BookedUse ==
  ASSUME TypeOK, RacesTypeOK, Booked, NEW c \in Clients, UNCHANGED <<audit, unkept>>,
         NEW row, UseOrder(c, row)
  PROVE  Booked'
<1>1. CASE Finish(c, {})
  BY <1>1, BookedAbort
<1>2. CASE ~Finish(c, {})
  <2>1. /\ pc' = [pc EXCEPT ![c] = "lock"] /\ tx' = [tx EXCEPT ![c].seen = None]
        /\ UNCHANGED <<writes, answered>>
    BY <1>2 DEF UseOrder
  <2>2. pc'[c] # "cache"
        /\ \A d \in Clients \ {c} : pc'[d] = pc[d] /\ tx'[d] = tx[d] /\ writes'[d] = writes[d]
    BY <2>1 DEF TypeOK, TypesOK
  <2> QED
    BY <2>1, <2>2, BookedQuiet
<1> QED
  BY <1>1, <1>2

LEMMA BookedRead ==
  ASSUME TypeOK, RacesTypeOK, Booked, NEW c \in Clients, ObservedRead(c)
  PROVE  Booked'
<1>1. UNCHANGED <<audit, unkept>>
  BY DEF ObservedRead, CacheHit, CacheMiss, GetByID, FillCache, tables
<1>2. CASE CacheHit(c) \/ FillCache(c)
  BY <1>1, <1>2, BookedUse DEF CacheHit, FillCache
<1>3. CASE (CacheMiss(c) \/ GetByID(c)) /\ Finish(c, {})
  BY <1>1, <1>3, BookedAbort
<1>4. CASE (CacheMiss(c) \/ GetByID(c)) /\ ~Finish(c, {})
  <2>1. /\ pc' = [pc EXCEPT ![c] = "fill"] \/ pc' = [pc EXCEPT ![c] = "set"]
        /\ tx' = tx \/ tx' = [tx EXCEPT ![c].seen = orders[Target(c)]]
        /\ UNCHANGED <<writes, answered>>
    BY <1>4 DEF CacheMiss, GetByID
  <2>2. pc'[c] # "cache"
        /\ \A d \in Clients \ {c} : pc'[d] = pc[d] /\ tx'[d] = tx[d] /\ writes'[d] = writes[d]
    BY <2>1 DEF TypeOK, TypesOK
  <2> QED
    BY <1>1, <2>1, <2>2, BookedQuiet
<1> QED
  BY <1>2, <1>3, <1>4 DEF ObservedRead

LEMMA BookedUnobserved ==
  ASSUME TypeOK, RacesTypeOK, Booked, NEW c \in Clients, Unobserved(c), UNCHANGED unkept
  PROVE  Booked'
<1> USE DEF PCs
<1>1. /\ pc \in [Clients -> PCs] /\ tx \in [Clients -> TxType]
      /\ writes \in [Clients -> [Orders -> Effect \union {None}]]
  BY DEF TypeOK, TypesOK
<1>2. CASE Start(c)
  <2>1. PICK r \in Requests :
          /\ pc' = [pc EXCEPT ![c] = IF r.op \in {"get", "delete"} THEN "get" ELSE "lock"]
          /\ tx' = [tx EXCEPT ![c] = Begin(r)]
    BY <1>2 DEF Start
  <2>2. UNCHANGED <<audit, answered, writes>>
    BY <1>2 DEF Start, tables
  <2>3. pc'[c] # "cache"
        /\ \A d \in Clients \ {c} : pc'[d] = pc[d] /\ tx'[d] = tx[d] /\ writes'[d] = writes[d]
    BY <1>1, <2>1, <2>2
  <2> QED
    BY <2>2, <2>3, BookedQuiet
<1>3. CASE Refuse(c) \/ StatementFails(c) \/ DeadlockAbort(c)
  <2>1. Abort(c)
    BY <1>3 DEF Refuse, StatementFails, DeadlockAbort
  <2> QED
    BY <2>1, BookedAbort DEF Abort, tables
<1>4. CASE InsertOrder(c) \/ ChangeStatus(c) \/ DeleteRow(c) \/ ReturnOrder(c)
             \/ BulkItem(c) \/ Record(c)
  <2>1. UNCHANGED <<audit, answered>>
    BY <1>4 DEF InsertOrder, ChangeStatus, DeleteRow, ReturnOrder, BulkItem, Record, tables
  <2>2. pc'[c] # "cache" /\ \A d \in Clients \ {c} : pc'[d] = pc[d]
    BY <1>1, <1>4 DEF InsertOrder, ChangeStatus, DeleteRow, ReturnOrder, BulkItem, Record, Goto
  <2>3. \A d \in Clients \ {c} : tx'[d] = tx[d]
    BY <1>1, <1>4 DEF InsertOrder, ChangeStatus, DeleteRow, ReturnOrder, BulkItem, Record
  <2>4. \A d \in Clients \ {c} : writes'[d] = writes[d]
    BY <1>1, <1>4 DEF InsertOrder, ChangeStatus, DeleteRow, ReturnOrder, BulkItem, Record, Write
  <2> QED
    BY <2>1, <2>2, <2>3, <2>4, BookedQuiet
<1> QED
  BY <1>2, <1>3, <1>4 DEF Unobserved

LEMMA StepBooked ==
  TypeOK /\ RacesTypeOK /\ PendingIsCurrent /\ Staged /\ Booked
    /\ [RacesNext]_<<vars, raceVars>> => Booked'
<1> SUFFICES ASSUME TypeOK, RacesTypeOK, PendingIsCurrent, Staged, Booked,
                    [RacesNext]_<<vars, raceVars>>
             PROVE  Booked'
  OBVIOUS
<1>1. TypeOK'
  BY StepType, RacesStep
<1>2. ASSUME NEW c \in Clients, ObservedCommit(c) PROVE Booked'
  BY <1>1, <1>2, BookedCommit, BookedAckLost, BookedCommitFails DEF ObservedCommit
<1>3. ASSUME NEW c \in Clients, ObservedUpdate(c) PROVE Booked'
  BY <1>1, <1>3, BookedUpdateCache DEF ObservedUpdate
<1>4. CASE ObservedRestart
  <2>1. \A o \in Orders : Owing(o)' \subseteq Owing(o)
    BY <1>4 DEF ObservedRestart, Restart, Owing
  <2> QED
    BY <1>4, <2>1, BookedFrame DEF ObservedRestart, Restart, tables
<1>5. CASE ((Tick \/ Done) /\ UNCHANGED raceVars) \/ UNCHANGED <<vars, raceVars>>
  <2>1. UNCHANGED <<audit, answered, pc, tx, writes, unkept>>
    BY <1>5 DEF Tick, Done, vars, raceVars, tables
  <2> QED
    BY <2>1, BookedFrame DEF Owing, Req
<1> QED
  BY <1>2, <1>3, <1>4, <1>5, BookedRead, BookedUnobserved DEF RacesNext

LEMMA BookedAnswers == TypeOK /\ RacesTypeOK /\ Booked => AnswersErrOnlyByCommit
<1> SUFFICES ASSUME TypeOK, RacesTypeOK, Booked, NEW o \in Orders
             PROVE  answered[o] <= Cardinality(Reported(audit[o])) + unkept[o]
  BY DEF AnswersErrOnlyByCommit
<1>1. answered[o] \in Nat /\ Backing(o) \in Nat /\ Cardinality(Owing(o)) \in Nat
  BY BackingCounts, OwingCounts DEF TypeOK, TypesOK
<1>2. answered[o] <= Backing(o)
  BY <1>1 DEF Booked
<1> QED
  BY <1>2 DEF Backing

\* For any number of clients and under every fault, callers are told of changes that have
\* no task in the outbox at most as often as commits of single operations have failed:
\* not by bulk operations, and not when the server commits and its answer is lost,
\* several requests wait to report changes of one order, or the process dies.
THEOREM AnswersErrByCommit == RacesSpec => []AnswersErrOnlyByCommit
<1>1. RacesInit => Booked
  <2> SUFFICES ASSUME RacesInit, NEW o \in Orders
               PROVE  answered[o] + Cardinality(Owing(o)) <= Backing(o)
    BY DEF Booked
  <2>1. Owing(o) = {} /\ Reported(audit[o]) = {} /\ answered[o] = 0 /\ unkept[o] = 0
    BY DEF RacesInit, Init, Owing, Reported
  <2> QED
    BY <2>1, FS_EmptySet DEF Backing
<1>2. TypeOK /\ PendingIsCurrent /\ Staged /\ Races /\ Booked
        /\ [RacesNext]_<<vars, raceVars>> => Booked'
  BY StepBooked DEF Races
<1>3. TypeOK /\ Races /\ Booked => AnswersErrOnlyByCommit
  BY BookedAnswers DEF Races
<1> QED
  BY <1>1, <1>2, <1>3, RacesHold, PTL DEF RacesSpec
=============================================================================
