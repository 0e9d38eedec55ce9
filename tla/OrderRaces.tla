------------------------------- MODULE OrderRaces -------------------------------
(***************************************************************************)
(* The requests of OrderStore, observed.  Between reading or committing a  *)
(* row and using it in the cache or in a DELETE, a request holds no lock,  *)
(* so other requests may overtake it; an answer may be lost, a commit may  *)
(* fail unnoticed.  Three history variables record where that happened.    *)
(* They take no part in what the requests do: each step is a step of       *)
(* OrderStore.  With them one can say that nothing else goes wrong with    *)
(* the cache, the courier and the answers, for any number of clients and   *)
(* under every fault.                                                      *)
(***************************************************************************)
EXTENDS OrderStore

VARIABLES
  overtaken, \* per client, orders whose committed row is not the one it goes by
  stale,     \* orders whose row in the cache was overtaken before or since
  unkept     \* per order, failed commits of operations that lose the error

raceVars == <<overtaken, stale, unkept>>

\* c goes by a row of o that it has read, or committed, and holds no lock for:
\* to put it into the cache, or to delete the order because of it.
Relies(c, o) ==
  \/ pc[c] = "set" /\ o = Target(c)
  \/ pc[c] = "lock" /\ Req(c).op = "delete" /\ o = Target(c)
  \/ pc[c] = "cache" /\ o \in tx[c].todo

-----------------------------------------------------------------------------
\* c takes a step that shows it no row, or shows it the committed one.
Moves(c) == overtaken' = [overtaken EXCEPT ![c] = IF pc'[c] = "idle" THEN {} ELSE @]

\* c takes its order from the cache.
ReadsCache(c) ==
  overtaken' = [overtaken EXCEPT ![c] =
                  IF pc'[c] = "idle" \/ cache[Target(c)] = orders[Target(c)] THEN {}
                  ELSE {Target(c)}]

\* c commits: all who go by a row that it changes are overtaken.
Overtakes(c) ==
  overtaken' = [d \in Clients |->
    IF d = c THEN {} ELSE overtaken[d] \union {o \in Orders : Hits(c, o) /\ Relies(d, o)}]

\* c writes its row of o, if any, to the cache.
Caches(c, o) ==
  stale' = IF o \in overtaken[c] /\ cache'[o] # None THEN stale \union {o} ELSE stale \ {o}

ObservedRead(c) ==
  \/ CacheHit(c) /\ ReadsCache(c) /\ UNCHANGED <<stale, unkept>>
  \/ (CacheMiss(c) \/ GetByID(c)) /\ Moves(c) /\ UNCHANGED <<stale, unkept>>
  \/ FillCache(c) /\ Moves(c) /\ Caches(c, Target(c)) /\ UNCHANGED unkept

ObservedCommit(c) ==
  \/ Commit(c) /\ Overtakes(c) /\ UNCHANGED <<stale, unkept>>
  \/ /\ CommitAckLost(c)
     /\ Overtakes(c)
     /\ stale' = stale \union {o \in Orders : Hits(c, o) /\ cache[o] # None}
     /\ UNCHANGED unkept
  \/ /\ CommitFails(c)
     /\ Moves(c)
     /\ unkept' = [o \in Orders |->
          IF o \in Touched(c) /\ Req(c).op \notin BulkOps THEN unkept[o] + 1 ELSE unkept[o]]
     /\ UNCHANGED stale

ObservedUpdate(c) ==
  /\ UpdateCache(c)
  /\ Moves(c)
  /\ \E o \in tx[c].todo : o \notin tx'[c].todo /\ Caches(c, o)
  /\ UNCHANGED unkept

Unobserved(c) ==
  \/ Start(c) \/ InsertOrder(c) \/ ChangeStatus(c) \/ DeleteRow(c) \/ ReturnOrder(c)
  \/ Refuse(c) \/ BulkItem(c) \/ Record(c) \/ StatementFails(c) \/ DeadlockAbort(c)

ObservedRestart ==
  /\ Restart
  /\ overtaken' = [c \in Clients |-> {}]
  /\ stale' = {}
  /\ UNCHANGED unkept

RacesInit ==
  /\ Init
  /\ overtaken = [c \in Clients |-> {}]
  /\ stale = {}
  /\ unkept = [o \in Orders |-> 0]

RacesNext ==
  \/ \E c \in Clients :
       \/ ObservedRead(c) \/ ObservedCommit(c) \/ ObservedUpdate(c)
       \/ Unobserved(c) /\ Moves(c) /\ UNCHANGED <<stale, unkept>>
  \/ ObservedRestart
  \/ (Tick \/ Done) /\ UNCHANGED raceVars

RacesSpec == RacesInit /\ [][RacesNext]_<<vars, raceVars>>

-----------------------------------------------------------------------------
(***************************************************************************)
(* Properties.                                                             *)
(***************************************************************************)

RacesTypeOK ==
  /\ overtaken \in [Clients -> SUBSET Orders]
  /\ stale \in SUBSET Orders
  /\ unkept \in [Orders -> Nat]

\* The cache holds a row that is not the committed one only while a request that has
\* committed is about to write the cache, or because the request that wrote it last
\* was overtaken between its read or commit and that write, or because an
\* acknowledgement was lost; the next write that is not overtaken sets it right.
CacheErrsOnlyByRace ==
  \A o \in Orders :
    \/ cache[o] \in {None, orders[o]}
    \/ o \in stale
    \/ \E c \in Clients : pc[c] = "cache" /\ o \in tx[c].todo

\* The courier takes an order that may not be taken only if the DELETE handler was
\* overtaken since it read the order, or had read an outdated row from the cache.
CourierErrsOnlyByRace ==
  [][\A o \in Orders : orders[o] # None /\ orders'[o] = None =>
       \/ orders[o].status = "received" /\ orders[o].until <= now
       \/ \E c \in Clients : lock[o] = c /\ o \in overtaken[c]]_<<vars, raceVars>>

\* Callers are told of changes that are not in the outbox at most once for each
\* failed commit of an operation on a single order, and never by a bulk operation.
AnswersErrOnlyByCommit ==
  \A o \in Orders : answered[o] <= Cardinality(Reported(audit[o])) + unkept[o]
=============================================================================
