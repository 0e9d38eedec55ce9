----------------------------- MODULE OrderLedger ------------------------------
(***************************************************************************)
(* What the storage promises, without transactions, locks, caches or       *)
(* clients: a ledger of orders in which every change is one atomic, legal  *)
(* step on the rows that stand in it at that moment.  A batch is handed    *)
(* out, or taken back, in one step or not at all, and for one recipient.   *)
(* The module is a property of implementations: its steps say what the     *)
(* next state must be, not how it is found.                                *)
(***************************************************************************)
EXTENDS Naturals, Sequences

CONSTANTS Orders, Users, OtherStatuses, ReturnWindow, None

VARIABLES now, orders, history, returns, audit

vars == <<now, orders, history, returns, audit>>

Statuses == {"received", "issued", "returned"} \union OtherStatuses
Row == [recipient : Users, until : Nat, status : Statuses, updated : Nat]

Init ==
  /\ now \in Nat
  /\ orders = [o \in Orders |-> None]
  /\ history = [o \in Orders |-> <<>>]
  /\ returns = [o \in Orders |-> <<>>]
  /\ audit = [o \in Orders |-> <<>>]

\* Entries added for o in a step.
Audited(o, action, old, new) ==
  audit'[o] = Append(audit[o], [action |-> action, old |-> old, new |-> new])
Logged(o, status, t) ==
  history'[o] = Append(history[o], [status |-> status, at |-> t])

\* An order arrives, before its storage time ends.
Register(o) ==
  /\ orders[o] = None
  /\ orders'[o] \in Row
  /\ orders'[o].status = "received"
  /\ orders'[o].updated <= orders'[o].until
  /\ orders'[o].updated <= now
  /\ \E t \in orders'[o].updated..now : Logged(o, "received", t)
  /\ returns'[o] = returns[o]
  /\ Audited(o, "ORDER_CREATED", "", "received")

\* The status and the time of change of a row change, nothing else does.
Becomes(o, status, t) ==
  /\ orders[o] # None
  /\ orders[o].status # status
  /\ orders'[o] = [orders[o] EXCEPT !.status = status, !.updated = t]
  /\ Logged(o, status, t)

Restatus(o, t) ==
  /\ Becomes(o, orders'[o].status, t)
  /\ returns'[o] = returns[o]
  /\ Audited(o, "STATUS_UPDATED", orders[o].status, "")

\* The courier takes an order: its entries go with it, its audit stays.
Remove(o) ==
  /\ orders[o] # None
  /\ orders'[o] = None
  /\ history'[o] = <<>>
  /\ returns'[o] = <<>>
  /\ Audited(o, "ORDER_DELETED", "", "")

\* A removal that found nothing leaves its audit task all the same.
RemoveNothing(o) ==
  /\ UNCHANGED <<orders[o], history[o], returns[o]>>
  /\ Audited(o, "ORDER_DELETED", "", "")

HandOut(o, user, t) ==
  /\ orders[o] # None
  /\ orders[o].recipient = user
  /\ orders[o].status = "received"
  /\ t <= orders[o].until
  /\ Becomes(o, "issued", t)
  /\ returns'[o] = returns[o]
  /\ Audited(o, "ORDER_ISSUED", "received", "")

TakeBack(o, user, t, entered, action) ==
  /\ orders[o] # None
  /\ orders[o].recipient = user
  /\ orders[o].status = "issued"
  /\ t <= orders[o].updated + ReturnWindow
  /\ Becomes(o, "returned", t)
  /\ returns'[o] = Append(returns[o], [user |-> user, at |-> entered])
  /\ Audited(o, action, "issued", "")

Single(o) ==
  \/ Register(o)
  \/ Remove(o)
  \/ RemoveNothing(o)
  \/ \E t \in 0..now : Restatus(o, t)
  \/ \E t \in 0..now, user \in Users : \E entered \in t..now :
       TakeBack(o, user, t, entered, "ORDER_RETURNED")

Batch(S) ==
  \E user \in Users, t \in 0..now :
    \/ \A o \in S : HandOut(o, user, t)
    \/ \A o \in S : TakeBack(o, user, t, t, "ORDER_RETURN_ACCEPTED")

\* The orders outside S keep all their rows.
Only(S) ==
  \A o \in Orders \ S : UNCHANGED <<orders[o], history[o], returns[o], audit[o]>>

Book ==
  /\ \/ \E o \in Orders : Single(o) /\ Only({o})
     \/ \E S \in SUBSET Orders : S # {} /\ Batch(S) /\ Only(S)
  /\ UNCHANGED now

Tick == now' > now /\ UNCHANGED <<orders, history, returns, audit>>

Next == Book \/ Tick

Spec == Init /\ [][Next]_vars
=============================================================================
