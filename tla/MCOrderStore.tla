----------------------------- MODULE MCOrderStore -----------------------------
(***************************************************************************)
(* Values of the constants of OrderStore for TLC.                          *)
(***************************************************************************)
EXTENDS OrderStore, TLC

CONSTANTS o1, o2, u1, u2, c1, c2

Request(op, ids, user, until, status) ==
  [op |-> op, ids |-> ids, user |-> user, until |-> until, status |-> status]
Create(o, until) == Request("create", <<o>>, u1, until, "received")
Get(o) == Request("get", <<o>>, u1, 0, "received")
Put(o, status) == Request("update", <<o>>, u1, 0, status)
Delete(o) == Request("delete", <<o>>, u1, 0, "received")
Return(o, user) == Request("return", <<o>>, user, 0, "received")
Issue(ids, user) == Request("issue", ids, user, 0, "received")
Accept(ids, user) == Request("accept", ids, user, 0, "received")

\* Every operation on one order, a batch with an id listed twice among them; PUT takes
\* any status, even none.
RaceRequests ==
  {Create(o1, 1), Get(o1), Put(o1, "received"), Put(o1, "issued"), Put(o1, ""), Delete(o1),
   Return(o1, u1), Issue(<<o1, o1>>, u1), Accept(<<o1>>, u1)}

\* Everything that can race for one row.
ConcurrentRequests ==
  {Create(o1, 1), Put(o1, ""), Put(o1, "issued"),
   Delete(o1), Return(o1, u1), Return(o1, u2), Issue(<<o1>>, u1), Accept(<<o1>>, u1)}

\* Two orders in either order: rows locked crosswise.
BulkRequests ==
  {Create(o1, 1), Create(o2, 1), Issue(<<o1, o2>>, u1), Issue(<<o2, o1>>, u1),
   Accept(<<o2, o1>>, u1), Return(o1, u1), Delete(o1)}

Symmetry == Permutations(Clients)
=============================================================================
