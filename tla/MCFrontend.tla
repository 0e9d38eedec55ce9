------------------------------ MODULE MCFrontend ------------------------------
(***************************************************************************)
(* Values of the constants of Frontend for TLC.                            *)
(***************************************************************************)
EXTENDS Frontend, TLC

CONSTANTS o1, o2, u1, u2

Blank ==
  [door |-> "http", op |-> "get", known |-> TRUE, readable |-> TRUE,
   id |-> o1, user |-> u1, ids |-> <<>>, status |-> "received", until |-> 1,
   wrapper |-> "Bag", membrane |-> FALSE, weight |-> 5, price |-> 10,
   last |-> 0, active |-> FALSE, page |-> 1, limit |-> 1]
With(args) == args @@ Blank
Both(args) == {With([door |-> d] @@ args) : d \in {"http", "grpc"}}
Grpc1(args) == {With([door |-> "grpc"] @@ args)}
Http1(args) == {With(args)}

\* Between them the doors make, hand out, take back and drop two orders.
Good ==
  Http1([op |-> "create", membrane |-> TRUE, until |-> 0])
    \union Grpc1([op |-> "create", id |-> o2, wrapper |-> "Box", membrane |-> TRUE, weight |-> NaN])
    \union Grpc1([op |-> "issue", ids |-> <<o1, o2>>])
    \union Http1([op |-> "issue", ids |-> <<o1, o1>>])
    \union Grpc1([op |-> "accept", ids |-> <<o2, o1>>])
    \union Http1([op |-> "accept", ids |-> <<o1>>])
    \union Http1([op |-> "return", id |-> o2])
    \union Grpc1([op |-> "return", id |-> o2])
    \union Http1([op |-> "delete"])
    \union Grpc1([op |-> "delete"])
    \union Http1([op |-> "update", status |-> ""])
    \union Both([op |-> "get"])
    \union Both([op |-> "list", active |-> TRUE])
    \union Both([op |-> "history"])
    \union Http1([op |-> "returns", page |-> 1])
    \union Http1([op |-> "returns", page |-> 2])
    \union Grpc1([op |-> "returns", page |-> 3])

Bad ==
  Http1([op |-> "get", known |-> FALSE])
    \union Http1([op |-> "create", wrapper |-> "Bag", membrane |-> TRUE, weight |-> 10])
    \union Grpc1([op |-> "create", wrapper |-> "Sack"])
    \union Grpc1([op |-> "create", wrapper |-> "Membrane", membrane |-> TRUE, weight |-> 40, price |-> 100])
    \union Grpc1([op |-> "create", wrapper |-> "Bag", price |-> -110])
    \union Grpc1([op |-> "list", last |-> -1, active |-> TRUE])
    \union Grpc1([op |-> "return", user |-> u2])
    \union Http1([op |-> "return", id |-> ""])
    \union Grpc1([op |-> "issue", ids |-> <<>>])
    \union Http1([op |-> "returns", page |-> 5, limit |-> 2])
    \union Grpc1([op |-> "returns", page |-> 0])
    \union Grpc1([op |-> "update", status |-> ""])
    \union Grpc1([op |-> "get", id |-> ""])
    \union Grpc1([op |-> "delete", id |-> ""])
    \union Http1([op |-> "update", readable |-> FALSE])

AllRequests == Good \union Bad
=============================================================================
