------------------------------- MODULE Packaging ------------------------------
(***************************************************************************)
(* The packaging rules of internal/storage/packager.go.  A packager is the *)
(* record of its container and of whether a MembraneDecorator is around it;*)
(* its type is what column wrapper of the orders table gets.               *)
(***************************************************************************)
EXTENDS Integers

CONSTANT NaN  \* the weight, of a protobuf float, that is no number

Containers == {"Bag", "Box", "Membrane"}

\* The values of the enum wrapper_type.
WrapperType ==
  {[container |-> c, membrane |-> m] : c \in Containers, m \in BOOLEAN}
    \ {[container |-> "Membrane", membrane |-> TRUE]}

AlwaysDecorates(wrapper, withMembrane) ==
  [container |-> wrapper, membrane |-> withMembrane]

\* A membrane around a membrane is the membrane.  The name is a Container.
GetPackager(wrapper, withMembrane) ==
  [container |-> wrapper, membrane |-> withMembrane /\ wrapper # "Membrane"]

\* The weight, in kilograms, from which on the container tears.
Limit(c) == CASE c = "Bag" -> 10 [] c = "Box" -> 30

\* The operator >= of float32, which is false of NaN.
AtLeast(weight, limit) == weight # NaN /\ weight >= limit

DecoratorCarriesAll(p, weight) ==
  p.container # "Membrane" /\ ~p.membrane => ~AtLeast(weight, Limit(p.container))

\* The decorator asks the packager inside.  What is refused is a weight that is at
\* least the limit, so NaN passes.
ValidateWeight(p, weight) ==
  p.container # "Membrane" => ~AtLeast(weight, Limit(p.container))

Surcharge(c) == CASE c = "Bag" -> 5 [] c = "Box" -> 20 [] c = "Membrane" -> 1

AdjustPrice(p, price) == price + Surcharge(p.container) + IF p.membrane THEN 1 ELSE 0

\* GetType of the packager, through the decorator if there is one.
GetType(p) == p
=============================================================================
