----------------------------- MODULE ShoppingItem -----------------------------
(***************************************************************************)
(* model/shopping_item.cpp: an item is a name and two PN-counters.  The uid*)
(* is not a field: items are only ever reached through maps keyed by it,   *)
(* so the check that two merged items have the same uid always succeeds.   *)
(***************************************************************************)
EXTENDS PNCounter

CONSTANTS
  ItemName,  \* names a user may give to an item
  Quantity,  \* quantities a user may enter (int in the request handler)
  Body,      \* bodies of add and update requests that users send
  NoItem     \* "no entry for this uid in elements"

ASSUME QuantityAssumption == Quantity \subseteq Int

Item == [name : ItemName, desired : Counter, current : Counter]

ASSUME NoItemAssumption == NoItem \notin Item

ASSUME BodyAssumption ==
  Body \subseteq [name : ItemName, desired : Quantity, current : Quantity]

-----------------------------------------------------------------------------

(* The constructor: both quantities, converted to uint32_t, are credited to*)
(* the creating origin.                                                    *)
NewItem(origin, body) ==
  [name    |-> body.name,
   desired |-> Increment(ZeroCounter, origin, body.desired % Word),
   current |-> Increment(ZeroCounter, origin, body.current % Word)]

(* setName, setDesiredQuantity and setCurrentQuantity, as updateItem calls *)
(* them one after the other.                                               *)
EditItem(item, origin, body) ==
  [name    |-> body.name,
   desired |-> SetQuantity(item.desired, origin, body.desired),
   current |-> SetQuantity(item.current, origin, body.current)]

(* ShoppingItem::merge: the counters are joined, the name is overwritten.  *)
ItemMerge(item, other) ==
  [name    |-> other.name,
   desired |-> CounterMerge(item.desired, other.desired),
   current |-> CounterMerge(item.current, other.current)]

ItemLeq(item, other) ==
  /\ CounterLeq(item.desired, other.desired)
  /\ CounterLeq(item.current, other.current)

=============================================================================
