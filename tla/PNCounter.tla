------------------------------ MODULE PNCounter ------------------------------
(***************************************************************************)
(* The positive-negative counter of crdt/pn_counter.hpp, as operators on   *)
(* counter values.  The two maps origin -> uint64_t are total functions    *)
(* here: operator[] and value() treat a missing origin as 0.               *)
(*                                                                         *)
(* The 32-bit views of a counter are the ones of model/shopping_item.cpp:  *)
(* quantities travel as uint32_t and differences are computed in int32_t.  *)
(* Word stands for 2^32.                                                   *)
(***************************************************************************)
EXTENDS Integers, FiniteSets, FiniteSetsExt

CONSTANTS
  Origin,   \* identities that write to a counter (host:port of a client)
  Word      \* 2^32 in the code; a small even number in the models

ASSUME OriginAssumption == IsFiniteSet(Origin)

ASSUME WordAssumption == Word \in Nat \ {0} /\ Word % 2 = 0

MaxInt == (Word \div 2) - 1

Counter == [pos : [Origin -> Nat], neg : [Origin -> Nat]]

ZeroCounter == [pos |-> [o \in Origin |-> 0], neg |-> [o \in Origin |-> 0]]

-----------------------------------------------------------------------------

Increment(c, origin, delta) ==
  IF delta > 0 THEN [c EXCEPT !.pos[origin] = @ + delta] ELSE c

(* A decrement that takes from the increments of the writer instead.      *)
MutDecrementLowersPos(c, origin, delta) ==
  IF delta > 0 THEN [c EXCEPT !.pos[origin] = @ - delta] ELSE c

Decrement(c, origin, delta) ==
  IF delta > 0 THEN [c EXCEPT !.neg[origin] = @ + delta] ELSE c

Value(c) ==
  MapThenSumSet(LAMBDA o : c.pos[o], Origin)
    - MapThenSumSet(LAMBDA o : c.neg[o], Origin)

Larger(x, y) == IF x >= y THEN x ELSE y

(* A merge that only takes over the increments of the other counter.       *)
MutCounterMergeKeepsNeg(c, other) ==
  [c EXCEPT !.pos = [o \in Origin |-> Larger(c.pos[o], other.pos[o])]]

(* A merge that only takes over the decrements of the other counter.       *)
MutCounterMergeKeepsPos(c, other) ==
  [c EXCEPT !.neg = [o \in Origin |-> Larger(c.neg[o], other.neg[o])]]

CounterMerge(c, other) ==
  [pos |-> [o \in Origin |-> Larger(c.pos[o], other.pos[o])],
   neg |-> [o \in Origin |-> Larger(c.neg[o], other.neg[o])]]

(* The partial order of the lattice: other has seen everything c has.      *)
CounterLeq(c, other) ==
  \A o \in Origin : c.pos[o] <= other.pos[o] /\ c.neg[o] <= other.neg[o]

-----------------------------------------------------------------------------

(* What a getter of ShoppingItem returns: value() converted to uint32_t.   *)
Shown(c) == Value(c) % Word

(* d is the int32_t difference that takes the counter to quantity.         *)
IsDiff(c, quantity, d) == (Value(c) + d - quantity) % Word = 0

(* A difference computed without looking at the decrements.                *)
MutSetQuantityIgnoresNeg(c, origin, quantity) ==
  LET IsWrongDiff(d) ==
        (MapThenSumSet(LAMBDA o : c.pos[o], Origin) + d - quantity) % Word = 0
      up   == {d \in 1 .. MaxInt : IsWrongDiff(d)}
      down == {d \in 1 .. MaxInt : IsWrongDiff(0 - d)}
  IN  CASE up # {}   -> Increment(c, origin, CHOOSE d \in up : TRUE)
        [] up = {} /\ down # {} -> Decrement(c, origin, CHOOSE d \in down : TRUE)
        [] OTHER     -> c

(***************************************************************************)
(* setCurrentQuantity and setDesiredQuantity: a positive difference is     *)
(* added to the writer's own increments, a negative one to its own         *)
(* decrements.  A difference of 0 changes nothing, and neither does        *)
(* INT32_MIN, whose negation is again INT32_MIN and fails delta > 0.       *)
(***************************************************************************)
SetQuantity(c, origin, quantity) ==
  LET up   == {d \in 1 .. MaxInt : IsDiff(c, quantity, d)}
      down == {d \in 1 .. MaxInt : IsDiff(c, quantity, 0 - d)}
  IN  CASE up # {}   -> Increment(c, origin, CHOOSE d \in up : TRUE)
        [] up = {} /\ down # {} -> Decrement(c, origin, CHOOSE d \in down : TRUE)
        [] OTHER     -> c

=============================================================================
