----------------------------- MODULE ListReplicas -----------------------------
(***************************************************************************)
(* Copies of one shopping list, edited at several origins and merged in any*)
(* order: the state-based CRDT of crdt/ and model/ on its own, without the *)
(* network that carries the copies around (Replication has that).  A copy  *)
(* starts out empty, as ShoppingList(uid, name) makes it.                  *)
(***************************************************************************)
EXTENDS ShoppingList

CONSTANTS
  MaxClock,         \* bound: microseconds at which tags are made
  SameMicrosecond   \* whether two origins may make a tag in one microsecond

ASSUME ClockAssumption == MaxClock \in Nat /\ SameMicrosecond \in BOOLEAN

VARIABLES
  copy,   \* copy[r]: the list as origin r holds it
  clock   \* system_clock at the latest genTag() of any origin

vars == <<copy, clock>>

TypeOK ==
  /\ copy \in [Origin -> List]
  /\ clock \in 0 .. MaxClock

Init ==
  /\ copy = [r \in Origin |-> NewList(EmptyName)]
  /\ clock = 0

-----------------------------------------------------------------------------

(***************************************************************************)
(* ORSet::genTag at origin r: the time in microseconds, which two origins  *)
(* may read alike.  What r already holds of the item was tagged earlier: a *)
(* request or a transfer takes longer than a microsecond.                  *)
(***************************************************************************)
GenTag(r, uid, tag) ==
  /\ tag = clock + 1 \/ (SameMicrosecond /\ tag = clock)
  /\ \A t \in copy[r].items.addSet[uid] : t < tag
  /\ clock' = tag

(* API::addItem: createUID is random, so nobody else has the new uid.      *)
AddItem(r, uid, body) ==
  /\ \A s \in Origin : copy[s].items.addSet[uid] = {}
  /\ CanAdd(copy[r], uid)
  /\ \E tag \in 1 .. MaxClock :
       /\ GenTag(r, uid, tag)
       /\ copy' = [copy EXCEPT ![r] = ListAdd(@, uid, r, body, tag)]

(* API::updateItem.                                                        *)
UpdateItem(r, uid, body) ==
  /\ HasItem(copy[r], uid)
  /\ \E tag \in 1 .. MaxClock :
       /\ GenTag(r, uid, tag)
       /\ copy' = [copy EXCEPT ![r] = ListUpdate(@, uid, r, body, tag)]

(* API::removeItem.                                                        *)
RemoveItem(r, uid) ==
  /\ HasItem(copy[r], uid)
  /\ copy' = [copy EXCEPT ![r] = ListRemove(@, uid)]
  /\ UNCHANGED clock

(* ShoppingList::merge of the copy of s into the one of r.                 *)
MergeFrom(r, s) ==
  /\ copy' = [copy EXCEPT ![r] = ListMerge(@, copy[s])]
  /\ UNCHANGED clock

Next ==
  \E r \in Origin :
    \/ \E uid \in ItemUid, body \in Body :
         AddItem(r, uid, body) \/ UpdateItem(r, uid, body)
    \/ \E uid \in ItemUid : RemoveItem(r, uid)
    \/ \E s \in Origin \ {r} : MergeFrom(r, s)

Spec == Init /\ [][Next]_vars

-----------------------------------------------------------------------------

(***************************************************************************)
(* Merging is what gossip relies on: the order in which copies arrive, a   *)
(* copy arriving twice, and copies merged on the way all give the same     *)
(* content (or_set.hpp merge, pn_counter.hpp merge, ShoppingItem::merge).  *)
(***************************************************************************)
MergeIsJoin ==
  \A r, s, t \in Origin :
    /\ SameContent(ListMerge(copy[r], copy[s]), ListMerge(copy[s], copy[r]))
    /\ SameContent(ListMerge(ListMerge(copy[r], copy[s]), copy[t]),
                   ListMerge(copy[r], ListMerge(copy[s], copy[t])))
    /\ ListMerge(copy[r], copy[r]) = copy[r]
    /\ ListLeq(copy[s], ListMerge(copy[r], copy[s]))

(* No removal without an add and no visible tag without an element, on any *)
(* copy: what lets contains() and values() read only their own copy.       *)
WellFormed == \A r \in Origin : WellFormedSet(copy[r].items)

(* A counter of item i at a copy, 0 for an origin that never wrote it.     *)
Entry(r, i, q, sign, o) ==
  IF copy[r].items.elements[i] = NoItem THEN 0
  ELSE copy[r].items.elements[i][q][sign][o]

(***************************************************************************)
(* Nobody knows more of an origin's increments and decrements than that    *)
(* origin itself: without it the max in PNCounter::merge would discard     *)
(* updates.                                                                *)
(***************************************************************************)
OwnerAhead ==
  \A r, o \in Origin, i \in ItemUid, q \in {"desired", "current"},
     sign \in {"pos", "neg"} :
       Entry(r, i, q, sign, o) <= Entry(o, i, q, sign, o)

(***************************************************************************)
(* setDesiredQuantity and setCurrentQuantity lead to the requested quantity*)
(* on the copy they are applied to, whatever the other origins have        *)
(* contributed to the counter.  Only a difference of INT32_MIN, half a     *)
(* word, is dropped: its negation is no increase either.                   *)
(***************************************************************************)
UpdateTakesEffect ==
  \A r \in Origin, i \in ItemUid, q \in Quantity :
    HasItem(copy[r], i) =>
      LET item == copy[r].items.elements[i]
      IN  \A c \in {item.desired, item.current} :
            Shown(SetQuantity(c, r, q)) =
              IF 2 * ((q - Value(c)) % Word) = Word THEN Shown(c) ELSE q % Word

(* What each copy knows, as add events of the abstract set.                *)
Stamp == 1 .. MaxClock

SeenBar ==
  [r \in Origin |->
     {x \in ItemUid \X Stamp : x[2] \in copy[r].items.addSet[x[1]]}]

KilledBar ==
  [r \in Origin |->
     {x \in ItemUid \X Stamp : x[2] \in copy[r].items.removeSet[x[1]]}]

ORS == INSTANCE ObservedRemoveSet
         WITH Replica <- Origin, Element <- ItemUid,
              seen <- SeenBar, killed <- KilledBar

(***************************************************************************)
(* The list implements the observed-remove set: every edit is an event of  *)
(* its own and a removal hides only what its author has seen.              *)
(***************************************************************************)
ImplementsObservedRemoveSet == ORS!Spec

(***************************************************************************)
(* A quantity is negative, and shown as a huge number, only on copies that *)
(* know of two origins that have lowered it: a copy that knows of one only *)
(* also knows what that origin saw when it did (pn_counter.hpp merge,      *)
(* shopping_item.cpp:22-46).                                               *)
(***************************************************************************)
OneOriginStaysNatural ==
  \A r \in Origin, i \in ItemUid, q \in {"desired", "current"} :
    /\ copy[r].items.elements[i] # NoItem
    /\ Cardinality({o \in Origin : Entry(r, i, q, "neg", o) > 0}) < 2
    => Value(copy[r].items.elements[i][q]) >= 0

=============================================================================
