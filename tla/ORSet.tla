-------------------------------- MODULE ORSet --------------------------------
(***************************************************************************)
(* The observed-remove set of crdt/or_set.hpp, for its only instantiation  *)
(* ORSet<ShoppingItem>.  addSet and removeSet are total functions here: no *)
(* key of the code's maps ever holds an empty set of tags, so that {} is a *)
(* missing key.  A missing entry of elements is NoItem.                    *)
(***************************************************************************)
EXTENDS ShoppingItem

CONSTANT ItemUid

(* genTag() is the wall clock in microseconds and nothing else.            *)
Tag == Nat

ItemSet ==
  [elements  : [ItemUid -> Item \cup {NoItem}],
   addSet    : [ItemUid -> SUBSET Tag],
   removeSet : [ItemUid -> SUBSET Tag]]

EmptySet ==
  [elements  |-> [i \in ItemUid |-> NoItem],
   addSet    |-> [i \in ItemUid |-> {}],
   removeSet |-> [i \in ItemUid |-> {}]]

-----------------------------------------------------------------------------

Contains(s, uid) == \E tag \in s.addSet[uid] : tag \notin s.removeSet[uid]

SetAdd(s, uid, elem, tag) ==
  [s EXCEPT !.elements[uid] = elem,
            !.addSet[uid]   = @ \cup {tag}]

(* A removal that forgets the item instead of recording its tags.          *)
MutSetRemoveErases(s, uid) ==
  [s EXCEPT !.elements[uid] = NoItem, !.addSet[uid] = {}]

SetRemove(s, uid) ==
  [s EXCEPT !.removeSet[uid] = @ \cup s.addSet[uid]]

Values(s) == {uid \in ItemUid : Contains(s, uid) /\ s.elements[uid] # NoItem}

(* An elements part that only looks at uids it already has.                *)
MutElementMergeKnownOnly(mine, theirs) ==
  IF mine = NoItem \/ theirs = NoItem THEN mine ELSE ItemMerge(mine, theirs)

(* The elements part of merge: join where both sides know the uid.         *)
ElementMerge(mine, theirs) ==
  CASE theirs = NoItem -> mine
    [] theirs # NoItem /\ mine = NoItem -> theirs
    [] OTHER -> ItemMerge(mine, theirs)

(* A merge that does not take over tags of items it already knows.         *)
MutSetMergeKeepsTags(s, other) ==
  [elements  |-> [i \in ItemUid |-> ElementMerge(s.elements[i], other.elements[i])],
   addSet    |-> [i \in ItemUid |-> IF s.addSet[i] = {} THEN other.addSet[i]
                                                        ELSE s.addSet[i]],
   removeSet |-> [i \in ItemUid |-> s.removeSet[i] \cup other.removeSet[i]]]

SetMerge(s, other) ==
  [elements  |-> [i \in ItemUid |-> ElementMerge(s.elements[i], other.elements[i])],
   addSet    |-> [i \in ItemUid |-> s.addSet[i] \cup other.addSet[i]],
   removeSet |-> [i \in ItemUid |-> s.removeSet[i] \cup other.removeSet[i]]]

-----------------------------------------------------------------------------

ElementLeq(mine, theirs) ==
  mine # NoItem => theirs # NoItem /\ ItemLeq(mine, theirs)

(* The partial order of the lattice: other knows every add, every removal  *)
(* and every count that s knows.  Names are not part of it.                *)
SetLeq(s, other) ==
  \A i \in ItemUid :
    /\ ElementLeq(s.elements[i], other.elements[i])
    /\ s.addSet[i] \subseteq other.addSet[i]
    /\ s.removeSet[i] \subseteq other.removeSet[i]

(* Only tags that were added are removed, and an item has an element       *)
(* exactly when it was ever added.                                         *)
WellFormedSet(s) ==
  \A i \in ItemUid :
    /\ s.removeSet[i] \subseteq s.addSet[i]
    /\ s.elements[i] = NoItem <=> s.addSet[i] = {}

=============================================================================
