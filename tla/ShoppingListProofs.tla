-------------------------- MODULE ShoppingListProofs --------------------------
(***************************************************************************)
(* Facts about the operators on lists, for every origin, item and quantity:*)
(* what they return, that merging is the join of an order, and that edits  *)
(* and merges keep a list well formed.                                     *)
(***************************************************************************)
EXTENDS ShoppingList, FiniteSetTheorems, TLAPS

-----------------------------------------------------------------------------
(* Types.                                                                  *)

LEMMA ZeroCounterType == ZeroCounter \in Counter
BY DEF ZeroCounter, Counter

(* increment() and decrement() only ever add to a count.                   *)
LEMMA IncrementType ==
  ASSUME NEW c \in Counter, NEW o \in Origin, NEW delta \in Int
  PROVE  Increment(c, o, delta) \in Counter /\ CounterLeq(c, Increment(c, o, delta))
BY DEF Counter, Increment, CounterLeq

LEMMA DecrementType ==
  ASSUME NEW c \in Counter, NEW o \in Origin, NEW delta \in Int
  PROVE  Decrement(c, o, delta) \in Counter /\ CounterLeq(c, Decrement(c, o, delta))
BY DEF Counter, Decrement, CounterLeq

LEMMA CounterLeqReflexive ==
  ASSUME NEW c \in Counter
  PROVE  CounterLeq(c, c)
BY DEF Counter, CounterLeq

(* Setting a quantity never lowers a count, whatever value() returns.      *)
LEMMA SetQuantityType ==
  ASSUME NEW c \in Counter, NEW o \in Origin, NEW quantity
  PROVE  /\ SetQuantity(c, o, quantity) \in Counter
         /\ CounterLeq(c, SetQuantity(c, o, quantity))
<1> DEFINE up   == {d \in 1 .. MaxInt : IsDiff(c, quantity, d)}
           down == {d \in 1 .. MaxInt : IsDiff(c, quantity, 0 - d)}
           u    == CHOOSE d \in up : TRUE
           v    == CHOOSE d \in down : TRUE
<1>1. up \subseteq Int /\ down \subseteq Int
  OBVIOUS
<1>2. up # {} => u \in up
  OBVIOUS
<1>3. down # {} => v \in down
  OBVIOUS
<1>4. up # {} => u \in Int
  BY <1>1, <1>2
<1>5. down # {} => v \in Int
  BY <1>1, <1>3
<1>6. SetQuantity(c, o, quantity) =
        CASE up # {}                -> Increment(c, o, u)
          [] up = {} /\ down # {}   -> Decrement(c, o, v)
          [] OTHER                  -> c
  BY DEF SetQuantity
<1> HIDE DEF up, down, u, v
<1>7. CASE up # {}
  <2>1. SetQuantity(c, o, quantity) = Increment(c, o, u)
    BY <1>6, <1>7
  <2> QED
    BY <1>4, <1>7, <2>1, IncrementType
<1>8. CASE up = {} /\ down # {}
  <2>1. SetQuantity(c, o, quantity) = Decrement(c, o, v)
    BY <1>6, <1>8
  <2> QED
    BY <1>5, <1>8, <2>1, DecrementType
<1>9. CASE up = {} /\ down = {}
  <2>1. SetQuantity(c, o, quantity) = c
    BY <1>6, <1>9
  <2> QED
    BY <2>1, CounterLeqReflexive
<1> QED
  BY <1>7, <1>8, <1>9

LEMMA CounterMergeType ==
  ASSUME NEW c \in Counter, NEW d \in Counter
  PROVE  /\ CounterMerge(c, d) \in Counter
         /\ CounterLeq(c, CounterMerge(c, d))
         /\ CounterLeq(d, CounterMerge(c, d))
BY DEF Counter, CounterMerge, CounterLeq, Larger

LEMMA ModType ==
  ASSUME NEW q \in Int
  PROVE  q % Word \in Int
BY WordAssumption

LEMMA BodyType ==
  ASSUME NEW body \in Body
  PROVE  body.name \in ItemName /\ body.desired \in Int /\ body.current \in Int
BY BodyAssumption, QuantityAssumption

LEMMA NewItemType ==
  ASSUME NEW o \in Origin, NEW body \in Body
  PROVE  NewItem(o, body) \in Item
<1>1. body.desired % Word \in Int /\ body.current % Word \in Int
  BY BodyType, ModType
<1> QED
  BY <1>1, BodyType, ZeroCounterType, IncrementType DEF NewItem, Item

LEMMA EditItemType ==
  ASSUME NEW item \in Item, NEW o \in Origin, NEW body \in Body
  PROVE  EditItem(item, o, body) \in Item /\ ItemLeq(item, EditItem(item, o, body))
<1>1. item.desired \in Counter /\ item.current \in Counter
  BY DEF Item
<1> QED
  BY <1>1, BodyType, SetQuantityType DEF EditItem, Item, ItemLeq

LEMMA ItemMergeType ==
  ASSUME NEW item \in Item, NEW other \in Item
  PROVE  /\ ItemMerge(item, other) \in Item
         /\ ItemLeq(item, ItemMerge(item, other))
         /\ ItemLeq(other, ItemMerge(item, other))
BY CounterMergeType DEF ItemMerge, Item, ItemLeq

LEMMA ElementMergeType ==
  ASSUME NEW mine \in Item \cup {NoItem}, NEW theirs \in Item \cup {NoItem}
  PROVE  /\ ElementMerge(mine, theirs) \in Item \cup {NoItem}
         /\ ElementMerge(mine, theirs) = NoItem <=> mine = NoItem /\ theirs = NoItem
         /\ ElementLeq(mine, ElementMerge(mine, theirs))
         /\ ElementLeq(theirs, ElementMerge(mine, theirs))
<1>1. CASE theirs = NoItem
  BY <1>1, CounterLeqReflexive DEF ElementMerge, ElementLeq, ItemLeq, Item
<1>2. CASE theirs # NoItem /\ mine = NoItem
  BY <1>2, CounterLeqReflexive DEF ElementMerge, ElementLeq, ItemLeq, Item
<1>3. CASE theirs # NoItem /\ mine # NoItem
  BY <1>3, ItemMergeType, NoItemAssumption DEF ElementMerge, ElementLeq
<1> QED
  BY <1>1, <1>2, <1>3

LEMMA ItemSetFields ==
  ASSUME NEW s \in ItemSet, NEW i \in ItemUid
  PROVE  /\ s.elements[i] \in Item \cup {NoItem}
         /\ s.addSet[i] \subseteq Tag
         /\ s.removeSet[i] \subseteq Tag
BY DEF ItemSet

LEMMA SetMergeType ==
  ASSUME NEW s \in ItemSet, NEW t \in ItemSet
  PROVE  /\ SetMerge(s, t) \in ItemSet
         /\ SetLeq(s, SetMerge(s, t))
         /\ SetLeq(t, SetMerge(s, t))
<1>1. \A i \in ItemUid :
        /\ ElementMerge(s.elements[i], t.elements[i]) \in Item \cup {NoItem}
        /\ ElementLeq(s.elements[i], ElementMerge(s.elements[i], t.elements[i]))
        /\ ElementLeq(t.elements[i], ElementMerge(s.elements[i], t.elements[i]))
  BY ItemSetFields, ElementMergeType
<1>2. SetMerge(s, t) \in ItemSet
  <2>1. [i \in ItemUid |-> ElementMerge(s.elements[i], t.elements[i])]
          \in [ItemUid -> Item \cup {NoItem}]
    BY <1>1
  <2>2. /\ [i \in ItemUid |-> s.addSet[i] \cup t.addSet[i]] \in [ItemUid -> SUBSET Tag]
        /\ [i \in ItemUid |-> s.removeSet[i] \cup t.removeSet[i]] \in [ItemUid -> SUBSET Tag]
    BY ItemSetFields
  <2> QED
    BY <2>1, <2>2 DEF SetMerge, ItemSet
<1> QED
  BY <1>1, <1>2 DEF SetMerge, SetLeq

(* Merging two well-formed lists gives a well-formed list.                 *)
LEMMA SetMergeWellFormed ==
  ASSUME NEW s \in ItemSet, NEW t \in ItemSet, WellFormedSet(s), WellFormedSet(t)
  PROVE  WellFormedSet(SetMerge(s, t))
<1> SUFFICES ASSUME NEW i \in ItemUid
             PROVE  /\ SetMerge(s, t).removeSet[i] \subseteq SetMerge(s, t).addSet[i]
                    /\ SetMerge(s, t).elements[i] = NoItem
                         <=> SetMerge(s, t).addSet[i] = {}
  BY DEF WellFormedSet
<1>1. /\ s.removeSet[i] \subseteq s.addSet[i]
      /\ s.elements[i] = NoItem <=> s.addSet[i] = {}
      /\ t.removeSet[i] \subseteq t.addSet[i]
      /\ t.elements[i] = NoItem <=> t.addSet[i] = {}
  BY DEF WellFormedSet
<1>2. /\ SetMerge(s, t).removeSet[i] = s.removeSet[i] \cup t.removeSet[i]
      /\ SetMerge(s, t).addSet[i] = s.addSet[i] \cup t.addSet[i]
      /\ SetMerge(s, t).elements[i] = ElementMerge(s.elements[i], t.elements[i])
  BY DEF SetMerge
<1>3. ElementMerge(s.elements[i], t.elements[i]) = NoItem
        <=> s.elements[i] = NoItem /\ t.elements[i] = NoItem
  BY ItemSetFields, ElementMergeType
<1> QED
  BY <1>1, <1>2, <1>3

LEMMA EmptySetType == EmptySet \in ItemSet /\ WellFormedSet(EmptySet)
BY DEF EmptySet, ItemSet, WellFormedSet

LEMMA ElementLeqReflexive ==
  ASSUME NEW e \in Item \cup {NoItem}
  PROVE  ElementLeq(e, e)
BY CounterLeqReflexive DEF ElementLeq, ItemLeq, Item

LEMMA SetLeqReflexive ==
  ASSUME NEW s \in ItemSet
  PROVE  SetLeq(s, s)
BY ItemSetFields, ElementLeqReflexive DEF SetLeq

(* Adding an element that knows what the old one knew grows the set.       *)
LEMMA SetAddType ==
  ASSUME NEW s \in ItemSet, NEW i \in ItemUid, NEW e \in Item, NEW tag \in Tag,
         ElementLeq(s.elements[i], e)
  PROVE  /\ SetAdd(s, i, e, tag) \in ItemSet
         /\ SetLeq(s, SetAdd(s, i, e, tag))
         /\ WellFormedSet(s) => WellFormedSet(SetAdd(s, i, e, tag))
<1> DEFINE t == SetAdd(s, i, e, tag)
<1>1. /\ t.elements = [s.elements EXCEPT ![i] = e]
      /\ t.addSet = [s.addSet EXCEPT ![i] = @ \cup {tag}]
      /\ t.removeSet = s.removeSet
      /\ t \in ItemSet
  BY DEF SetAdd, ItemSet
<1>2. \A j \in ItemUid : /\ t.elements[j] = IF j = i THEN e ELSE s.elements[j]
                         /\ t.addSet[j] = IF j = i THEN s.addSet[i] \cup {tag}
                                                   ELSE s.addSet[j]
                         /\ t.removeSet[j] = s.removeSet[j]
  BY <1>1 DEF ItemSet
<1> HIDE DEF t
<1>3. SetLeq(s, t)
  BY <1>2, ItemSetFields, ElementLeqReflexive DEF SetLeq
<1>4. WellFormedSet(s) => WellFormedSet(t)
  BY <1>2, NoItemAssumption DEF WellFormedSet
<1> QED
  BY <1>1, <1>3, <1>4 DEF t

LEMMA SetRemoveType ==
  ASSUME NEW s \in ItemSet, NEW i \in ItemUid
  PROVE  /\ SetRemove(s, i) \in ItemSet
         /\ SetLeq(s, SetRemove(s, i))
         /\ WellFormedSet(s) => WellFormedSet(SetRemove(s, i))
<1> DEFINE t == SetRemove(s, i)
<1>1. /\ t.elements = s.elements
      /\ t.addSet = s.addSet
      /\ t.removeSet = [s.removeSet EXCEPT ![i] = @ \cup s.addSet[i]]
      /\ t \in ItemSet
  BY DEF SetRemove, ItemSet
<1>2. \A j \in ItemUid :
        t.removeSet[j] = IF j = i THEN s.removeSet[i] \cup s.addSet[i] ELSE s.removeSet[j]
  BY <1>1 DEF ItemSet
<1> HIDE DEF t
<1>3. SetLeq(s, t)
  BY <1>1, <1>2, ItemSetFields, ElementLeqReflexive DEF SetLeq
<1>4. WellFormedSet(s) => WellFormedSet(t)
  BY <1>1, <1>2 DEF WellFormedSet
<1> QED
  BY <1>1, <1>3, <1>4 DEF t

-----------------------------------------------------------------------------
(* Merging is the join of the order ListLeq.                               *)

LEMMA CounterLeqTransitive ==
  ASSUME NEW c \in Counter, NEW d \in Counter, NEW e \in Counter,
         CounterLeq(c, d), CounterLeq(d, e)
  PROVE  CounterLeq(c, e)
BY DEF Counter, CounterLeq

LEMMA CounterMergeLub ==
  ASSUME NEW c \in Counter, NEW d \in Counter, NEW e \in Counter,
         CounterLeq(c, e), CounterLeq(d, e)
  PROVE  CounterLeq(CounterMerge(c, d), e)
BY DEF Counter, CounterLeq, CounterMerge, Larger

LEMMA CounterMergeIdempotent ==
  ASSUME NEW c \in Counter
  PROVE  CounterMerge(c, c) = c
<1>1. /\ [o \in Origin |-> Larger(c.pos[o], c.pos[o])] = c.pos
      /\ [o \in Origin |-> Larger(c.neg[o], c.neg[o])] = c.neg
  BY DEF Counter, Larger
<1> QED
  BY <1>1 DEF CounterMerge, Counter

LEMMA ElementLeqTransitive ==
  ASSUME NEW x \in Item \cup {NoItem}, NEW y \in Item \cup {NoItem},
         NEW z \in Item \cup {NoItem}, ElementLeq(x, y), ElementLeq(y, z)
  PROVE  ElementLeq(x, z)
<1> SUFFICES ASSUME x # NoItem
             PROVE  z # NoItem /\ ItemLeq(x, z)
  BY DEF ElementLeq
<1>1. y # NoItem /\ z # NoItem /\ ItemLeq(x, y) /\ ItemLeq(y, z)
  BY DEF ElementLeq
<1> QED
  BY <1>1, CounterLeqTransitive DEF ItemLeq, Item

LEMMA ElementMergeLub ==
  ASSUME NEW x \in Item \cup {NoItem}, NEW y \in Item \cup {NoItem},
         NEW z \in Item \cup {NoItem}, ElementLeq(x, z), ElementLeq(y, z)
  PROVE  ElementLeq(ElementMerge(x, y), z)
<1>1. CASE y = NoItem
  BY <1>1 DEF ElementMerge
<1>2. CASE y # NoItem /\ x = NoItem
  BY <1>2 DEF ElementMerge
<1>3. CASE y # NoItem /\ x # NoItem
  <2>1. ElementMerge(x, y) = ItemMerge(x, y)
    BY <1>3 DEF ElementMerge
  <2>2. z # NoItem /\ ItemLeq(x, z) /\ ItemLeq(y, z)
    BY <1>3 DEF ElementLeq
  <2>3. ItemLeq(ItemMerge(x, y), z)
    BY <1>3, <2>2, CounterMergeLub DEF ItemLeq, ItemMerge, Item
  <2> QED
    BY <2>1, <2>2, <2>3 DEF ElementLeq
<1> QED
  BY <1>1, <1>2, <1>3

LEMMA ElementMergeIdempotent ==
  ASSUME NEW x \in Item \cup {NoItem}
  PROVE  ElementMerge(x, x) = x
<1>1. CASE x = NoItem
  BY <1>1 DEF ElementMerge
<1>2. CASE x # NoItem
  BY <1>2, CounterMergeIdempotent DEF ElementMerge, ItemMerge, Item
<1> QED
  BY <1>1, <1>2

LEMMA SetLeqTransitive ==
  ASSUME NEW s \in ItemSet, NEW t \in ItemSet, NEW u \in ItemSet,
         SetLeq(s, t), SetLeq(t, u)
  PROVE  SetLeq(s, u)
<1> SUFFICES ASSUME NEW i \in ItemUid
             PROVE  /\ ElementLeq(s.elements[i], u.elements[i])
                    /\ s.addSet[i] \subseteq u.addSet[i]
                    /\ s.removeSet[i] \subseteq u.removeSet[i]
  BY DEF SetLeq
<1>1. ElementLeq(s.elements[i], t.elements[i]) /\ ElementLeq(t.elements[i], u.elements[i])
  BY DEF SetLeq
<1>2. ElementLeq(s.elements[i], u.elements[i])
  BY <1>1, ItemSetFields, ElementLeqTransitive
<1> QED
  BY <1>2 DEF SetLeq

LEMMA SetMergeLub ==
  ASSUME NEW s \in ItemSet, NEW t \in ItemSet, NEW u \in ItemSet,
         SetLeq(s, u), SetLeq(t, u)
  PROVE  SetLeq(SetMerge(s, t), u)
<1> SUFFICES ASSUME NEW i \in ItemUid
             PROVE  /\ ElementLeq(ElementMerge(s.elements[i], t.elements[i]), u.elements[i])
                    /\ s.addSet[i] \cup t.addSet[i] \subseteq u.addSet[i]
                    /\ s.removeSet[i] \cup t.removeSet[i] \subseteq u.removeSet[i]
  BY DEF SetLeq, SetMerge
<1>1. ElementLeq(s.elements[i], u.elements[i]) /\ ElementLeq(t.elements[i], u.elements[i])
  BY DEF SetLeq
<1>2. ElementLeq(ElementMerge(s.elements[i], t.elements[i]), u.elements[i])
  BY <1>1, ItemSetFields, ElementMergeLub
<1> QED
  BY <1>2 DEF SetLeq

LEMMA SetMergeIdempotent ==
  ASSUME NEW s \in ItemSet
  PROVE  SetMerge(s, s) = s
<1>1. \A i \in ItemUid : ElementMerge(s.elements[i], s.elements[i]) = s.elements[i]
  BY ItemSetFields, ElementMergeIdempotent
<1>2. /\ [i \in ItemUid |-> ElementMerge(s.elements[i], s.elements[i])] = s.elements
      /\ [i \in ItemUid |-> s.addSet[i] \cup s.addSet[i]] = s.addSet
      /\ [i \in ItemUid |-> s.removeSet[i] \cup s.removeSet[i]] = s.removeSet
  BY <1>1 DEF ItemSet
<1> QED
  BY <1>2 DEF SetMerge, ItemSet

-----------------------------------------------------------------------------
(* The same facts for lists.                                               *)

LEMMA NewListType ==
  ASSUME NEW name \in ListName
  PROVE  NewList(name) \in List /\ WellFormedSet(NewList(name).items)
BY EmptySetType DEF NewList, List

LEMMA ListLeqReflexive ==
  ASSUME NEW lst \in List
  PROVE  ListLeq(lst, lst)
BY SetLeqReflexive DEF ListLeq, List

LEMMA ListLeqTransitive ==
  ASSUME NEW x \in List, NEW y \in List, NEW z \in List, ListLeq(x, y), ListLeq(y, z)
  PROVE  ListLeq(x, z)
BY SetLeqTransitive DEF ListLeq, List

LEMMA ListAddIsList ==
  ASSUME NEW lst \in List, NEW i \in ItemUid, NEW o \in Origin, NEW body \in Body,
         NEW tag \in Tag
  PROVE  ListAdd(lst, i, o, body, tag) \in List
BY NewItemType DEF ListAdd, SetAdd, List, ItemSet

LEMMA ListAddType ==
  ASSUME NEW lst \in List, NEW i \in ItemUid, NEW o \in Origin, NEW body \in Body,
         NEW tag \in Tag, lst.items.elements[i] = NoItem
  PROVE  /\ ListAdd(lst, i, o, body, tag) \in List
         /\ ListLeq(lst, ListAdd(lst, i, o, body, tag))
         /\ WellFormedSet(lst.items) => WellFormedSet(ListAdd(lst, i, o, body, tag).items)
<1>1. lst.items \in ItemSet
  BY DEF List
<1>2. ElementLeq(lst.items.elements[i], NewItem(o, body))
  BY DEF ElementLeq
<1> QED
  BY <1>1, <1>2, NewItemType, SetAddType DEF ListAdd, ListLeq, List

LEMMA ListUpdateType ==
  ASSUME NEW lst \in List, NEW i \in ItemUid, NEW o \in Origin, NEW body \in Body,
         NEW tag \in Tag, HasItem(lst, i)
  PROVE  /\ ListUpdate(lst, i, o, body, tag) \in List
         /\ ListLeq(lst, ListUpdate(lst, i, o, body, tag))
         /\ WellFormedSet(lst.items) => WellFormedSet(ListUpdate(lst, i, o, body, tag).items)
<1> DEFINE old == lst.items.elements[i]
<1>1. lst.items \in ItemSet /\ old \in Item
  BY ItemSetFields DEF HasItem, Values, List
<1>2. EditItem(old, o, body) \in Item /\ ItemLeq(old, EditItem(old, o, body))
  BY <1>1, EditItemType
<1>3. ElementLeq(old, EditItem(old, o, body))
  BY <1>2, NoItemAssumption DEF ElementLeq
<1> QED
  BY <1>1, <1>2, <1>3, SetAddType DEF ListUpdate, ListLeq, List

LEMMA ListRemoveType ==
  ASSUME NEW lst \in List, NEW i \in ItemUid
  PROVE  /\ ListRemove(lst, i) \in List
         /\ ListLeq(lst, ListRemove(lst, i))
         /\ WellFormedSet(lst.items) => WellFormedSet(ListRemove(lst, i).items)
BY SetRemoveType DEF ListRemove, ListLeq, List

LEMMA ListMergeType ==
  ASSUME NEW x \in List, NEW y \in List
  PROVE  /\ ListMerge(x, y) \in List
         /\ ListLeq(x, ListMerge(x, y))
         /\ ListLeq(y, ListMerge(x, y))
         /\ WellFormedSet(x.items) /\ WellFormedSet(y.items)
              => WellFormedSet(ListMerge(x, y).items)
BY SetMergeType, SetMergeWellFormed DEF ListMerge, ListLeq, List

LEMMA ListMergeLub ==
  ASSUME NEW x \in List, NEW y \in List, NEW z \in List, ListLeq(x, z), ListLeq(y, z)
  PROVE  ListLeq(ListMerge(x, y), z)
BY SetMergeLub DEF ListMerge, ListLeq, List

(* However two copies meet, the result knows the same.                     *)
LEMMA ListMergeCommutes ==
  ASSUME NEW x \in List, NEW y \in List
  PROVE  SameContent(ListMerge(x, y), ListMerge(y, x))
BY ListMergeType, ListMergeLub DEF SameContent

(* It does not matter which of three copies meet first.                    *)
LEMMA ListMergeAssociates ==
  ASSUME NEW x \in List, NEW y \in List, NEW z \in List
  PROVE  SameContent(ListMerge(ListMerge(x, y), z), ListMerge(x, ListMerge(y, z)))
<1> DEFINE xy == ListMerge(x, y)
           yz == ListMerge(y, z)
           left  == ListMerge(xy, z)
           right == ListMerge(x, yz)
<1>1. /\ xy \in List /\ ListLeq(x, xy) /\ ListLeq(y, xy)
      /\ yz \in List /\ ListLeq(y, yz) /\ ListLeq(z, yz)
  BY ListMergeType
<1> HIDE DEF xy, yz
<1>2. /\ left \in List /\ ListLeq(xy, left) /\ ListLeq(z, left)
      /\ right \in List /\ ListLeq(x, right) /\ ListLeq(yz, right)
  BY <1>1, ListMergeType
<1> HIDE DEF left, right
<1>3. ListLeq(left, right)
  <2>1. ListLeq(y, right) /\ ListLeq(z, right)
    BY <1>1, <1>2, ListLeqTransitive
  <2>2. ListLeq(xy, right)
    BY <1>2, <2>1, ListMergeLub DEF xy
  <2> QED
    BY <1>1, <1>2, <2>1, <2>2, ListMergeLub DEF left
<1>4. ListLeq(right, left)
  <2>1. ListLeq(x, left) /\ ListLeq(y, left)
    BY <1>1, <1>2, ListLeqTransitive
  <2>2. ListLeq(yz, left)
    BY <1>2, <2>1, ListMergeLub DEF yz
  <2> QED
    BY <1>1, <1>2, <2>1, <2>2, ListMergeLub DEF right
<1> QED
  BY <1>3, <1>4 DEF SameContent, left, right, xy, yz

(* A copy that arrives twice changes nothing, the name included.           *)
LEMMA ListMergeIdempotent ==
  ASSUME NEW x \in List
  PROVE  ListMerge(x, x) = x
BY SetMergeIdempotent DEF ListMerge, List

-----------------------------------------------------------------------------
(***************************************************************************)
(* Ownership of counts: an origin alone raises its own, and an element that*)
(* is not there has counted nothing.                                       *)
(***************************************************************************)
Desired(e) == IF e = NoItem THEN ZeroCounter ELSE e.desired
Current(e) == IF e = NoItem THEN ZeroCounter ELSE e.current

(* Origin o has counted no more in c than in d.                            *)
CountLeq(c, d, o) == c.pos[o] <= d.pos[o] /\ c.neg[o] <= d.neg[o]

BehindOwner(e, f, o) ==
  CountLeq(Desired(e), Desired(f), o) /\ CountLeq(Current(e), Current(f), o)

(* Only o may have counted between c and d.                                *)
OthersSame(c, d, o) ==
  \A p \in Origin \ {o} : c.pos[p] = d.pos[p] /\ c.neg[p] = d.neg[p]

LEMMA ElementCounters ==
  ASSUME NEW e \in Item \cup {NoItem}
  PROVE  Desired(e) \in Counter /\ Current(e) \in Counter
BY ZeroCounterType DEF Desired, Current, Item

(* Setting a quantity only touches the counts of the one who sets it.      *)
LEMMA SetQuantityOwn ==
  ASSUME NEW c \in Counter, NEW o \in Origin, NEW quantity
  PROVE  OthersSame(c, SetQuantity(c, o, quantity), o)
<1>1. \A delta : /\ OthersSame(c, Increment(c, o, delta), o)
                 /\ OthersSame(c, Decrement(c, o, delta), o)
                 /\ OthersSame(c, c, o)
  BY DEF OthersSame, Increment, Decrement, Counter
<1> DEFINE up   == {d \in 1 .. MaxInt : IsDiff(c, quantity, d)}
           down == {d \in 1 .. MaxInt : IsDiff(c, quantity, 0 - d)}
           u    == CHOOSE d \in up : TRUE
           v    == CHOOSE d \in down : TRUE
<1>2. SetQuantity(c, o, quantity) =
        CASE up # {}                -> Increment(c, o, u)
          [] up = {} /\ down # {}   -> Decrement(c, o, v)
          [] OTHER                  -> c
  BY DEF SetQuantity
<1> HIDE DEF up, down, u, v
<1>3. SetQuantity(c, o, quantity) \in {Increment(c, o, u), Decrement(c, o, v), c}
  BY <1>2
<1> QED
  BY <1>1, <1>3

LEMMA NewItemOwn ==
  ASSUME NEW o \in Origin, NEW body \in Body
  PROVE  /\ OthersSame(ZeroCounter, NewItem(o, body).desired, o)
         /\ OthersSame(ZeroCounter, NewItem(o, body).current, o)
<1>1. \A delta : OthersSame(ZeroCounter, Increment(ZeroCounter, o, delta), o)
  BY DEF OthersSame, Increment, ZeroCounter
<1> QED
  BY <1>1 DEF NewItem

(* A merged element knows, of every origin, what one of the two knew.      *)
LEMMA MergedCounts ==
  ASSUME NEW e \in Item \cup {NoItem}, NEW f \in Item \cup {NoItem}, NEW g \in Item \cup {NoItem},
         NEW o \in Origin, BehindOwner(e, g, o), BehindOwner(f, g, o)
  PROVE  BehindOwner(ElementMerge(e, f), g, o)
<1>1. CASE f = NoItem
  BY <1>1 DEF ElementMerge
<1>2. CASE f # NoItem /\ e = NoItem
  BY <1>2 DEF ElementMerge
<1>3. CASE f # NoItem /\ e # NoItem
  <2>1. ElementMerge(e, f) = ItemMerge(e, f) /\ ItemMerge(e, f) # NoItem
    BY <1>3, ItemMergeType, NoItemAssumption DEF ElementMerge
  <2>2. /\ Desired(ItemMerge(e, f)) = CounterMerge(Desired(e), Desired(f))
        /\ Current(ItemMerge(e, f)) = CounterMerge(Current(e), Current(f))
    BY <1>3, <2>1 DEF Desired, Current, ItemMerge
  <2>3. \A c, d, x : CountLeq(c, x, o) /\ CountLeq(d, x, o)
                       => CountLeq(CounterMerge(c, d), x, o)
    BY DEF CountLeq, CounterMerge, Larger
  <2> QED
    BY <2>1, <2>2, <2>3 DEF BehindOwner
<1> QED
  BY <1>1, <1>2, <1>3

LEMMA BehindTransitive ==
  ASSUME NEW e \in Item \cup {NoItem}, NEW f \in Item \cup {NoItem}, NEW g \in Item \cup {NoItem},
         NEW o \in Origin, BehindOwner(e, f, o), BehindOwner(f, g, o)
  PROVE  BehindOwner(e, g, o)
<1>1. /\ Desired(e) \in Counter /\ Desired(f) \in Counter /\ Desired(g) \in Counter
      /\ Current(e) \in Counter /\ Current(f) \in Counter /\ Current(g) \in Counter
  BY ElementCounters
<1> QED
  BY <1>1 DEF BehindOwner, CountLeq, Counter

LEMMA LeqRaisesCounts ==
  ASSUME NEW e \in Item \cup {NoItem}, NEW f \in Item \cup {NoItem}, NEW o \in Origin,
         ElementLeq(e, f)
  PROVE  BehindOwner(e, f, o)
<1>1. Desired(f) \in Counter /\ Current(f) \in Counter
  BY ElementCounters
<1>2. CASE e = NoItem
  BY <1>1, <1>2 DEF BehindOwner, CountLeq, Counter, Desired, Current, ZeroCounter
<1>3. CASE e # NoItem
  BY <1>3 DEF BehindOwner, CountLeq, ElementLeq, ItemLeq, CounterLeq, Desired, Current
<1> QED
  BY <1>2, <1>3

LEMMA MergeRaisesCounts ==
  ASSUME NEW e \in Item \cup {NoItem}, NEW f \in Item \cup {NoItem}, NEW o \in Origin
  PROVE  BehindOwner(e, ElementMerge(e, f), o)
BY ElementMergeType, LeqRaisesCounts

-----------------------------------------------------------------------------
(***************************************************************************)
(* Sums over a finite set.  MapThenSumSet is a fold; what it computes is   *)
(* found by minimal counterexample among the subsets of the set.           *)
(***************************************************************************)
SumOf(f, S) == MapThenSumSet(LAMBDA x : f[x], S)

First(s) == CHOOSE x \in s : TRUE

(* What the fold computes for every subset.                                *)
Sums(g, f, S) ==
  g = [s \in SUBSET S |-> IF s = {} THEN 0 ELSE f[First(s)] + g[s \ {First(s)}]]

LEMMA SmallestSubset ==
  ASSUME NEW S, IsFiniteSet(S), NEW T, T \subseteq SUBSET S, T # {}
  PROVE  \E s \in T : \A t \in SUBSET s : t # s => t \notin T
<1>1. IsWellFoundedOn(StrictSubsetOrdering(S), SUBSET S)
  BY FS_StrictSubsetOrderingWellFounded, FS_FiniteSubsetsOfFinite
<1>2. PICK s \in T : \A t \in T : <<t, s>> \notin StrictSubsetOrdering(S)
  BY <1>1, WFMin
<1>3. ASSUME NEW t \in SUBSET s, t # s, t \in T
      PROVE  FALSE
  BY <1>2, <1>3 DEF StrictSubsetOrdering
<1> QED
  BY <1>2, <1>3

LEMMA SumsEmpty ==
  ASSUME NEW S, NEW f, NEW g, Sums(g, f, S)
  PROVE  g[{}] = 0
<1>1. {} \in SUBSET S
  OBVIOUS
<1> QED
  BY <1>1 DEF Sums

LEMMA SumsAt ==
  ASSUME NEW S, NEW f, NEW g, Sums(g, f, S), NEW s, s \in SUBSET S, s # {}
  PROVE  /\ First(s) \in s
         /\ s \ {First(s)} \in SUBSET s
         /\ s \ {First(s)} # s
         /\ g[s] = f[First(s)] + g[s \ {First(s)}]
<1>1. g[s] = IF s = {} THEN 0 ELSE f[First(s)] + g[s \ {First(s)}]
  BY DEF Sums
<1>2. First(s) \in s
  BY DEF First
<1> HIDE DEF First
<1> QED
  BY <1>1, <1>2

(* Two sums take the same summand away.                                    *)
SameStep(f, e, g, h, s) ==
  \E y \in s, x \in SUBSET s :
    x = s \ {y} /\ g[s] = f[y] + g[x] /\ h[s] = e[y] + h[x]

LEMMA SumsBothAt ==
  ASSUME NEW S, NEW f, NEW e, NEW g, NEW h, Sums(g, f, S), Sums(h, e, S),
         NEW s, s \in SUBSET S, s # {}
  PROVE  SameStep(f, e, g, h, s)
<1>1. /\ First(s) \in s
      /\ s \ {First(s)} \in SUBSET s
      /\ g[s] = f[First(s)] + g[s \ {First(s)}]
  BY SumsAt
<1>2. h[s] = e[First(s)] + h[s \ {First(s)}]
  BY SumsAt
<1> QED
  BY <1>1, <1>2 DEF SameStep

(* The function that does, on the subsets of u.                            *)
SumsOn(f, u) == CHOOSE g : g \in [SUBSET u -> Nat] /\ Sums(g, f, u)

Summable(f, u) == \E g \in [SUBSET u -> Nat] : Sums(g, f, u)

LEMMA SumsAgree ==
  ASSUME NEW f, NEW t, NEW u, NEW g, NEW h, Sums(g, f, t), Sums(h, f, u),
         NEW v, IsFiniteSet(v), v \in SUBSET t, v \in SUBSET u
  PROVE  g[v] = h[v]
<1> DEFINE Bad == {w \in SUBSET v : g[w] # h[w]}
<1> SUFFICES ASSUME Bad # {}
             PROVE  FALSE
  OBVIOUS
<1>0. Bad \subseteq SUBSET v /\ \A w \in SUBSET v : w \in Bad <=> g[w] # h[w]
  OBVIOUS
<1> HIDE DEF Bad
<1>1. PICK w \in Bad : \A x \in SUBSET w : x # w => x \notin Bad
  BY <1>0, SmallestSubset
<1>2. w \in SUBSET v /\ w \in SUBSET t /\ w \in SUBSET u /\ g[w] # h[w]
  BY <1>0, <1>1
<1>3. w # {}
  <2>1. g[{}] = 0
    BY SumsEmpty
  <2>2. h[{}] = 0
    BY SumsEmpty
  <2> QED
    BY <1>2, <2>1, <2>2
<1> DEFINE x == w \ {First(w)}
<1>4. g[w] = f[First(w)] + g[x] /\ x \in SUBSET w /\ x # w
  BY <1>2, <1>3, SumsAt
<1>5. h[w] = f[First(w)] + h[x]
  BY <1>2, <1>3, SumsAt
<1> HIDE DEF x
<1>6. x \in SUBSET v /\ x \notin Bad
  BY <1>1, <1>2, <1>4
<1>7. g[x] = h[x]
  BY <1>0, <1>6
<1> QED
  BY <1>2, <1>4, <1>5, <1>7

LEMMA SumsOnType ==
  ASSUME NEW f, NEW u, Summable(f, u)
  PROVE  SumsOn(f, u) \in [SUBSET u -> Nat] /\ Sums(SumsOn(f, u), f, u)
BY DEF Summable, SumsOn

(* From the sums over all smaller subsets to those over u.                 *)
LEMMA SumsStep ==
  ASSUME NEW S, IsFiniteSet(S), NEW f \in [S -> Nat], NEW u \in SUBSET S,
         \A v \in SUBSET u : v # u => Summable(f, v)
  PROVE  Summable(f, u)
<1> DEFINE rest(v)  == v \ {First(v)}
           value(v) == IF v = {} THEN 0 ELSE f[First(v)] + SumsOn(f, rest(v))[rest(v)]
           h == [v \in SUBSET u |-> value(v)]
<1>1. ASSUME NEW v \in SUBSET u, v # u
      PROVE  /\ SumsOn(f, v) \in [SUBSET v -> Nat] /\ Sums(SumsOn(f, v), f, v)
             /\ SumsOn(f, v)[v] \in Nat
  <2>1. Summable(f, v)
    BY <1>1
  <2>2. SumsOn(f, v) \in [SUBSET v -> Nat] /\ Sums(SumsOn(f, v), f, v)
    BY <2>1, SumsOnType
  <2>3. v \in SUBSET v
    OBVIOUS
  <2> QED
    BY <2>2, <2>3
<1>2. ASSUME NEW v \in SUBSET u, v # {}
      PROVE  /\ First(v) \in v /\ rest(v) \in SUBSET v /\ rest(v) \in SUBSET u
             /\ rest(v) # u /\ f[First(v)] \in Nat
  <2>1. First(v) \in v
    BY <1>2 DEF First
  <2> QED
    BY <2>1
<1> HIDE DEF rest
<1>3. ASSUME NEW v \in SUBSET u
      PROVE  value(v) \in Nat
  <2>1. CASE v = {}
    BY <2>1
  <2>2. CASE v # {}
    <3>1. f[First(v)] \in Nat /\ rest(v) \in SUBSET u /\ rest(v) # u
      BY <1>2, <2>2
    <3>2. SumsOn(f, rest(v))[rest(v)] \in Nat
      BY <1>1, <3>1
    <3> QED
      BY <2>2, <3>1, <3>2
  <2> QED
    BY <2>1, <2>2
<1>4. ASSUME NEW v \in SUBSET u, v # u
      PROVE  value(v) = SumsOn(f, v)[v]
  <2>1. CASE v = {}
    <3>1. SumsOn(f, v)[{}] = 0
      BY <1>1, <1>4, SumsEmpty
    <3> QED
      BY <2>1, <3>1
  <2>2. CASE v # {}
    <3>1. Sums(SumsOn(f, v), f, v) /\ v \in SUBSET v
      BY <1>1, <1>4
    <3>2. SumsOn(f, v)[v] = f[First(v)] + SumsOn(f, v)[rest(v)]
      BY <2>2, <3>1, SumsAt DEF rest
    <3>3. rest(v) \in SUBSET v /\ rest(v) \in SUBSET u /\ rest(v) # u
      BY <1>2, <2>2
    <3>4. Sums(SumsOn(f, rest(v)), f, rest(v)) /\ IsFiniteSet(rest(v))
      BY <1>1, <3>3, FS_Subset
    <3>5. SumsOn(f, v)[rest(v)] = SumsOn(f, rest(v))[rest(v)]
      BY <3>1, <3>3, <3>4, SumsAgree
    <3> QED
      BY <2>2, <3>2, <3>5
  <2> QED
    BY <2>1, <2>2
<1>5. ASSUME NEW v \in SUBSET u
      PROVE  value(v) = IF v = {} THEN 0 ELSE f[First(v)] + value(rest(v))
  BY <1>2, <1>4
<1> HIDE DEF value
<1>6. h \in [SUBSET u -> Nat]
  BY <1>3
<1>7. \A v \in SUBSET u : h[v] = value(v)
  OBVIOUS
<1>8. \A v \in SUBSET u : h[v] = IF v = {} THEN 0 ELSE f[First(v)] + h[rest(v)]
  <2> TAKE v \in SUBSET u
  <2>1. CASE v = {}
    BY <1>5, <2>1
  <2>2. CASE v # {}
    BY <1>2, <1>5, <1>7, <2>2
  <2> QED
    BY <2>1, <2>2
<1> HIDE DEF h
<1>9. h = [v \in SUBSET u |-> IF v = {} THEN 0 ELSE f[First(v)] + h[rest(v)]]
  <2>1. h = [v \in SUBSET u |-> h[v]]
    BY <1>6
  <2> QED
    BY <1>8, <2>1
<1> QED
  BY <1>6, <1>9 DEF Summable, Sums, rest

LEMMA SumsExist ==
  ASSUME NEW S, IsFiniteSet(S), NEW f \in [S -> Nat]
  PROVE  Summable(f, S)
<1> DEFINE Bad == {u \in SUBSET S : ~ Summable(f, u)}
<1> SUFFICES ASSUME Bad # {}
             PROVE  FALSE
  OBVIOUS
<1>0. Bad \subseteq SUBSET S /\ \A u \in SUBSET S : u \in Bad <=> ~ Summable(f, u)
  OBVIOUS
<1> HIDE DEF Bad
<1>1. PICK u \in Bad : \A v \in SUBSET u : v # u => v \notin Bad
  BY <1>0, SmallestSubset
<1>2. u \in SUBSET S /\ \A v \in SUBSET u : v # u => Summable(f, v)
  BY <1>0, <1>1
<1> QED
  BY <1>0, <1>1, <1>2, SumsStep

LEMMA SumOfSums ==
  ASSUME NEW S, IsFiniteSet(S), NEW f \in [S -> Nat]
  PROVE  \E g \in [SUBSET S -> Nat] : Sums(g, f, S) /\ SumOf(f, S) = g[S]
<1> DEFINE it == CHOOSE g : Sums(g, f, S)
<1>1. SumOf(f, S) = it[S]
  BY DEF SumOf, MapThenSumSet, MapThenFoldSet, Sums, First
<1>2. PICK g \in [SUBSET S -> Nat] : Sums(g, f, S)
  BY SumsExist DEF Summable
<1>3. Sums(it, f, S)
  BY <1>2
<1> HIDE DEF it
<1>4. it[S] = g[S]
  BY <1>2, <1>3, SumsAgree
<1> QED
  BY <1>1, <1>2, <1>4

LEMMA SumOfType ==
  ASSUME NEW S, IsFiniteSet(S), NEW f \in [S -> Nat]
  PROVE  SumOf(f, S) \in Nat
<1>1. PICK g \in [SUBSET S -> Nat] : Sums(g, f, S) /\ SumOf(f, S) = g[S]
  BY SumOfSums
<1>2. S \in SUBSET S
  OBVIOUS
<1> QED
  BY <1>1, <1>2

(* The sum follows a change of one summand.                                *)
LEMMA SumChanges ==
  ASSUME NEW S, IsFiniteSet(S), NEW f \in [S -> Nat], NEW a \in S, NEW d \in Nat,
         NEW e \in [S -> Nat], e = [f EXCEPT ![a] = @ + d]
  PROVE  SumOf(e, S) = SumOf(f, S) + d
<1>1. PICK g \in [SUBSET S -> Nat] : Sums(g, f, S) /\ SumOf(f, S) = g[S]
  BY SumOfSums
<1>2. PICK h \in [SUBSET S -> Nat] : Sums(h, e, S) /\ SumOf(e, S) = h[S]
  BY SumOfSums
<1> DEFINE Extra(w) == IF a \in w THEN d ELSE 0
           Bad == {w \in SUBSET S : h[w] # g[w] + Extra(w)}
<1> SUFFICES ASSUME Bad # {}
             PROVE  FALSE
  BY <1>1, <1>2
<1>0. Bad \subseteq SUBSET S
      /\ \A w \in SUBSET S : w \in Bad <=> h[w] # g[w] + Extra(w)
  OBVIOUS
<1> HIDE DEF Bad
<1>3. PICK w \in Bad : \A x \in SUBSET w : x # w => x \notin Bad
  BY <1>0, SmallestSubset
<1>4. w \in SUBSET S /\ h[w] # g[w] + Extra(w)
  BY <1>0, <1>3
<1>5. w # {}
  <2>1. g[{}] = 0
    BY <1>1, SumsEmpty
  <2>2. h[{}] = 0
    BY <1>2, SumsEmpty
  <2>3. w = {} => h[w] = g[w] + Extra(w)
    BY <2>1, <2>2
  <2> QED
    BY <1>4, <2>3
<1>6. PICK y \in w, x \in SUBSET w : /\ x = w \ {y}
                                      /\ g[w] = f[y] + g[x]
                                      /\ h[w] = e[y] + h[x]
  <2>1. Sums(g, f, S)
    BY <1>1
  <2>2. Sums(h, e, S)
    BY <1>2
  <2>3. w \in SUBSET S
    BY <1>4
  <2>4. SameStep(f, e, g, h, w)
    BY <2>1, <2>2, <2>3, <1>5, SumsBothAt
  <2> QED
    BY <2>4 DEF SameStep
<1>8. x \in SUBSET S /\ x # w /\ (a \in x <=> a \in w /\ a # y)
  BY <1>4, <1>6
<1>9. h[x] = g[x] + Extra(x)
  BY <1>0, <1>3, <1>6, <1>8
<1>10. e[y] = f[y] + (IF y = a THEN d ELSE 0)
  BY <1>4, <1>6
<1>11. g[x] \in Nat /\ f[y] \in Nat
  BY <1>4, <1>8
<1>12. CASE y = a
  BY <1>4, <1>6, <1>8, <1>9, <1>10, <1>11, <1>12
<1>13. CASE y # a
  BY <1>4, <1>6, <1>8, <1>9, <1>10, <1>11, <1>13
<1> QED
  BY <1>12, <1>13

LEMMA SumMonotone ==
  ASSUME NEW S, IsFiniteSet(S), NEW f \in [S -> Nat], NEW e \in [S -> Nat],
         \A x \in S : f[x] <= e[x]
  PROVE  SumOf(f, S) <= SumOf(e, S)
<1>1. PICK g \in [SUBSET S -> Nat] : Sums(g, f, S) /\ SumOf(f, S) = g[S]
  BY SumOfSums
<1>2. PICK h \in [SUBSET S -> Nat] : Sums(h, e, S) /\ SumOf(e, S) = h[S]
  BY SumOfSums
<1> DEFINE Bad == {w \in SUBSET S : ~ g[w] <= h[w]}
<1> SUFFICES ASSUME Bad # {}
             PROVE  FALSE
  BY <1>1, <1>2
<1>0. Bad \subseteq SUBSET S /\ \A w \in SUBSET S : w \in Bad <=> ~ g[w] <= h[w]
  OBVIOUS
<1> HIDE DEF Bad
<1>3. PICK w \in Bad : \A x \in SUBSET w : x # w => x \notin Bad
  BY <1>0, SmallestSubset
<1>4. w \in SUBSET S /\ ~ g[w] <= h[w]
  BY <1>0, <1>3
<1>5. w # {}
  <2>1. g[{}] = 0
    BY <1>1, SumsEmpty
  <2>2. h[{}] = 0
    BY <1>2, SumsEmpty
  <2>3. w = {} => g[w] <= h[w]
    BY <2>1, <2>2
  <2> QED
    BY <1>4, <2>3
<1>6. PICK y \in w, x \in SUBSET w : /\ x = w \ {y}
                                      /\ g[w] = f[y] + g[x]
                                      /\ h[w] = e[y] + h[x]
  <2>1. Sums(g, f, S)
    BY <1>1
  <2>2. Sums(h, e, S)
    BY <1>2
  <2>3. w \in SUBSET S
    BY <1>4
  <2>4. SameStep(f, e, g, h, w)
    BY <2>1, <2>2, <2>3, <1>5, SumsBothAt
  <2> QED
    BY <2>4 DEF SameStep
<1>7. x \in SUBSET S /\ x # w
  BY <1>4, <1>6
<1>8. g[x] <= h[x]
  BY <1>0, <1>3, <1>6, <1>7
<1>9. g[x] \in Nat /\ h[x] \in Nat /\ f[y] \in Nat /\ e[y] \in Nat /\ f[y] <= e[y]
  BY <1>4, <1>7
<1> QED
  BY <1>4, <1>6, <1>8, <1>9

-----------------------------------------------------------------------------
(* Remainders of a word.                                                   *)

LEMMA Remainder ==
  ASSUME NEW x \in Int
  PROVE  /\ x \div Word \in Int
         /\ x % Word \in 0 .. Word - 1
         /\ x = Word * (x \div Word) + (x % Word)
BY WordAssumption

LEMMA SmallMultiple ==
  ASSUME NEW n \in Int, -Word < Word * n, Word * n < Word
  PROVE  n = 0
<1>1. n >= 1 => Word * n >= Word
  BY WordAssumption
<1>2. n <= -1 => Word * n <= -Word
  BY WordAssumption
<1> QED
  BY <1>1, <1>2, WordAssumption

LEMMA RemainderIs ==
  ASSUME NEW x \in Int, NEW n \in Int, NEW r \in 0 .. Word - 1, x = Word * n + r
  PROVE  x % Word = r
<1> DEFINE m == x \div Word
           s == x % Word
<1>1. m \in Int /\ s \in 0 .. Word - 1 /\ x = Word * m + s
  BY Remainder
<1> HIDE DEF m, s
<1>2. Word * (n - m) = s - r
  <2>1. Word * (n - m) = Word * n - Word * m
    BY <1>1, WordAssumption
  <2> QED
    BY <1>1, <2>1, WordAssumption
<1>3. n - m = 0
  <2>1. n - m \in Int /\ -Word < Word * (n - m) /\ Word * (n - m) < Word
    BY <1>1, <1>2, WordAssumption
  <2> QED
    BY <2>1, SmallMultiple
<1>4. s = r
  BY <1>1, <1>2, <1>3, WordAssumption
<1> QED
  BY <1>4 DEF s

LEMMA SameRemainder ==
  ASSUME NEW x \in Int, NEW y \in Int
  PROVE  (x - y) % Word = 0 <=> x % Word = y % Word
<1> DEFINE m == x \div Word
           n == y \div Word
           r == x % Word
           s == y % Word
           l == (x - y) \div Word
<1>1. m \in Int /\ r \in 0 .. Word - 1 /\ x = Word * m + r
  BY Remainder
<1>2. n \in Int /\ s \in 0 .. Word - 1 /\ y = Word * n + s
  BY Remainder
<1>3. l \in Int /\ x - y = Word * l + ((x - y) % Word)
  BY Remainder
<1>4. ASSUME (x - y) % Word = 0
      PROVE  r = s
  <2> HIDE DEF m, n, r, s, l
  <2>1. Word * (l + n) = Word * l + Word * n
    BY <1>1, <1>2, <1>3, WordAssumption
  <2>2. l + n \in Int /\ x = Word * (l + n) + s
    BY <1>1, <1>2, <1>3, <1>4, <2>1, WordAssumption
  <2>3. x % Word = s
    BY <1>2, <2>2, RemainderIs
  <2> QED
    BY <2>3 DEF r
<1>5. ASSUME r = s
      PROVE  (x - y) % Word = 0
  <2> HIDE DEF m, n, r, s, l
  <2>1. Word * (m - n) = Word * m - Word * n
    BY <1>1, <1>2, WordAssumption
  <2>2. m - n \in Int /\ x - y = Word * (m - n) + 0 /\ x - y \in Int /\ 0 \in 0 .. Word - 1
    BY <1>1, <1>2, <1>5, <2>1, WordAssumption
  <2> QED
    BY <2>2, RemainderIs
<1> QED
  BY <1>4, <1>5

-----------------------------------------------------------------------------
(* Values of counters.                                                     *)

(* value() is the sum of the increments less that of the decrements.       *)
LEMMA ValueOf ==
  ASSUME NEW c \in Counter
  PROVE  /\ Value(c) = SumOf(c.pos, Origin) - SumOf(c.neg, Origin)
         /\ SumOf(c.pos, Origin) \in Nat
         /\ SumOf(c.neg, Origin) \in Nat
         /\ Value(c) \in Int
<1>1. c.pos \in [Origin -> Nat] /\ c.neg \in [Origin -> Nat]
  BY DEF Counter
<1>2. SumOf(c.pos, Origin) \in Nat /\ SumOf(c.neg, Origin) \in Nat
  BY <1>1, OriginAssumption, SumOfType
<1>3. Value(c) = SumOf(c.pos, Origin) - SumOf(c.neg, Origin)
  BY DEF Value, SumOf
<1> QED
  BY <1>2, <1>3

LEMMA IncrementValue ==
  ASSUME NEW c \in Counter, NEW o \in Origin, NEW d \in Nat \ {0}
  PROVE  Value(Increment(c, o, d)) = Value(c) + d
<1> DEFINE e == Increment(c, o, d)
<1>1. e \in Counter
  BY IncrementType
<1>2. e.pos = [c.pos EXCEPT ![o] = @ + d] /\ e.neg = c.neg
  BY DEF Increment, Counter
<1>3. c.pos \in [Origin -> Nat] /\ e.pos \in [Origin -> Nat]
  BY <1>1 DEF Counter
<1> HIDE DEF e
<1>4. SumOf(e.pos, Origin) = SumOf(c.pos, Origin) + d
  BY <1>2, <1>3, OriginAssumption, SumChanges
<1>5. Value(e) = SumOf(e.pos, Origin) - SumOf(c.neg, Origin)
  BY <1>1, <1>2, ValueOf
<1> QED
  BY <1>4, <1>5, ValueOf DEF e

LEMMA DecrementValue ==
  ASSUME NEW c \in Counter, NEW o \in Origin, NEW d \in Nat \ {0}
  PROVE  Value(Decrement(c, o, d)) = Value(c) - d
<1> DEFINE e == Decrement(c, o, d)
<1>1. e \in Counter
  BY DecrementType
<1>2. e.neg = [c.neg EXCEPT ![o] = @ + d] /\ e.pos = c.pos
  BY DEF Decrement, Counter
<1>3. c.neg \in [Origin -> Nat] /\ e.neg \in [Origin -> Nat]
  BY <1>1 DEF Counter
<1> HIDE DEF e
<1>4. SumOf(e.neg, Origin) = SumOf(c.neg, Origin) + d
  BY <1>2, <1>3, OriginAssumption, SumChanges
<1>5. Value(e) = SumOf(c.pos, Origin) - SumOf(e.neg, Origin)
  BY <1>1, <1>2, ValueOf
<1> QED
  BY <1>4, <1>5, ValueOf DEF e

(* The three ways in which a setter goes.                                  *)
LEMMA SetQuantityCases ==
  ASSUME NEW c \in Counter, NEW o \in Origin, NEW q \in Int
  PROVE  \/ \E d \in 1 .. MaxInt :
              IsDiff(c, q, d) /\ SetQuantity(c, o, q) = Increment(c, o, d)
         \/ \E d \in 1 .. MaxInt :
              IsDiff(c, q, 0 - d) /\ SetQuantity(c, o, q) = Decrement(c, o, d)
         \/ /\ SetQuantity(c, o, q) = c
            /\ \A d \in 1 .. MaxInt : ~ IsDiff(c, q, d) /\ ~ IsDiff(c, q, 0 - d)
<1> DEFINE up   == {d \in 1 .. MaxInt : IsDiff(c, q, d)}
           down == {d \in 1 .. MaxInt : IsDiff(c, q, 0 - d)}
           u    == CHOOSE d \in up : TRUE
           v    == CHOOSE d \in down : TRUE
<1>1. SetQuantity(c, o, q) =
        CASE up # {}                -> Increment(c, o, u)
          [] up = {} /\ down # {}   -> Decrement(c, o, v)
          [] OTHER                  -> c
  BY DEF SetQuantity
<1>2. up # {} => u \in up
  OBVIOUS
<1>3. down # {} => v \in down
  OBVIOUS
<1>4. /\ \A d : d \in up <=> d \in 1 .. MaxInt /\ IsDiff(c, q, d)
      /\ \A d : d \in down <=> d \in 1 .. MaxInt /\ IsDiff(c, q, 0 - d)
  OBVIOUS
<1> HIDE DEF up, down, u, v
<1>5. CASE up # {}
  BY <1>1, <1>2, <1>4, <1>5
<1>6. CASE up = {} /\ down # {}
  BY <1>1, <1>3, <1>4, <1>6
<1>7. CASE up = {} /\ down = {}
  BY <1>1, <1>4, <1>7
<1> QED
  BY <1>5, <1>6, <1>7

LEMMA HalfWord ==
  /\ MaxInt \in Int
  /\ 2 * MaxInt + 2 = Word
  /\ MaxInt >= 0
<1>1. Word = 2 * (Word \div 2) /\ Word \div 2 \in Int
  BY WordAssumption
<1> QED
  BY <1>1, WordAssumption DEF MaxInt

(* A setter leads to the quantity it is given, except that a difference of *)
(* INT32_MIN is dropped.                                                   *)
LEMMA SetQuantityShows ==
  ASSUME NEW c \in Counter, NEW o \in Origin, NEW q \in Int
  PROVE  Shown(SetQuantity(c, o, q)) =
           IF 2 * ((q - Value(c)) % Word) = Word THEN Shown(c) ELSE q % Word
<1> DEFINE v == Value(c)
           k == (q - v) % Word
<1>1. v \in Int /\ k \in 0 .. Word - 1
  BY ValueOf, Remainder
<1>2. \A d \in Int : IsDiff(c, q, d) <=> d % Word = k
  <2> TAKE d \in Int
  <2>1. IsDiff(c, q, d) <=> (d - (q - v)) % Word = 0
    <3>1. v + d - q = d - (q - v)
      BY <1>1
    <3> QED
      BY <3>1 DEF IsDiff
  <2>2. (d - (q - v)) % Word = 0 <=> d % Word = k
    <3>1. q - v \in Int
      BY <1>1
    <3> HIDE DEF v
    <3> QED
      BY <3>1, SameRemainder
  <2> QED
    BY <2>1, <2>2
<1>3. \A d \in Int : IsDiff(c, q, d) <=> (v + d) % Word = q % Word
  <2> TAKE d \in Int
  <2> DEFINE x == v + d
  <2>1. x \in Int
    BY <1>1
  <2>2. (x - q) % Word = 0 <=> x % Word = q % Word
    <3> HIDE DEF x
    <3> QED
      BY <2>1, SameRemainder
  <2>3. v + d - q = x - q
    BY <1>1
  <2> QED
    BY <2>2, <2>3 DEF IsDiff
<1> HIDE DEF v, k
<1>4. \A d \in 1 .. MaxInt : d % Word = d /\ (0 - d) % Word = Word - d
  <2> TAKE d \in 1 .. MaxInt
  <2>1. d \in 0 .. Word - 1 /\ Word - d \in 0 .. Word - 1 /\ d \in Int /\ 0 - d \in Int
    BY HalfWord, WordAssumption
  <2>2. d = Word * 0 + d /\ 0 - d = Word * (-1) + (Word - d)
    BY <2>1, WordAssumption
  <2>3. d % Word = d
    BY <2>1, <2>2, RemainderIs
  <2>4. (0 - d) % Word = Word - d
    BY <2>1, <2>2, RemainderIs
  <2> QED
    BY <2>3, <2>4
<1>5. ASSUME NEW d \in 1 .. MaxInt, IsDiff(c, q, d),
             SetQuantity(c, o, q) = Increment(c, o, d)
      PROVE  Shown(SetQuantity(c, o, q)) = q % Word /\ 2 * k # Word
  <2>1. d \in Int /\ d \in Nat \ {0}
    BY HalfWord
  <2>2. Value(Increment(c, o, d)) = v + d
    BY <2>1, IncrementValue DEF v
  <2>3. k = d
    BY <1>2, <1>4, <1>5, <2>1
  <2> QED
    BY <1>3, <1>5, <2>1, <2>2, <2>3, HalfWord DEF Shown
<1>6. ASSUME NEW d \in 1 .. MaxInt, IsDiff(c, q, 0 - d),
             SetQuantity(c, o, q) = Decrement(c, o, d)
      PROVE  Shown(SetQuantity(c, o, q)) = q % Word /\ 2 * k # Word
  <2>1. 0 - d \in Int /\ d \in Nat \ {0}
    BY HalfWord
  <2>2. Value(Decrement(c, o, d)) = v + (0 - d)
    BY <1>1, <2>1, DecrementValue DEF v
  <2>3. k = Word - d
    BY <1>2, <1>4, <1>6, <2>1
  <2> QED
    BY <1>3, <1>6, <2>1, <2>2, <2>3, HalfWord, WordAssumption DEF Shown
<1>7. ASSUME \A d \in 1 .. MaxInt : ~ IsDiff(c, q, d) /\ ~ IsDiff(c, q, 0 - d),
             SetQuantity(c, o, q) = c
      PROVE  /\ 2 * k # Word => k = 0
             /\ k = 0 => Shown(c) = q % Word
  <2>1. k \notin 1 .. MaxInt
    BY <1>2, <1>4, <1>7, HalfWord
  <2>2. Word - k \notin 1 .. MaxInt
    <3> SUFFICES ASSUME Word - k \in 1 .. MaxInt
                 PROVE  FALSE
      OBVIOUS
    <3>1. 0 - (Word - k) \in Int /\ (0 - (Word - k)) % Word = Word - (Word - k)
      BY <1>4, HalfWord
    <3>2. Word - (Word - k) = k
      BY <1>1, WordAssumption
    <3> QED
      BY <1>2, <1>7, <3>1, <3>2
  <2>3. 2 * k # Word => k = 0
    BY <1>1, <2>1, <2>2, HalfWord, WordAssumption
  <2>4. ASSUME k = 0
        PROVE  Shown(c) = q % Word
    <3>1. 0 % Word = 0
      BY <1>1, RemainderIs, WordAssumption
    <3>2. (v + 0) % Word = q % Word
      BY <1>2, <1>3, <2>4, <3>1
    <3> QED
      BY <1>1, <3>2 DEF Shown, v
  <2> QED
    BY <2>3, <2>4
<1>8. Shown(SetQuantity(c, o, q)) = IF 2 * k = Word THEN Shown(c) ELSE q % Word
  BY <1>5, <1>6, <1>7, SetQuantityCases
<1> QED
  BY <1>8 DEF k, v

(***************************************************************************)
(* Natural values.  A counter that only one origin has lowered has not     *)
(* been lowered below zero: that origin stops at a quantity, and whatever  *)
(* it saw when it did comes along with its decrements.                     *)
(***************************************************************************)
Natural(c) ==
  \A o \in Origin : (\A p \in Origin \ {o} : c.neg[p] = 0) => Value(c) >= 0

LEMMA NaturalRaise ==
  ASSUME NEW c \in Counter, NEW e \in Counter, Natural(c), Value(e) >= Value(c),
         e.neg = c.neg
  PROVE  Natural(e)
<1>1. Value(c) \in Int /\ Value(e) \in Int
  BY ValueOf
<1> QED
  BY <1>1 DEF Natural

LEMMA NaturalZero == Natural(ZeroCounter)
<1> DEFINE z == [o \in Origin |-> 0]
<1>1. Value(ZeroCounter) = SumOf(z, Origin) - SumOf(z, Origin)
  BY ZeroCounterType, ValueOf DEF ZeroCounter
<1>2. SumOf(z, Origin) \in Nat
  BY OriginAssumption, SumOfType
<1> HIDE DEF z
<1> QED
  BY <1>1, <1>2 DEF Natural

LEMMA NaturalNew ==
  ASSUME NEW o \in Origin, NEW body \in Body
  PROVE  Natural(NewItem(o, body).desired) /\ Natural(NewItem(o, body).current)
<1>1. ASSUME NEW delta \in Nat
      PROVE  Natural(Increment(ZeroCounter, o, delta))
  <2>1. CASE delta = 0
    BY <2>1, NaturalZero DEF Increment
  <2>2. CASE delta # 0
    <3>1. Value(Increment(ZeroCounter, o, delta)) = Value(ZeroCounter) + delta
      BY <2>2, ZeroCounterType, IncrementValue
    <3>2. Increment(ZeroCounter, o, delta).neg = ZeroCounter.neg
      BY DEF Increment, ZeroCounter
    <3>3. Value(ZeroCounter) \in Int
      BY ZeroCounterType, ValueOf
    <3>4. Value(Increment(ZeroCounter, o, delta)) >= Value(ZeroCounter)
      BY <3>1, <3>3
    <3>5. Increment(ZeroCounter, o, delta) \in Counter
      BY ZeroCounterType, IncrementType
    <3> QED
      BY <3>2, <3>4, <3>5, NaturalZero, NaturalRaise, ZeroCounterType
  <2> QED
    BY <2>1, <2>2
<1>2. body.desired \in Int /\ body.current \in Int
  BY BodyAssumption, QuantityAssumption
<1>3. body.desired % Word \in Nat /\ body.current % Word \in Nat
  BY <1>2, Remainder, WordAssumption
<1> QED
  BY <1>1, <1>3 DEF NewItem

(* Lowering a value that is at least 0 to a quantity leaves one that is.   *)
LEMMA NaturalSet ==
  ASSUME NEW c \in Counter, Natural(c), NEW o \in Origin, NEW q \in 0 .. MaxInt
  PROVE  Natural(SetQuantity(c, o, q))
<1>0. q \in Int /\ Value(c) \in Int
  BY HalfWord, ValueOf
<1>1. ASSUME NEW d \in 1 .. MaxInt
      PROVE  Natural(Increment(c, o, d))
  <2>1. d \in Int /\ d \in Nat \ {0}
    BY HalfWord
  <2>2. Value(Increment(c, o, d)) >= Value(c)
    BY <1>0, <2>1, IncrementValue
  <2>3. Increment(c, o, d) \in Counter /\ Increment(c, o, d).neg = c.neg
    BY <2>1, IncrementType DEF Increment, Counter
  <2> QED
    BY <2>2, <2>3, NaturalRaise
<1>2. ASSUME NEW d \in 1 .. MaxInt, IsDiff(c, q, 0 - d)
      PROVE  Natural(Decrement(c, o, d))
  <2> DEFINE e == Decrement(c, o, d)
  <2>1. d \in Int /\ d \in Nat \ {0}
    BY HalfWord
  <2>2. Value(e) = Value(c) - d
    BY <2>1, DecrementValue
  <2>3. e.neg = [c.neg EXCEPT ![o] = @ + d] /\ c.neg \in [Origin -> Nat]
    BY <2>1 DEF Decrement, Counter
  <2> HIDE DEF e
  <2>4. ASSUME Value(c) >= 0
        PROVE  Value(e) >= 0
    <3> DEFINE x == Value(c) - d - q
               n == x \div Word
    <3>1. x \in Int /\ x % Word = 0
      <4>1. x = Value(c) + (0 - d) - q
        BY <1>0, <2>1
      <4>2. (Value(c) + (0 - d) - q) % Word = 0
        BY <1>2 DEF IsDiff
      <4>3. x \in Int
        BY <1>0, <2>1
      <4> HIDE DEF x
      <4>4. x % Word = 0
        BY <4>1, <4>2, Zenon
      <4> QED
        BY <4>3, <4>4
    <3>2. x = Value(e) - q /\ x >= -MaxInt - MaxInt
      BY <1>0, <2>1, <2>2, <2>4, HalfWord
    <3> HIDE DEF x
    <3>3. x = Word * n /\ n \in Int
      <4>1. n \in Int /\ x = Word * n + (x % Word)
        BY <3>1, Remainder
      <4> QED
        BY <3>1, <4>1, WordAssumption
    <3> HIDE DEF n
    <3>4. x > -Word
      BY <3>1, <3>2, HalfWord
    <3>5. CASE x < 0
      <4>1. n = 0
        BY <3>3, <3>4, <3>5, SmallMultiple, WordAssumption
      <4> QED
        BY <3>3, <3>5, <4>1, WordAssumption
    <3>6. CASE x >= 0
      BY <1>0, <2>1, <2>2, <3>1, <3>2, <3>6, HalfWord
    <3> QED
      BY <3>1, <3>5, <3>6
  <2>5. ASSUME NEW s \in Origin, \A p \in Origin \ {s} : e.neg[p] = 0
        PROVE  \A p \in Origin \ {s} : c.neg[p] = 0
    BY <2>1, <2>3, <2>5
  <2> QED
    BY <2>4, <2>5 DEF Natural, e
<1> QED
  BY <1>0, <1>1, <1>2, SetQuantityCases

LEMMA NaturalMerge ==
  ASSUME NEW c \in Counter, NEW d \in Counter, Natural(c), Natural(d)
  PROVE  Natural(CounterMerge(c, d))
<1> DEFINE m == CounterMerge(c, d)
<1>1. m \in Counter
  BY CounterMergeType
<1>2. \A p \in Origin : /\ c.pos[p] \in Nat /\ d.pos[p] \in Nat /\ m.pos[p] \in Nat
                        /\ c.neg[p] \in Nat /\ d.neg[p] \in Nat
                        /\ m.pos[p] >= c.pos[p] /\ m.pos[p] >= d.pos[p]
                        /\ m.neg[p] >= c.neg[p] /\ m.neg[p] >= d.neg[p]
                        /\ m.neg[p] = c.neg[p] \/ m.neg[p] = d.neg[p]
  BY DEF Counter, CounterMerge, Larger
<1> HIDE DEF m
<1>3. ASSUME NEW e \in Counter, Natural(e), NEW o \in Origin,
             \A p \in Origin : m.pos[p] >= e.pos[p],
             m.neg = e.neg, \A p \in Origin \ {o} : m.neg[p] = 0
      PROVE  Value(m) >= 0
  <2>1. e.pos \in [Origin -> Nat] /\ m.pos \in [Origin -> Nat]
    BY <1>1 DEF Counter
  <2>2. \A p \in Origin : e.pos[p] <= m.pos[p]
    BY <1>3, <2>1
  <2>3. SumOf(e.pos, Origin) <= SumOf(m.pos, Origin)
    BY <2>1, <2>2, OriginAssumption, SumMonotone
  <2>4. Value(e) >= 0
    BY <1>3 DEF Natural
  <2>5. Value(m) = SumOf(m.pos, Origin) - SumOf(e.neg, Origin)
    BY <1>1, <1>3, ValueOf
  <2>6. Value(e) = SumOf(e.pos, Origin) - SumOf(e.neg, Origin)
        /\ SumOf(e.pos, Origin) \in Nat /\ SumOf(e.neg, Origin) \in Nat
    BY ValueOf
  <2>7. SumOf(m.pos, Origin) \in Nat
    BY <1>1, ValueOf
  <2> QED
    BY <2>3, <2>4, <2>5, <2>6, <2>7
<1>4. ASSUME NEW o \in Origin, \A p \in Origin \ {o} : m.neg[p] = 0
      PROVE  Value(m) >= 0
  <2>1. \A p \in Origin \ {o} : c.neg[p] = 0 /\ d.neg[p] = 0
    BY <1>2, <1>4
  <2>2. /\ m.neg \in [Origin -> Nat]
        /\ c.neg \in [Origin -> Nat]
        /\ d.neg \in [Origin -> Nat]
    BY <1>1 DEF Counter
  <2>3. CASE m.neg[o] = c.neg[o]
    <3>1. \A p \in Origin : m.neg[p] = c.neg[p]
      BY <1>4, <2>1, <2>3
    <3>2. m.neg = c.neg
      BY <2>2, <3>1
    <3> QED
      BY <1>2, <1>3, <1>4, <3>2
  <2>4. CASE m.neg[o] = d.neg[o]
    <3>1. \A p \in Origin : m.neg[p] = d.neg[p]
      BY <1>4, <2>1, <2>4
    <3>2. m.neg = d.neg
      BY <2>2, <3>1
    <3> QED
      BY <1>2, <1>3, <1>4, <3>2
  <2> QED
    BY <1>2, <2>3, <2>4
<1> QED
  BY <1>4 DEF Natural, m

LEMMA NaturalElementMerge ==
  ASSUME NEW e \in Item \cup {NoItem}, NEW f \in Item \cup {NoItem},
         Natural(Desired(e)), Natural(Current(e)),
         Natural(Desired(f)), Natural(Current(f))
  PROVE  /\ Natural(Desired(ElementMerge(e, f)))
         /\ Natural(Current(ElementMerge(e, f)))
<1>1. CASE f = NoItem
  BY <1>1 DEF ElementMerge
<1>2. CASE f # NoItem /\ e = NoItem
  BY <1>2 DEF ElementMerge
<1>3. CASE f # NoItem /\ e # NoItem
  <2>1. ElementMerge(e, f) = ItemMerge(e, f) /\ ItemMerge(e, f) # NoItem
    BY <1>3, ItemMergeType, NoItemAssumption DEF ElementMerge
  <2>2. /\ Desired(ItemMerge(e, f)) = CounterMerge(Desired(e), Desired(f))
        /\ Current(ItemMerge(e, f)) = CounterMerge(Current(e), Current(f))
    BY <1>3, <2>1 DEF Desired, Current, ItemMerge
  <2> QED
    BY <2>1, <2>2, ElementCounters, NaturalMerge
<1> QED
  BY <1>1, <1>2, <1>3

=============================================================================
