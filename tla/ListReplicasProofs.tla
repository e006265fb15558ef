-------------------------- MODULE ListReplicasProofs --------------------------
(***************************************************************************)
(* Theorems about ListReplicas, for any number of origins, items and       *)
(* quantities, any word size and either reading of the clock.              *)
(***************************************************************************)
EXTENDS ListReplicas, ShoppingListProofs

(* The inductive invariant behind all of them: an item can only be added   *)
(* over nothing because lists are well formed.                             *)
IndInv == TypeOK /\ WellFormed

LEMMA IndInvInit == Init => IndInv
<1> SUFFICES ASSUME Init
             PROVE  IndInv
  OBVIOUS
<1>1. NewList(EmptyName) \in List /\ WellFormedSet(NewList(EmptyName).items)
  BY EmptyNameAssumption, NewListType
<1> QED
  BY <1>1, ClockAssumption DEF Init, IndInv, TypeOK, WellFormed

(* One copy changes to a list that is a list and well formed.              *)
LEMMA OneCopyChanges ==
  ASSUME IndInv, NEW r \in Origin, NEW lst \in List, WellFormedSet(lst.items),
         copy' = [copy EXCEPT ![r] = lst], clock' \in 0 .. MaxClock
  PROVE  IndInv'
BY DEF IndInv, TypeOK, WellFormed

LEMMA IndInvNext == IndInv /\ [Next]_vars => IndInv'
<1> SUFFICES ASSUME IndInv, [Next]_vars
             PROVE  IndInv'
  OBVIOUS
<1>0. /\ copy \in [Origin -> List] /\ clock \in 0 .. MaxClock
      /\ \A r \in Origin : WellFormedSet(copy[r].items)
  BY DEF IndInv, TypeOK, WellFormed
<1>1. ASSUME NEW r \in Origin, NEW uid \in ItemUid, NEW body \in Body,
             AddItem(r, uid, body)
      PROVE  IndInv'
  <2>1. PICK tag \in 1 .. MaxClock :
          GenTag(r, uid, tag) /\ copy' = [copy EXCEPT ![r] = ListAdd(@, uid, r, body, tag)]
    BY <1>1 DEF AddItem
  <2>2. tag \in Tag /\ clock' \in 0 .. MaxClock
    BY <2>1, ClockAssumption DEF GenTag, Tag
  <2>3. copy[r].items.elements[uid] = NoItem
    BY <1>0, <1>1 DEF AddItem, WellFormedSet
  <2>4. /\ ListAdd(copy[r], uid, r, body, tag) \in List
        /\ WellFormedSet(ListAdd(copy[r], uid, r, body, tag).items)
    BY <1>0, <2>2, <2>3, ListAddType
  <2> QED
    BY <2>1, <2>2, <2>4, OneCopyChanges
<1>2. ASSUME NEW r \in Origin, NEW uid \in ItemUid, NEW body \in Body,
             UpdateItem(r, uid, body)
      PROVE  IndInv'
  <2>1. PICK tag \in 1 .. MaxClock :
          GenTag(r, uid, tag) /\ copy' = [copy EXCEPT ![r] = ListUpdate(@, uid, r, body, tag)]
    BY <1>2 DEF UpdateItem
  <2>2. tag \in Tag /\ clock' \in 0 .. MaxClock
    BY <2>1, ClockAssumption DEF GenTag, Tag
  <2>3. /\ ListUpdate(copy[r], uid, r, body, tag) \in List
        /\ WellFormedSet(ListUpdate(copy[r], uid, r, body, tag).items)
    BY <1>0, <1>2, <2>2, ListUpdateType DEF UpdateItem
  <2> QED
    BY <2>1, <2>2, <2>3, OneCopyChanges
<1>3. ASSUME NEW r \in Origin, NEW uid \in ItemUid, RemoveItem(r, uid)
      PROVE  IndInv'
  <2>1. /\ ListRemove(copy[r], uid) \in List
        /\ WellFormedSet(ListRemove(copy[r], uid).items)
    BY <1>0, ListRemoveType
  <2> QED
    BY <1>0, <1>3, <2>1, OneCopyChanges DEF RemoveItem
<1>4. ASSUME NEW r \in Origin, NEW s \in Origin, MergeFrom(r, s)
      PROVE  IndInv'
  <2>1. /\ ListMerge(copy[r], copy[s]) \in List
        /\ WellFormedSet(ListMerge(copy[r], copy[s]).items)
    BY <1>0, ListMergeType
  <2> QED
    BY <1>0, <1>4, <2>1, OneCopyChanges DEF MergeFrom
<1>5. CASE UNCHANGED vars
  BY <1>5 DEF IndInv, TypeOK, WellFormed, vars
<1> QED
  BY <1>1, <1>2, <1>3, <1>4, <1>5 DEF Next

LEMMA IndInvHolds == Spec => []IndInv
BY IndInvInit, IndInvNext, PTL DEF Spec

(* Every copy is a list, and the clock stays within its bound.             *)
THEOREM TypeCorrect == Spec => []TypeOK
<1>1. IndInv => TypeOK
  BY DEF IndInv
<1> QED
  BY <1>1, IndInvHolds, PTL

(* No copy has a removed tag that was never added, or tags without element.*)
THEOREM AlwaysWellFormed == Spec => []WellFormed
<1>1. IndInv => WellFormed
  BY DEF IndInv
<1> QED
  BY <1>1, IndInvHolds, PTL

(* Order, repetition and grouping of merges never matter to the content.   *)
THEOREM MergeAlwaysJoins == Spec => []MergeIsJoin
<1>1. TypeOK => MergeIsJoin
  BY ListMergeCommutes, ListMergeAssociates, ListMergeIdempotent, ListMergeType
     DEF TypeOK, MergeIsJoin
<1> QED
  BY <1>1, TypeCorrect, PTL

-----------------------------------------------------------------------------
(* Ownership of counts.                                                    *)

Element(r, i) == copy[r].items.elements[i]

(* The inductive form of OwnerAhead.                                       *)
Owned ==
  \A r, o \in Origin, i \in ItemUid : BehindOwner(Element(r, i), Element(o, i), o)

(* r replaces element i by one that knows more of r's own counts and the   *)
(* same of all others.                                                     *)
LEMMA OwnCountsChange ==
  ASSUME TypeOK, Owned, NEW r \in Origin, NEW i \in ItemUid, NEW e \in Item,
         ElementLeq(Element(r, i), e),
         OthersSame(Desired(Element(r, i)), e.desired, r),
         OthersSame(Current(Element(r, i)), e.current, r),
         \A s \in Origin, j \in ItemUid :
           Element(s, j)' = IF s = r /\ j = i THEN e ELSE Element(s, j)
  PROVE  Owned'
<1> SUFFICES ASSUME NEW s \in Origin, NEW o \in Origin, NEW j \in ItemUid
             PROVE  BehindOwner(Element(s, j)', Element(o, j)', o)
  BY DEF Owned
<1>1. \A t \in Origin, k \in ItemUid : Element(t, k) \in Item \cup {NoItem}
  BY ItemSetFields DEF TypeOK, Element, List
<1>2. \A t \in Origin, k \in ItemUid : /\ Desired(Element(t, k)) \in Counter
                                       /\ Current(Element(t, k)) \in Counter
  BY <1>1, ElementCounters
<1>3. BehindOwner(Element(s, j), Element(o, j), o)
  BY DEF Owned
<1>4. Desired(e) = e.desired /\ Current(e) = e.current
      /\ e.desired \in Counter /\ e.current \in Counter
  BY NoItemAssumption DEF Desired, Current, Item
<1>5. /\ CountLeq(Desired(Element(r, i)), e.desired, r)
      /\ CountLeq(Current(Element(r, i)), e.current, r)
  BY <1>1, <1>4, LeqRaisesCounts DEF BehindOwner
<1>6. CASE j # i \/ (s # r /\ o # r)
  BY <1>3, <1>6
<1>7. CASE j = i /\ s = r /\ o # r
  <2>1. Element(s, j)' = e /\ Element(o, j)' = Element(o, j)
    BY <1>7
  <2> QED
    BY <1>3, <1>4, <1>7, <2>1 DEF BehindOwner, CountLeq, OthersSame
<1>8. CASE j = i /\ s = r /\ o = r
  <2>1. Element(s, j)' = e /\ Element(o, j)' = e
    BY <1>8
  <2> QED
    BY <1>4, <2>1 DEF BehindOwner, CountLeq, Counter
<1>9. CASE j = i /\ s # r /\ o = r
  <2>1. Element(s, j)' = Element(s, j) /\ Element(o, j)' = e
    BY <1>9
  <2>2. BehindOwner(Element(s, i), Element(r, i), r)
    BY <1>3, <1>9
  <2> QED
    BY <1>2, <1>4, <1>5, <1>9, <2>1, <2>2 DEF BehindOwner, CountLeq, Counter
<1> QED
  BY <1>6, <1>7, <1>8, <1>9

LEMMA OwnedInit == Init => Owned
<1> SUFFICES ASSUME Init
             PROVE  Owned
  OBVIOUS
<1>1. \A r \in Origin, i \in ItemUid : Element(r, i) = NoItem
  BY DEF Init, Element, NewList, EmptySet
<1> QED
  BY <1>1 DEF Owned, BehindOwner, CountLeq, Desired, Current, ZeroCounter

LEMMA OwnedNext == IndInv /\ Owned /\ [Next]_vars => Owned'
<1> SUFFICES ASSUME IndInv, Owned, [Next]_vars
             PROVE  Owned'
  OBVIOUS
<1>0. /\ copy \in [Origin -> List] /\ TypeOK
      /\ \A r \in Origin : WellFormedSet(copy[r].items)
      /\ \A r \in Origin, i \in ItemUid : Element(r, i) \in Item \cup {NoItem}
  BY ItemSetFields DEF IndInv, TypeOK, WellFormed, Element, List
<1>1. ASSUME NEW r \in Origin, NEW uid \in ItemUid, NEW body \in Body,
             AddItem(r, uid, body)
      PROVE  Owned'
  <2> DEFINE e == NewItem(r, body)
  <2>1. PICK tag \in 1 .. MaxClock : copy' = [copy EXCEPT ![r] = ListAdd(@, uid, r, body, tag)]
    BY <1>1 DEF AddItem
  <2>2. Element(r, uid) = NoItem
    BY <1>0, <1>1 DEF AddItem, WellFormedSet, Element
  <2>3. e \in Item /\ ElementLeq(Element(r, uid), e)
    BY <2>2, NewItemType DEF ElementLeq
  <2>4. /\ OthersSame(Desired(Element(r, uid)), e.desired, r)
        /\ OthersSame(Current(Element(r, uid)), e.current, r)
    BY <2>2, NewItemOwn DEF Desired, Current
  <2>5. \A s \in Origin, j \in ItemUid :
          Element(s, j)' = IF s = r /\ j = uid THEN e ELSE Element(s, j)
    BY <1>0, <2>1 DEF Element, ListAdd, SetAdd, List, ItemSet
  <2> HIDE DEF e
  <2> QED
    BY <1>0, <2>3, <2>4, <2>5, OwnCountsChange
<1>2. ASSUME NEW r \in Origin, NEW uid \in ItemUid, NEW body \in Body,
             UpdateItem(r, uid, body)
      PROVE  Owned'
  <2> DEFINE e == EditItem(Element(r, uid), r, body)
  <2>1. PICK tag \in 1 .. MaxClock : copy' = [copy EXCEPT ![r] = ListUpdate(@, uid, r, body, tag)]
    BY <1>2 DEF UpdateItem
  <2>2. Element(r, uid) \in Item /\ Element(r, uid) # NoItem
    BY <1>0, <1>2 DEF UpdateItem, HasItem, Values, Element
  <2>3. e \in Item /\ ElementLeq(Element(r, uid), e)
    BY <2>2, EditItemType, NoItemAssumption DEF ElementLeq
  <2>4. /\ OthersSame(Desired(Element(r, uid)), e.desired, r)
        /\ OthersSame(Current(Element(r, uid)), e.current, r)
    BY <2>2, SetQuantityOwn DEF Desired, Current, EditItem, Item
  <2>5. \A s \in Origin, j \in ItemUid :
          Element(s, j)' = IF s = r /\ j = uid THEN e ELSE Element(s, j)
    BY <1>0, <2>1 DEF Element, ListUpdate, SetAdd, List, ItemSet
  <2> HIDE DEF e
  <2> QED
    BY <1>0, <2>3, <2>4, <2>5, OwnCountsChange
<1>3. ASSUME NEW r \in Origin, NEW uid \in ItemUid, RemoveItem(r, uid)
      PROVE  Owned'
  <2>1. \A s \in Origin, j \in ItemUid : Element(s, j)' = Element(s, j)
    BY <1>0, <1>3 DEF RemoveItem, Element, ListRemove, SetRemove, List, ItemSet
  <2> QED
    BY <2>1 DEF Owned
<1>4. ASSUME NEW r \in Origin, NEW s \in Origin, MergeFrom(r, s)
      PROVE  Owned'
  <2>1. \A t \in Origin, j \in ItemUid :
          Element(t, j)' = IF t = r THEN ElementMerge(Element(r, j), Element(s, j))
                                    ELSE Element(t, j)
    BY <1>0, <1>4 DEF MergeFrom, Element, ListMerge, SetMerge, List
  <2> SUFFICES ASSUME NEW t \in Origin, NEW o \in Origin, NEW j \in ItemUid
               PROVE  BehindOwner(Element(t, j)', Element(o, j)', o)
    BY DEF Owned
  <2>2. \A k \in Origin : BehindOwner(Element(k, j), Element(o, j), o)
    BY DEF Owned
  <2>3. BehindOwner(Element(t, j)', Element(o, j), o)
    BY <1>0, <2>1, <2>2, MergedCounts
  <2>4. CASE o # r
    BY <2>1, <2>3, <2>4
  <2>5. CASE o = r
    <3> DEFINE before == Element(r, j)
               after == Element(r, j)'
               there == Element(t, j)'
    <3>1. /\ before \in Item \cup {NoItem}
          /\ after \in Item \cup {NoItem}
          /\ there \in Item \cup {NoItem}
      BY <1>0, <2>1, ElementMergeType
    <3>2. BehindOwner(before, after, r)
      BY <1>0, <2>1, MergeRaisesCounts
    <3>3. BehindOwner(there, before, r)
      BY <2>3, <2>5
    <3> HIDE DEF before, after, there
    <3>4. BehindOwner(there, after, r)
      BY <3>1, <3>2, <3>3, BehindTransitive
    <3> QED
      BY <2>5, <3>4 DEF after, there
  <2> QED
    BY <2>4, <2>5
<1>5. CASE UNCHANGED vars
  BY <1>5 DEF Owned, vars, Element
<1> QED
  BY <1>1, <1>2, <1>3, <1>4, <1>5 DEF Next

(* Nobody ever knows more of an origin's counts than that origin.          *)
THEOREM OwnersStayAhead == Spec => []OwnerAhead
<1>1. TypeOK /\ Owned => OwnerAhead
  <2> SUFFICES ASSUME TypeOK, Owned, NEW r \in Origin, NEW o \in Origin, NEW i \in ItemUid
               PROVE  \A q \in {"desired", "current"}, sign \in {"pos", "neg"} :
                        Entry(r, i, q, sign, o) <= Entry(o, i, q, sign, o)
    BY DEF OwnerAhead
  <2>1. /\ Entry(r, i, "desired", "pos", o) = Desired(Element(r, i)).pos[o]
        /\ Entry(r, i, "desired", "neg", o) = Desired(Element(r, i)).neg[o]
        /\ Entry(r, i, "current", "pos", o) = Current(Element(r, i)).pos[o]
        /\ Entry(r, i, "current", "neg", o) = Current(Element(r, i)).neg[o]
        /\ Entry(o, i, "desired", "pos", o) = Desired(Element(o, i)).pos[o]
        /\ Entry(o, i, "desired", "neg", o) = Desired(Element(o, i)).neg[o]
        /\ Entry(o, i, "current", "pos", o) = Current(Element(o, i)).pos[o]
        /\ Entry(o, i, "current", "neg", o) = Current(Element(o, i)).neg[o]
    BY DEF Entry, Element, Desired, Current, ZeroCounter
  <2>2. BehindOwner(Element(r, i), Element(o, i), o)
    BY DEF Owned
  <2> QED
    BY <2>1, <2>2 DEF BehindOwner, CountLeq
<1>2. IndInv => TypeOK
  BY DEF IndInv
<1>3. Spec => []Owned
  BY OwnedInit, OwnedNext, IndInvHolds, PTL DEF Spec
<1> QED
  BY <1>1, <1>2, <1>3, IndInvHolds, PTL

-----------------------------------------------------------------------------
(* Quantities.                                                             *)

(* A setter leads to the quantity it was given, on every copy and whatever *)
(* the others have counted, unless the difference is INT32_MIN.            *)
THEOREM UpdatesAlwaysTakeEffect == Spec => []UpdateTakesEffect
<1>1. TypeOK => UpdateTakesEffect
  <2> SUFFICES ASSUME TypeOK, NEW r \in Origin, NEW i \in ItemUid, NEW q \in Quantity,
                      HasItem(copy[r], i),
                      NEW c \in {Element(r, i).desired, Element(r, i).current}
               PROVE  Shown(SetQuantity(c, r, q)) =
                        IF 2 * ((q - Value(c)) % Word) = Word THEN Shown(c) ELSE q % Word
    BY DEF UpdateTakesEffect, Element
  <2>1. Element(r, i) \in Item
    BY ItemSetFields DEF TypeOK, List, HasItem, Values, Element
  <2>2. c \in Counter /\ q \in Int
    BY <2>1, QuantityAssumption DEF Item
  <2> QED
    BY <2>2, SetQuantityShows
<1> QED
  BY <1>1, TypeCorrect, PTL

(* The inductive form of OneOriginStaysNatural.                            *)
NaturalCopies ==
  \A r \in Origin, i \in ItemUid : /\ Natural(Desired(Element(r, i)))
                                   /\ Natural(Current(Element(r, i)))

LEMMA NaturalInit == Init => NaturalCopies
<1> SUFFICES ASSUME Init
             PROVE  NaturalCopies
  OBVIOUS
<1>1. \A r \in Origin, i \in ItemUid : Element(r, i) = NoItem
  BY DEF Init, Element, NewList, EmptySet
<1> QED
  BY <1>1, NaturalZero DEF NaturalCopies, Desired, Current

LEMMA NaturalNext ==
  ASSUME Quantity \subseteq 0 .. MaxInt, IndInv, NaturalCopies, [Next]_vars
  PROVE  NaturalCopies'
<1>0. /\ copy \in [Origin -> List] /\ TypeOK
      /\ \A r \in Origin : WellFormedSet(copy[r].items)
      /\ \A r \in Origin, i \in ItemUid : Element(r, i) \in Item \cup {NoItem}
  BY ItemSetFields DEF IndInv, TypeOK, WellFormed, Element, List
<1>1. ASSUME NEW r \in Origin, NEW uid \in ItemUid, NEW e \in Item,
             Natural(e.desired), Natural(e.current),
             \A s \in Origin, j \in ItemUid :
               Element(s, j)' = IF s = r /\ j = uid THEN e ELSE Element(s, j)
      PROVE  NaturalCopies'
  <2>1. Desired(e) = e.desired /\ Current(e) = e.current
    BY NoItemAssumption DEF Desired, Current
  <2> QED
    BY <1>1, <2>1 DEF NaturalCopies
<1>2. ASSUME NEW r \in Origin, NEW uid \in ItemUid, NEW body \in Body,
             AddItem(r, uid, body)
      PROVE  NaturalCopies'
  <2> DEFINE e == NewItem(r, body)
  <2>1. PICK tag \in 1 .. MaxClock : copy' = [copy EXCEPT ![r] = ListAdd(@, uid, r, body, tag)]
    BY <1>2 DEF AddItem
  <2>2. e \in Item /\ Natural(e.desired) /\ Natural(e.current)
    BY NewItemType, NaturalNew
  <2>3. \A s \in Origin, j \in ItemUid :
          Element(s, j)' = IF s = r /\ j = uid THEN e ELSE Element(s, j)
    <3>1. Element(r, uid) = NoItem
      BY <1>0, <1>2 DEF AddItem, WellFormedSet, Element
    <3> QED
      BY <1>0, <2>1, <3>1 DEF Element, ListAdd, SetAdd, List, ItemSet
  <2> HIDE DEF e
  <2> QED
    BY <1>1, <2>2, <2>3
<1>3. ASSUME NEW r \in Origin, NEW uid \in ItemUid, NEW body \in Body,
             UpdateItem(r, uid, body)
      PROVE  NaturalCopies'
  <2> DEFINE old == Element(r, uid)
             e == EditItem(old, r, body)
  <2>1. PICK tag \in 1 .. MaxClock : copy' = [copy EXCEPT ![r] = ListUpdate(@, uid, r, body, tag)]
    BY <1>3 DEF UpdateItem
  <2>2. old \in Item /\ old # NoItem
    BY <1>0, <1>3 DEF UpdateItem, HasItem, Values, Element
  <2>3. Natural(old.desired) /\ Natural(old.current)
    BY <2>2 DEF NaturalCopies, Desired, Current
  <2>4. \A s \in Origin, j \in ItemUid :
          Element(s, j)' = IF s = r /\ j = uid THEN e ELSE Element(s, j)
    BY <1>0, <2>1 DEF Element, ListUpdate, SetAdd, List, ItemSet
  <2> HIDE DEF old
  <2>5. e \in Item
    BY <2>2, EditItemType
  <2>6. body.desired \in 0 .. MaxInt /\ body.current \in 0 .. MaxInt
    BY BodyAssumption
  <2>7. old.desired \in Counter /\ old.current \in Counter
    BY <2>2 DEF Item
  <2>8. Natural(e.desired) /\ Natural(e.current)
    BY <2>3, <2>6, <2>7, NaturalSet DEF EditItem
  <2> HIDE DEF e
  <2> QED
    BY <1>1, <2>4, <2>5, <2>8
<1>4. ASSUME NEW r \in Origin, NEW uid \in ItemUid, RemoveItem(r, uid)
      PROVE  NaturalCopies'
  <2>1. \A s \in Origin, j \in ItemUid : Element(s, j)' = Element(s, j)
    BY <1>0, <1>4 DEF RemoveItem, Element, ListRemove, SetRemove, List, ItemSet
  <2> QED
    BY <2>1 DEF NaturalCopies
<1>5. ASSUME NEW r \in Origin, NEW s \in Origin, MergeFrom(r, s)
      PROVE  NaturalCopies'
  <2>1. \A t \in Origin, j \in ItemUid :
          Element(t, j)' = IF t = r THEN ElementMerge(Element(r, j), Element(s, j))
                                    ELSE Element(t, j)
    BY <1>0, <1>5 DEF MergeFrom, Element, ListMerge, SetMerge, List
  <2>2. ASSUME NEW j \in ItemUid
        PROVE  /\ Natural(Desired(ElementMerge(Element(r, j), Element(s, j))))
               /\ Natural(Current(ElementMerge(Element(r, j), Element(s, j))))
    BY <1>0, NaturalElementMerge DEF NaturalCopies
  <2> QED
    BY <2>1, <2>2 DEF NaturalCopies
<1>6. CASE UNCHANGED vars
  BY <1>6 DEF NaturalCopies, vars, Element
<1> QED
  BY <1>2, <1>3, <1>4, <1>5, <1>6 DEF Next

(* Fewer than two members of a finite set: all are one and the same.       *)
LEMMA AtMostOne ==
  ASSUME NEW S, IsFiniteSet(S), Cardinality(S) < 2, NEW x \in S, NEW y \in S
  PROVE  x = y
<1> SUFFICES ASSUME x # y
             PROVE  FALSE
  OBVIOUS
<1> DEFINE R == S \ {x}
<1>1. IsFiniteSet(R) /\ Cardinality(R) = Cardinality(S) - 1 /\ y \in R
  BY FS_RemoveElement
<1>2. Cardinality(S) \in Nat
  BY FS_CardinalityType
<1> HIDE DEF R
<1>3. Cardinality(R) \in Nat
  BY <1>1, FS_CardinalityType
<1>4. Cardinality(R) = 0
  BY <1>1, <1>2, <1>3
<1>5. R = {}
  BY <1>1, <1>4, FS_EmptySet
<1> QED
  BY <1>1, <1>5

(* While users only enter quantities of 0 to INT32_MAX, as the fields of   *)
(* the page ask for, a copy that knows of one origin at most that lowered a*)
(* quantity does not see it negative.                                      *)
THEOREM OneOriginAlwaysStaysNatural ==
  ASSUME Quantity \subseteq 0 .. MaxInt
  PROVE  Spec => []OneOriginStaysNatural
<1>1. TypeOK /\ NaturalCopies => OneOriginStaysNatural
  <2> SUFFICES ASSUME TypeOK, NaturalCopies, NEW r \in Origin, NEW i \in ItemUid,
                      NEW q \in {"desired", "current"},
                      Element(r, i) # NoItem,
                      Cardinality({o \in Origin : Entry(r, i, q, "neg", o) > 0}) < 2
               PROVE  Value(Element(r, i)[q]) >= 0
    BY DEF OneOriginStaysNatural, Element
  <2> DEFINE c == Element(r, i)[q]
             S == {o \in Origin : Entry(r, i, q, "neg", o) > 0}
  <2>1. Element(r, i) \in Item
    BY ItemSetFields DEF TypeOK, List, Element
  <2>2. c \in Counter
    BY <2>1 DEF Item
  <2>3. Natural(c)
    BY DEF NaturalCopies, Desired, Current
  <2>4. \A o \in Origin : c.neg[o] \in Nat /\ (o \in S <=> c.neg[o] > 0)
    BY <2>2 DEF Entry, Element, Counter
  <2>5. IsFiniteSet(S)
    BY OriginAssumption, FS_Subset
  <2>6. Cardinality(S) < 2 /\ S \subseteq Origin
    OBVIOUS
  <2> HIDE DEF S, c
  <2>7. \E o \in Origin : \A p \in Origin \ {o} : p \notin S
    <3>1. CASE S = {}
      BY <3>1
    <3>2. CASE S # {}
      <4>1. PICK o \in S : TRUE
        BY <3>2
      <4>2. \A p \in S : p = o
        BY <2>5, <2>6, <4>1, AtMostOne
      <4> QED
        BY <2>6, <4>1, <4>2
    <3> QED
      BY <3>1, <3>2
  <2>8. PICK o \in Origin : \A p \in Origin \ {o} : p \notin S
    BY <2>7
  <2>9. \A p \in Origin \ {o} : c.neg[p] = 0
    BY <2>4, <2>8
  <2>10. Value(c) >= 0
    BY <2>3, <2>9 DEF Natural
  <2> QED
    BY <2>10 DEF c
<1>2. IndInv /\ NaturalCopies /\ [Next]_vars => NaturalCopies'
  BY NaturalNext
<1>3. IndInv => TypeOK
  BY DEF IndInv
<1> QED
  BY <1>1, <1>2, <1>3, NaturalInit, IndInvHolds, PTL DEF Spec

-----------------------------------------------------------------------------

(***************************************************************************)
(* Refinement.  The tags of an item are microseconds already past, so that *)
(* a tag of a later microsecond is an event nobody knows yet.              *)
(***************************************************************************)
Added(r, i) == copy[r].items.addSet[i]

Removed(r, i) == copy[r].items.removeSet[i]

TagsPast == \A r \in Origin, i \in ItemUid : Added(r, i) \subseteq 1 .. clock

(* Two sets of add events are equal when they hold the same pairs.         *)
LEMMA SameEvents ==
  ASSUME NEW S \in SUBSET (ItemUid \X Stamp), NEW T \in SUBSET (ItemUid \X Stamp),
         \A i \in ItemUid, t \in Stamp : <<i, t>> \in S <=> <<i, t>> \in T
  PROVE  S = T
<1>1. ASSUME NEW x \in ItemUid \X Stamp
      PROVE  x \in S <=> x \in T
  <2>1. PICK i \in ItemUid, t \in Stamp : x = <<i, t>>
    OBVIOUS
  <2> QED
    BY <2>1
<1> QED
  BY <1>1

(* The refinement mapping, pair by pair.                                   *)
LEMMA EventsOf ==
  ASSUME NEW s \in Origin
  PROVE  /\ SeenBar[s] \in SUBSET (ItemUid \X Stamp)
         /\ KilledBar[s] \in SUBSET (ItemUid \X Stamp)
         /\ \A i \in ItemUid, t \in Stamp :
              /\ <<i, t>> \in SeenBar[s] <=> t \in Added(s, i)
              /\ <<i, t>> \in KilledBar[s] <=> t \in Removed(s, i)
<1>1. /\ SeenBar[s] = {x \in ItemUid \X Stamp : x[2] \in copy[s].items.addSet[x[1]]}
      /\ KilledBar[s] = {x \in ItemUid \X Stamp : x[2] \in copy[s].items.removeSet[x[1]]}
  BY DEF SeenBar, KilledBar
<1>2. \A i \in ItemUid, t \in Stamp : /\ <<i, t>>[1] = i /\ <<i, t>>[2] = t
                                      /\ <<i, t>> \in ItemUid \X Stamp
  OBVIOUS
<1> QED
  BY <1>1, <1>2 DEF Added, Removed

LEMMA EventsOfNext ==
  ASSUME NEW s \in Origin
  PROVE  /\ SeenBar'[s] \in SUBSET (ItemUid \X Stamp)
         /\ KilledBar'[s] \in SUBSET (ItemUid \X Stamp)
         /\ \A i \in ItemUid, t \in Stamp :
              /\ <<i, t>> \in SeenBar'[s] <=> t \in Added(s, i)'
              /\ <<i, t>> \in KilledBar'[s] <=> t \in Removed(s, i)'
<1>1. /\ SeenBar'[s] = {x \in ItemUid \X Stamp : x[2] \in copy'[s].items.addSet[x[1]]}
      /\ KilledBar'[s] = {x \in ItemUid \X Stamp : x[2] \in copy'[s].items.removeSet[x[1]]}
  BY DEF SeenBar, KilledBar, Stamp
<1>2. \A i \in ItemUid, t \in Stamp : /\ <<i, t>>[1] = i /\ <<i, t>>[2] = t
                                      /\ <<i, t>> \in ItemUid \X Stamp
  OBVIOUS
<1> QED
  BY <1>1, <1>2 DEF Added, Removed

(* Tags that stay, as events that stay.                                    *)
LEMMA SeenSame ==
  ASSUME NEW s \in Origin, \A i \in ItemUid : Added(s, i)' = Added(s, i)
  PROVE  SeenBar'[s] = SeenBar[s]
<1>1. SeenBar[s] \in SUBSET (ItemUid \X Stamp) /\ SeenBar'[s] \in SUBSET (ItemUid \X Stamp)
  BY EventsOf, EventsOfNext
<1>2. ASSUME NEW i \in ItemUid, NEW t \in Stamp
      PROVE  <<i, t>> \in SeenBar'[s] <=> <<i, t>> \in SeenBar[s]
  <2>1. <<i, t>> \in SeenBar[s] <=> t \in Added(s, i)
    BY EventsOf
  <2>2. <<i, t>> \in SeenBar'[s] <=> t \in Added(s, i)'
    BY EventsOfNext
  <2> QED
    BY <2>1, <2>2
<1> QED
  BY <1>1, <1>2, SameEvents

LEMMA KilledSame ==
  ASSUME NEW s \in Origin, \A i \in ItemUid : Removed(s, i)' = Removed(s, i)
  PROVE  KilledBar'[s] = KilledBar[s]
<1>1. /\ KilledBar[s] \in SUBSET (ItemUid \X Stamp)
      /\ KilledBar'[s] \in SUBSET (ItemUid \X Stamp)
  BY EventsOf, EventsOfNext
<1>2. ASSUME NEW i \in ItemUid, NEW t \in Stamp
      PROVE  <<i, t>> \in KilledBar'[s] <=> <<i, t>> \in KilledBar[s]
  <2>1. <<i, t>> \in KilledBar[s] <=> t \in Removed(s, i)
    BY EventsOf
  <2>2. <<i, t>> \in KilledBar'[s] <=> t \in Removed(s, i)'
    BY EventsOfNext
  <2> QED
    BY <2>1, <2>2
<1> QED
  BY <1>1, <1>2, SameEvents

LEMMA EventsUnchanged ==
  /\ (\A s \in Origin, i \in ItemUid : Added(s, i)' = Added(s, i)) => SeenBar' = SeenBar
  /\ (\A s \in Origin, i \in ItemUid : Removed(s, i)' = Removed(s, i))
       => KilledBar' = KilledBar
<1>1. ASSUME \A s \in Origin, i \in ItemUid : Added(s, i)' = Added(s, i)
      PROVE  SeenBar' = SeenBar
  <2>1. \A s \in Origin : SeenBar'[s] = SeenBar[s]
    BY <1>1, SeenSame
  <2>2. SeenBar = [s \in Origin |-> SeenBar[s]] /\ SeenBar' = [s \in Origin |-> SeenBar'[s]]
    BY DEF SeenBar
  <2> QED
    BY <2>1, <2>2, Zenon
<1>2. ASSUME \A s \in Origin, i \in ItemUid : Removed(s, i)' = Removed(s, i)
      PROVE  KilledBar' = KilledBar
  <2>1. \A s \in Origin : KilledBar'[s] = KilledBar[s]
    BY <1>2, KilledSame
  <2>2. /\ KilledBar = [s \in Origin |-> KilledBar[s]]
        /\ KilledBar' = [s \in Origin |-> KilledBar'[s]]
    BY DEF KilledBar
  <2> QED
    BY <2>1, <2>2, Zenon
<1> QED
  BY <1>1, <1>2

(* One origin's events change.                                             *)
LEMMA SeenChanges ==
  ASSUME NEW r \in Origin, NEW S, SeenBar'[r] = S,
         \A s \in Origin \ {r} : SeenBar'[s] = SeenBar[s]
  PROVE  SeenBar' = [SeenBar EXCEPT ![r] = S]
<1>1. /\ SeenBar = [s \in Origin |-> SeenBar[s]]
      /\ SeenBar' = [s \in Origin |-> SeenBar'[s]]
  BY DEF SeenBar
<1> QED
  BY <1>1

LEMMA KilledChanges ==
  ASSUME NEW r \in Origin, NEW S, KilledBar'[r] = S,
         \A s \in Origin \ {r} : KilledBar'[s] = KilledBar[s]
  PROVE  KilledBar' = [KilledBar EXCEPT ![r] = S]
<1>1. /\ KilledBar = [s \in Origin |-> KilledBar[s]]
      /\ KilledBar' = [s \in Origin |-> KilledBar'[s]]
  BY DEF KilledBar
<1> QED
  BY <1>1

(* The list of r gets these items, the other copies stay.                  *)
ItemsBecome(r, items) ==
  /\ copy'[r].items = items
  /\ \A s \in Origin \ {r} : copy'[s] = copy[s]

(* What a removal and a merge do to the tags.                               *)
LEMMA TagRemoved ==
  ASSUME TypeOK, NEW r \in Origin, NEW uid \in ItemUid, RemoveItem(r, uid)
  PROVE  \A s \in Origin, i \in ItemUid :
           /\ Added(s, i)' = Added(s, i)
           /\ Removed(s, i)' = IF s = r /\ i = uid THEN Removed(s, i) \cup Added(s, i)
                                                   ELSE Removed(s, i)
<1> DEFINE old == copy[r].items
           new == SetRemove(old, uid)
<1>1. old \in ItemSet
  BY DEF TypeOK, List
<1>2. /\ new.addSet = old.addSet
      /\ new.removeSet = [old.removeSet EXCEPT ![uid] = @ \cup old.addSet[uid]]
      /\ \A i \in ItemUid :
           new.removeSet[i] = IF i = uid THEN old.removeSet[i] \cup old.addSet[i]
                                         ELSE old.removeSet[i]
  BY <1>1 DEF SetRemove, ItemSet
<1>3. copy'[r].items = new /\ \A s \in Origin : s # r => copy'[s] = copy[s]
  BY DEF TypeOK, RemoveItem, ListRemove, List
<1> HIDE DEF new
<1>4. \A i \in ItemUid : Added(r, i)' = new.addSet[i] /\ Removed(r, i)' = new.removeSet[i]
  BY <1>3 DEF Added, Removed
<1>5. \A s \in Origin, i \in ItemUid :
        s # r => Added(s, i)' = Added(s, i) /\ Removed(s, i)' = Removed(s, i)
  BY <1>3 DEF Added, Removed
<1>6. \A i \in ItemUid : Added(r, i) = old.addSet[i] /\ Removed(r, i) = old.removeSet[i]
  BY DEF Added, Removed
<1> QED
  BY <1>2, <1>4, <1>5, <1>6

LEMMA TagsMerged ==
  ASSUME TypeOK, NEW r \in Origin, NEW t \in Origin, MergeFrom(r, t)
  PROVE  \A s \in Origin, i \in ItemUid :
           /\ Added(s, i)' = IF s = r THEN Added(s, i) \cup Added(t, i) ELSE Added(s, i)
           /\ Removed(s, i)' = IF s = r THEN Removed(s, i) \cup Removed(t, i)
                                        ELSE Removed(s, i)
<1> DEFINE new == SetMerge(copy[r].items, copy[t].items)
<1>1. \A i \in ItemUid :
        /\ new.addSet[i] = copy[r].items.addSet[i] \cup copy[t].items.addSet[i]
        /\ new.removeSet[i] = copy[r].items.removeSet[i] \cup copy[t].items.removeSet[i]
  BY DEF SetMerge
<1>2. copy'[r].items = new /\ \A s \in Origin : s # r => copy'[s] = copy[s]
  BY DEF TypeOK, MergeFrom, ListMerge, List
<1> HIDE DEF new
<1> QED
  BY <1>1, <1>2 DEF Added, Removed

(* An edit of r with a tag of a new microsecond is an Add event.           *)
LEMMA TagIsEvent ==
  ASSUME TypeOK, TagsPast, SameMicrosecond = FALSE,
         NEW r \in Origin, NEW uid \in ItemUid, NEW elem,
         NEW tag \in 1 .. MaxClock, GenTag(r, uid, tag),
         ItemsBecome(r, SetAdd(copy[r].items, uid, elem, tag))
  PROVE  TagsPast' /\ ORS!Add(r, uid)
<1>1. clock \in Nat /\ tag = clock + 1 /\ clock' = tag /\ tag \in Stamp
  BY ClockAssumption DEF TypeOK, GenTag, Stamp
<1>2. \A s \in Origin, i \in ItemUid :
        /\ Removed(s, i)' = Removed(s, i)
        /\ Added(s, i)' = IF s = r /\ i = uid THEN Added(s, i) \cup {tag}
                                              ELSE Added(s, i)
  <2> DEFINE old == copy[r].items
             new == SetAdd(old, uid, elem, tag)
  <2>1. old \in ItemSet
    BY DEF TypeOK, List
  <2>2. /\ new.addSet = [old.addSet EXCEPT ![uid] = @ \cup {tag}]
        /\ new.removeSet = old.removeSet
        /\ \A i \in ItemUid : new.addSet[i] = IF i = uid THEN old.addSet[i] \cup {tag}
                                                         ELSE old.addSet[i]
    BY <2>1 DEF SetAdd, ItemSet
  <2>3. copy'[r].items = new /\ \A s \in Origin : s # r => copy'[s] = copy[s]
    BY DEF ItemsBecome
  <2> HIDE DEF new
  <2> QED
    BY <2>2, <2>3 DEF Added, Removed
<1>3. TagsPast'
  <2>1. 1 .. clock \subseteq 1 .. clock' /\ tag \in 1 .. clock'
    BY <1>1
  <2>2. \A s \in Origin, i \in ItemUid : Added(s, i)' \subseteq 1 .. clock'
    BY <1>2, <2>1 DEF TagsPast
  <2> QED
    BY <2>2 DEF TagsPast
<1>4. \A s \in Origin, i \in ItemUid : tag \notin Added(s, i)
  <2>1. tag \notin 1 .. clock
    BY <1>1
  <2> QED
    BY <2>1 DEF TagsPast
<1>5. \A s \in Origin : <<uid, tag>> \notin SeenBar[s]
  BY <1>1, <1>4, EventsOf
<1>6. SeenBar' = [SeenBar EXCEPT ![r] = SeenBar[r] \cup {<<uid, tag>>}]
  <2>1. SeenBar[r] \cup {<<uid, tag>>} \in SUBSET (ItemUid \X Stamp)
    BY <1>1, EventsOf
  <2>2. \A i \in ItemUid, t \in Stamp :
          <<i, t>> \in SeenBar'[r] <=> <<i, t>> \in SeenBar[r] \cup {<<uid, tag>>}
    <3> TAKE i \in ItemUid, t \in Stamp
    <3>1. <<i, t>> \in SeenBar[r] <=> t \in Added(r, i)
      BY EventsOf
    <3>2. <<i, t>> \in SeenBar'[r] <=> t \in Added(r, i)'
      BY EventsOfNext
    <3>3. <<i, t>> = <<uid, tag>> <=> i = uid /\ t = tag
      OBVIOUS
    <3> QED
      BY <1>2, <3>1, <3>2, <3>3
  <2>3. SeenBar'[r] = SeenBar[r] \cup {<<uid, tag>>}
    BY <2>1, <2>2, EventsOfNext, SameEvents
  <2>4. ASSUME NEW s \in Origin \ {r}
        PROVE  SeenBar'[s] = SeenBar[s]
    BY <1>2, SeenSame
  <2> QED
    BY <2>3, <2>4, SeenChanges
<1>7. KilledBar' = KilledBar
  BY <1>2, EventsUnchanged
<1> QED
  BY <1>1, <1>3, <1>5, <1>6, <1>7 DEF ORS!Add

LEMMA RefinesInit == Init => ORS!Init /\ TagsPast
<1> SUFFICES ASSUME Init
             PROVE  ORS!Init /\ TagsPast
  OBVIOUS
<1>1. \A s \in Origin, i \in ItemUid : Added(s, i) = {} /\ Removed(s, i) = {}
  BY DEF Init, NewList, EmptySet, Added, Removed
<1>2. \A s \in Origin : SeenBar[s] = {} /\ KilledBar[s] = {}
  BY <1>1, EventsOf, SameEvents
<1> QED
  BY <1>1, <1>2 DEF ORS!Init, TagsPast, SeenBar, KilledBar

LEMMA RefinesNext ==
  ASSUME SameMicrosecond = FALSE, TypeOK, TagsPast, [Next]_vars
  PROVE  TagsPast' /\ [ORS!Next]_(ORS!vars)
<1>0. copy \in [Origin -> [name : ListName, items : ItemSet]]
  BY DEF TypeOK, List
<1>1. ASSUME NEW r \in Origin, NEW uid \in ItemUid, NEW body \in Body,
             AddItem(r, uid, body)
      PROVE  TagsPast' /\ ORS!Next
  <2>1. PICK tag \in 1 .. MaxClock :
          GenTag(r, uid, tag) /\ copy' = [copy EXCEPT ![r] = ListAdd(@, uid, r, body, tag)]
    BY <1>1 DEF AddItem
  <2>2. ItemsBecome(r, SetAdd(copy[r].items, uid,
                              NewItem(r, body), tag))
    BY <1>0, <2>1 DEF ListAdd, ItemsBecome
  <2>3. TagsPast' /\ ORS!Add(r, uid)
    BY <2>1, <2>2, TagIsEvent
  <2> QED
    BY <2>3 DEF ORS!Next
<1>2. ASSUME NEW r \in Origin, NEW uid \in ItemUid, NEW body \in Body,
             UpdateItem(r, uid, body)
      PROVE  TagsPast' /\ ORS!Next
  <2>1. PICK tag \in 1 .. MaxClock :
          GenTag(r, uid, tag) /\ copy' = [copy EXCEPT ![r] = ListUpdate(@, uid, r, body, tag)]
    BY <1>2 DEF UpdateItem
  <2>2. ItemsBecome(r, SetAdd(copy[r].items, uid,
                              EditItem(copy[r].items.elements[uid], r, body), tag))
    BY <1>0, <2>1 DEF ListUpdate, ItemsBecome
  <2>3. TagsPast' /\ ORS!Add(r, uid)
    BY <2>1, <2>2, TagIsEvent
  <2> QED
    BY <2>3 DEF ORS!Next
<1>3. ASSUME NEW r \in Origin, NEW uid \in ItemUid, RemoveItem(r, uid)
      PROVE  TagsPast' /\ ORS!Next
  <2>1. \A s \in Origin, i \in ItemUid :
          /\ Added(s, i)' = Added(s, i)
          /\ Removed(s, i)' = IF s = r /\ i = uid THEN Removed(s, i) \cup Added(s, i)
                                                  ELSE Removed(s, i)
    BY <1>3, TagRemoved
  <2>2. TagsPast'
    BY <1>3, <2>1 DEF RemoveItem, TagsPast
  <2>3. \A s \in Origin, i \in ItemUid : Added(s, i) \subseteq Stamp
    BY ClockAssumption DEF TypeOK, TagsPast, Stamp
  <2>4. PICK tag \in Added(r, uid) : tag \notin Removed(r, uid)
    BY <1>3 DEF RemoveItem, HasItem, Values, Contains, Added, Removed
  <2>5. uid \in ORS!Visible(r)
    <3>1. <<uid, tag>> \in SeenBar[r] /\ <<uid, tag>> \notin KilledBar[r]
      BY <2>3, <2>4, EventsOf
    <3> QED
      BY <3>1 DEF ORS!Visible, ORS!AddsOf
  <2>6. KilledBar' = [KilledBar EXCEPT ![r] = KilledBar[r] \cup ORS!AddsOf(r, uid)]
    <3>1. KilledBar[r] \cup ORS!AddsOf(r, uid) \in SUBSET (ItemUid \X Stamp)
      BY EventsOf DEF ORS!AddsOf
    <3>2. \A i \in ItemUid, t \in Stamp :
            <<i, t>> \in ORS!AddsOf(r, uid) <=> i = uid /\ t \in Added(r, uid)
      BY EventsOf DEF ORS!AddsOf
    <3>3. \A i \in ItemUid, t \in Stamp :
            <<i, t>> \in KilledBar'[r] <=> <<i, t>> \in KilledBar[r] \cup ORS!AddsOf(r, uid)
      <4> TAKE i \in ItemUid, t \in Stamp
      <4>1. <<i, t>> \in KilledBar[r] <=> t \in Removed(r, i)
        BY EventsOf
      <4>2. <<i, t>> \in KilledBar'[r] <=> t \in Removed(r, i)'
        BY EventsOfNext
      <4> QED
        BY <2>1, <3>2, <4>1, <4>2
    <3>4. KilledBar'[r] = KilledBar[r] \cup ORS!AddsOf(r, uid)
      BY <3>1, <3>3, EventsOfNext, SameEvents
    <3>5. ASSUME NEW s \in Origin \ {r}
          PROVE  KilledBar'[s] = KilledBar[s]
      BY <2>1, KilledSame
    <3> QED
      BY <3>4, <3>5, KilledChanges
  <2>7. SeenBar' = SeenBar
    BY <2>1, EventsUnchanged
  <2>8. ORS!Remove(r, uid)
    BY <2>5, <2>6, <2>7 DEF ORS!Remove
  <2> QED
    BY <2>2, <2>8 DEF ORS!Next
<1>4. ASSUME NEW r \in Origin, NEW t \in Origin, MergeFrom(r, t)
      PROVE  TagsPast' /\ ORS!Next
  <2>1. \A s \in Origin, i \in ItemUid :
          /\ Added(s, i)' = IF s = r THEN Added(s, i) \cup Added(t, i) ELSE Added(s, i)
          /\ Removed(s, i)' = IF s = r THEN Removed(s, i) \cup Removed(t, i)
                                       ELSE Removed(s, i)
    BY <1>4, TagsMerged
  <2>2. TagsPast'
    <3>1. \A s \in Origin, i \in ItemUid : Added(s, i)' \subseteq 1 .. clock
      BY <2>1 DEF TagsPast
    <3> QED
      BY <1>4, <3>1 DEF MergeFrom, TagsPast
  <2>3. SeenBar' = [SeenBar EXCEPT ![r] = SeenBar[r] \cup SeenBar[t]]
    <3>1. /\ SeenBar[r] \cup SeenBar[t] \in SUBSET (ItemUid \X Stamp)
          /\ \A i \in ItemUid, x \in Stamp :
               <<i, x>> \in SeenBar'[r] <=> <<i, x>> \in SeenBar[r] \cup SeenBar[t]
      BY <2>1, EventsOf, EventsOfNext
    <3>2. SeenBar'[r] = SeenBar[r] \cup SeenBar[t]
      BY <3>1, EventsOfNext, SameEvents
    <3>3. ASSUME NEW s \in Origin \ {r}
          PROVE  SeenBar'[s] = SeenBar[s]
      BY <2>1, SeenSame
    <3> QED
      BY <3>2, <3>3, SeenChanges
  <2>4. KilledBar' = [KilledBar EXCEPT ![r] = KilledBar[r] \cup KilledBar[t]]
    <3>1. /\ KilledBar[r] \cup KilledBar[t] \in SUBSET (ItemUid \X Stamp)
          /\ \A i \in ItemUid, x \in Stamp :
               <<i, x>> \in KilledBar'[r] <=> <<i, x>> \in KilledBar[r] \cup KilledBar[t]
      BY <2>1, EventsOf, EventsOfNext
    <3>2. KilledBar'[r] = KilledBar[r] \cup KilledBar[t]
      BY <3>1, EventsOfNext, SameEvents
    <3>3. ASSUME NEW s \in Origin \ {r}
          PROVE  KilledBar'[s] = KilledBar[s]
      BY <2>1, KilledSame
    <3> QED
      BY <3>2, <3>3, KilledChanges
  <2> QED
    BY <2>2, <2>3, <2>4 DEF ORS!Next, ORS!Merge
<1>5. CASE UNCHANGED vars
  <2>1. TagsPast' /\ \A s \in Origin, i \in ItemUid : /\ Added(s, i)' = Added(s, i)
                                                      /\ Removed(s, i)' = Removed(s, i)
    BY <1>5 DEF vars, TagsPast, Added, Removed
  <2> QED
    BY <2>1, EventsUnchanged DEF ORS!vars
<1> QED
  BY <1>1, <1>2, <1>3, <1>4, <1>5 DEF Next

(* As long as no two tags are made in one microsecond, copies of a list    *)
(* behave as the observed-remove set: every edit is an event of its own and*)
(* a removal hides only what its author has seen.                          *)
THEOREM ListsImplementObservedRemoveSet ==
  ASSUME SameMicrosecond = FALSE
  PROVE  Spec => ImplementsObservedRemoveSet
<1>1. Init => ORS!Init /\ TagsPast
  BY RefinesInit
<1>2. TypeOK /\ TagsPast /\ [Next]_vars => TagsPast' /\ [ORS!Next]_(ORS!vars)
  BY RefinesNext
<1> QED
  BY <1>1, <1>2, TypeCorrect, PTL DEF Spec, ImplementsObservedRemoveSet, ORS!Spec

=============================================================================
