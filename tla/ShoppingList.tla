----------------------------- MODULE ShoppingList -----------------------------
(***************************************************************************)
(* model/shopping_list.cpp: a named list is an observed-remove set of      *)
(* items.  The list's uid is the key under which stores and messages hold  *)
(* it.  The exceptions of add, update and getItem are the guards CanAdd and*)
(* HasItem, which the callers use.                                         *)
(***************************************************************************)
EXTENDS ORSet

CONSTANTS
  ListName,   \* names a list may have
  EmptyName,  \* "", the name of lists made by ShoppingList(uid, "")
  NoList      \* "no such list"

ASSUME EmptyNameAssumption == EmptyName \in ListName

List == [name : ListName, items : ItemSet]

ASSUME NoListAssumption == NoList \notin List

NewList(name) == [name |-> name, items |-> EmptySet]

-----------------------------------------------------------------------------

(* add throws when the item is in the list, update and getItem throw when  *)
(* it is not.                                                              *)
CanAdd(lst, uid) == ~ Contains(lst.items, uid)

HasItem(lst, uid) == uid \in Values(lst.items)

(* API::addItem's part that works on the list: a new item, then add.       *)
ListAdd(lst, uid, origin, body, tag) ==
  [lst EXCEPT !.items = SetAdd(@, uid, NewItem(origin, body), tag)]

(* API::updateItem's part: the setters on the item in place, then update,  *)
(* which adds the item again under a new tag.                              *)
ListUpdate(lst, uid, origin, body, tag) ==
  [lst EXCEPT !.items =
     SetAdd(@, uid, EditItem(lst.items.elements[uid], origin, body), tag)]

ListRemove(lst, uid) == [lst EXCEPT !.items = SetRemove(@, uid)]

(* merge joins the items and leaves the name of this list alone.           *)
ListMerge(lst, other) == [lst EXCEPT !.items = SetMerge(@, other.items)]

-----------------------------------------------------------------------------

ListLeq(lst, other) == SetLeq(lst.items, other.items)

(* Two copies that know exactly the same adds, removals and counts.        *)
SameContent(lst, other) == ListLeq(lst, other) /\ ListLeq(other, lst)

=============================================================================
