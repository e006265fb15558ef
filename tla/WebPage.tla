------------------------------- MODULE WebPage -------------------------------
(***************************************************************************)
(* The page web/app.js: what it shows, what its form holds, and the calls  *)
(* it makes to the client program.  A call is one run of an async function:*)
(* it sends a request, and goes on when the answer is there, with whatever *)
(* the page has become by then.  The client program is seen through its    *)
(* routes only, as module Replication has the rest of it; no other client  *)
(* changes a list here.                                                    *)
(***************************************************************************)
EXTENDS FiniteSets

CONSTANTS
  List, Item,     \* uids
  Value,          \* contents of an item: name and quantities
  Call,           \* bound: calls at a time
  NoList, NoItem, \* an empty currentListId, an empty editUid
  Unborn, Gone,   \* lists not created yet, and deleted
  Waiting, Failed \* answers: none yet, and not ok

(* What a list may hold: some of the items, with their contents.           *)
Rows == UNION {[items -> Value] : items \in SUBSET Item}

ASSUME WebPageAssumption ==
  /\ IsFiniteSet(Call)
  /\ NoList \notin List /\ NoItem \notin Item
  /\ {Unborn, Gone, Waiting, Failed} \cap Rows = {} /\ Waiting # Failed

VARIABLES
  server,         \* server[l]: what the client program has of list l
  used,           \* item uids it has given out
  lost,           \* lists it changed without the page hearing so, and not asked for since
  currentListId,
  heading,        \* currentListEl: the list it names, and the uid it gives
  shown,          \* itemsEl: whose items, NoList for a message, and which
  form,           \* editUid, and the item that the fields were filled from
  calls,          \* calls[c]: the request a call waits for, or Idle
  hurried         \* whether the user has ever clicked on before an answer was there

page == <<currentListId, heading, shown, form>>
program == <<server, used, lost>>
vars == <<program, page, calls, hurried>>

Idle == [op |-> "idle", list |-> NoList, item |-> NoItem, from |-> NoItem, answer |-> Waiting]

Loaded(l) == server[l] \notin {Unborn, Gone}

Message == [list |-> NoList, rows |-> << >>]

EmptyForm == [editUid |-> NoItem, filled |-> NoItem]

Nothing == [name |-> NoList, uid |-> NoList]

TypeOK ==
  /\ server \in [List -> Rows \cup {Unborn, Gone}]
  /\ used \subseteq Item
  /\ lost \subseteq List
  /\ currentListId \in List \cup {NoList}
  /\ heading \in [name : List \cup {NoList}, uid : List \cup {NoList}]
  /\ shown \in [list : List \cup {NoList}, rows : Rows]
  /\ form \in [editUid : Item \cup {NoItem}, filled : Item \cup {NoItem}]
  /\ DOMAIN calls = Call
  /\ hurried \in BOOLEAN

(* The page is opened next to lists that have no items yet.                *)
Init ==
  /\ server \in [List -> {<< >>, Unborn}]
  /\ used = {}
  /\ lost = {}
  /\ currentListId = NoList
  /\ heading = Nothing
  /\ shown = Message
  /\ form = EmptyForm
  /\ calls = [c \in Call |-> Idle]
  /\ hurried = FALSE

Settled == \A c \in Call : calls[c] = Idle

-----------------------------------------------------------------------------
(* What the user does.                                                     *)

Click == hurried' = (hurried \/ ~ Settled)

(* A call begins with a request.                                           *)
Request(c, request) ==
  /\ Click
  /\ calls[c] = Idle
  /\ calls' = [calls EXCEPT ![c] = request]

(* Load, with the list selected before it is known to exist.               *)
MutLoadListSelectsFirst(c, l) ==
  /\ Request(c, [Idle EXCEPT !.op = "load", !.list = l])
  /\ currentListId' = l
  /\ UNCHANGED <<program, heading, shown, form>>

LoadList(c, l) ==
  /\ Request(c, [Idle EXCEPT !.op = "load", !.list = l])
  /\ UNCHANGED <<program, page>>

CreateList(c) ==
  /\ Request(c, [Idle EXCEPT !.op = "create"])
  /\ UNCHANGED <<program, page>>

(* The uid is the one typed in, which need not be the list shown.          *)
DeleteList(c, l) ==
  /\ Request(c, [Idle EXCEPT !.op = "deleteList", !.list = l])
  /\ UNCHANGED <<program, page>>

(* addOrUpdate: an update of the item being edited, or a new item.         *)
AddOrUpdate(c) ==
  /\ currentListId # NoList
  /\ Request(c, [Idle EXCEPT !.op = "save", !.list = currentListId,
                             !.item = form.editUid, !.from = form.filled])
  /\ UNCHANGED <<program, page>>

(* The buttons next to an item shown.                                      *)
DeleteItem(c, i) ==
  /\ currentListId # NoList
  /\ i \in DOMAIN shown.rows
  /\ Request(c, [Idle EXCEPT !.op = "deleteItem", !.list = currentListId, !.item = i])
  /\ UNCHANGED <<program, page>>

PopulateFormForEdit(i) ==
  /\ Click
  /\ i \in DOMAIN shown.rows
  /\ form' = [editUid |-> i, filled |-> i]
  /\ UNCHANGED <<program, currentListId, heading, shown, calls>>

ClearForm ==
  /\ Click
  /\ form' = EmptyForm
  /\ UNCHANGED <<program, currentListId, heading, shown, calls>>

-----------------------------------------------------------------------------
(* What the client program does with a request, one at a time.             *)

Answer(c, answer) == calls' = [calls EXCEPT ![c].answer = answer]

(* The list is written: the answer goes out, or the program ends before it *)
(* does, and the call fails although it was carried out.                   *)
Changed(c, l) ==
  \/ Answer(c, << >>) /\ UNCHANGED lost
  \/ Answer(c, Failed) /\ lost' = lost \cup {l}

GetList(c) ==
  /\ calls[c].op \in {"load", "refresh"}
  /\ Loaded(calls[c].list)
  /\ Answer(c, server[calls[c].list])
  /\ lost' = lost \ {calls[c].list}
  /\ UNCHANGED <<server, used>>

PutList(c) ==
  /\ calls[c].op = "create"
  /\ \E l \in List :
       /\ server[l] = Unborn
       /\ server' = [server EXCEPT ![l] = << >>]
       /\ \/ /\ calls' = [calls EXCEPT ![c].list = l, ![c].answer = << >>]
             /\ UNCHANGED lost
          \/ Answer(c, Failed) /\ lost' = lost \cup {l}
  /\ UNCHANGED used

(* A list that its nodes still have comes back with the next GET.          *)
RemoveList(c) ==
  /\ calls[c].op = "deleteList"
  /\ \/ server' = [server EXCEPT ![calls[c].list] = IF @ = Unborn THEN @ ELSE Gone]
     \/ UNCHANGED server
  /\ Changed(c, calls[c].list)
  /\ UNCHANGED used

SaveItem(c) ==
  /\ calls[c].op = "save"
  /\ LET l == calls[c].list
         known == calls[c].item
     IN  /\ Loaded(l)
         /\ known # NoItem => known \in DOMAIN server[l]
         /\ \E i \in IF known = NoItem THEN Item \ used ELSE {known} :
              /\ used' = used \cup {i}
              /\ \E v \in Value :
                   server' = [server EXCEPT ![l] =
                     [j \in DOMAIN @ \cup {i} |-> IF j = i THEN v ELSE @[j]]]
  /\ Changed(c, calls[c].list)

RemoveItem(c) ==
  /\ calls[c].op = "deleteItem"
  /\ LET l == calls[c].list
     IN  /\ Loaded(l)
         /\ calls[c].item \in DOMAIN server[l]
         /\ server' = [server EXCEPT ![l] =
              [j \in DOMAIN @ \ {calls[c].item} |-> @[j]]]
  /\ Changed(c, calls[c].list)
  /\ UNCHANGED used

(* Nothing is written: not found, or the program does not run or ends too  *)
(* early.                                                                  *)
Refuse(c) ==
  /\ Answer(c, Failed)
  /\ UNCHANGED program

HandleRequest(c) ==
  /\ calls[c] # Idle
  /\ calls[c].answer = Waiting
  /\ \/ GetList(c) \/ PutList(c) \/ RemoveList(c) \/ SaveItem(c) \/ RemoveItem(c)
     \/ Refuse(c)
  /\ UNCHANGED <<page, hurried>>

-----------------------------------------------------------------------------
(* How a call goes on.                                                     *)

Done(c) == calls' = [calls EXCEPT ![c] = Idle]

(* An answer that is not checked for being ok.                             *)
MutAnsweredUnchecked(c, op) == calls[c].op = op /\ calls[c].answer # Waiting

Answered(c, op) == calls[c].op = op /\ calls[c].answer \notin {Waiting, Failed}

(* The list loaded or created becomes the current one.                     *)
Select(c) ==
  /\ Answered(c, "load") \/ Answered(c, "create")
  /\ LET l == calls[c].list
     IN  /\ currentListId' = l
         /\ heading' = [name |-> l, uid |-> l]
         /\ shown' = [list |-> l, rows |-> calls[c].answer]
  /\ Done(c)
  /\ UNCHANGED form

Deselect(c) ==
  /\ Answered(c, "deleteList")
  /\ currentListId' = NoList
  /\ heading' = Nothing
  /\ shown' = Message
  /\ form' = EmptyForm
  /\ Done(c)

(* The page is left as it is.                                              *)
MutRefreshListForgotten(c) ==
  /\ Done(c)
  /\ UNCHANGED shown

(* refreshList: asks for the list that is current now.                     *)
RefreshList(c) ==
  IF currentListId = NoList
  THEN /\ shown' = Message
       /\ Done(c)
  ELSE /\ calls' = [calls EXCEPT ![c] =
                      [Idle EXCEPT !.op = "refresh", !.list = currentListId]]
       /\ UNCHANGED shown

(* Saving forgets which item was edited, and leaves the fields filled.     *)
MutSavedKeepsFields(c) ==
  /\ Answered(c, "save")
  /\ form' = [form EXCEPT !.editUid = NoItem]
  /\ RefreshList(c)
  /\ UNCHANGED <<currentListId, heading>>

Saved(c) ==
  /\ Answered(c, "save")
  /\ form' = EmptyForm
  /\ RefreshList(c)
  /\ UNCHANGED <<currentListId, heading>>

ItemDeleted(c) ==
  /\ Answered(c, "deleteItem")
  /\ RefreshList(c)
  /\ UNCHANGED <<currentListId, heading, form>>

(* The name is the answer's, the uid is that of the list current now.      *)
Refreshed(c) ==
  /\ Answered(c, "refresh")
  /\ heading' = [name |-> calls[c].list, uid |-> currentListId]
  /\ shown' = [list |-> calls[c].list, rows |-> calls[c].answer]
  /\ Done(c)
  /\ UNCHANGED <<currentListId, form>>

CallFailed(c) ==
  /\ calls[c].answer = Failed
  /\ shown' = IF calls[c].op = "refresh" THEN Message ELSE shown
  /\ Done(c)
  /\ UNCHANGED <<currentListId, heading, form>>

Continue(c) ==
  /\ \/ Select(c) \/ Deselect(c) \/ Saved(c) \/ ItemDeleted(c) \/ Refreshed(c)
     \/ CallFailed(c)
  /\ UNCHANGED <<program, hurried>>

Next ==
  \/ \E c \in Call :
       \/ \E l \in List : LoadList(c, l) \/ DeleteList(c, l)
       \/ CreateList(c) \/ AddOrUpdate(c)
       \/ \E i \in Item : DeleteItem(c, i)
       \/ HandleRequest(c) \/ Continue(c)
  \/ \E i \in Item : PopulateFormForEdit(i)
  \/ ClearForm

Spec == Init /\ [][Next]_vars

-----------------------------------------------------------------------------
(* With a user who waits for every answer, the heading over the form names *)
(* the list that the form writes to, and the items shown are of that list  *)
(* (index.html:30, app.js:143-145, 201-205).                               *)
ShownIsCurrent ==
  ~ hurried /\ Settled =>
    /\ heading = [name |-> currentListId, uid |-> currentListId]
    /\ shown.list \in {NoList, currentListId}

(* With a user who waits for every answer, the items shown are those that  *)
(* the client program has, whatever of the user's edits it carried out or  *)
(* refused (app.js:173-175, 186-187).  There is one exception: an edit     *)
(* whose answer was lost leaves the old items shown, under an alert that   *)
(* the operation failed (app.js:176-178, 188-190), until the list is asked *)
(* for again.                                                              *)
ShownIsFresh ==
  ~ hurried /\ Settled /\ shown.list \notin {NoList} \cup lost =>
    shown.rows = server[shown.list]

(* Even in a hurry, an item is only ever updated with fields that were     *)
(* filled from it, and a new item is never made of the fields of another,  *)
(* although the answer to an earlier save empties the form whenever it     *)
(* comes (app.js:165-174).                                                 *)
SavesWhatWasFilled ==
  \A c \in Call : calls[c].op = "save" => calls[c].item = calls[c].from
=============================================================================
