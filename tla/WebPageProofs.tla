---------------------------- MODULE WebPageProofs ----------------------------
(***************************************************************************)
(* Proofs about module WebPage, for every set of lists, items and contents *)
(* and any number of calls at a time.                                      *)
(***************************************************************************)
EXTENDS WebPage, TLAPS

Op == {"idle", "load", "create", "deleteList", "save", "deleteItem", "refresh"}

CallRecord ==
  [op : Op, list : List \cup {NoList}, item : Item \cup {NoItem},
   from : Item \cup {NoItem}, answer : Rows \cup {Waiting, Failed}]

(* The call has an answer, and the program did what it was asked.          *)
Granted(c) == calls[c].answer \notin {Waiting, Failed}

(* What a call is about is there when it is needed.                        *)
CallSubject ==
  \A c \in Call :
    /\ calls[c].op \in {"load", "deleteList", "save", "deleteItem", "refresh"}
         => calls[c].list \in List
    /\ calls[c].op = "create" /\ Granted(c) => calls[c].list \in List
    /\ calls[c].op = "deleteItem" => calls[c].item \in Item

TypeInv == TypeOK /\ calls \in [Call -> CallRecord] /\ CallSubject

-----------------------------------------------------------------------------

LEMMA EmptyRows == << >> \in Rows /\ {Unborn, Gone, Waiting, Failed} \cap Rows = {}
<1>1. << >> \in [{} -> Value]
  OBVIOUS
<1>2. << >> \in Rows
  BY <1>1 DEF Rows
<1> QED
  BY <1>2, WebPageAssumption

LEMMA IdleType ==
  /\ Idle \in CallRecord /\ Idle.op = "idle" /\ Idle.answer = Waiting
  /\ Idle.list = NoList /\ Idle.item = NoItem /\ Idle.from = NoItem
BY DEF Idle, CallRecord, Op

LEMMA InitType == Init => TypeInv
<1> SUFFICES ASSUME Init PROVE TypeInv
  OBVIOUS
<1>1. TypeOK
  BY EmptyRows DEF Init, TypeOK, Nothing, Message, EmptyForm
<1>2. calls \in [Call -> CallRecord] /\ CallSubject
  BY IdleType DEF Init, CallSubject
<1> QED
  BY <1>1, <1>2 DEF TypeInv

(* A request begins a call about what it names.                            *)
LEMMA RequestType ==
  ASSUME TypeInv, NEW c \in Call, NEW request \in CallRecord, Request(c, request),
         UNCHANGED <<program, page>>, request.answer = Waiting,
         request.op # "create" => request.list \in List,
         request.op = "deleteItem" => request.item \in Item
  PROVE  TypeInv'
<1>1. calls' = [calls EXCEPT ![c] = request] /\ hurried' \in BOOLEAN
  BY DEF Request, Click, TypeInv, TypeOK
<1>2. TypeOK'
  BY <1>1 DEF TypeInv, TypeOK, program, page
<1>3. calls' \in [Call -> CallRecord]
  BY <1>1 DEF TypeInv
<1>4. CallSubject'
  BY <1>1 DEF TypeInv, CallSubject, Granted
<1> QED
  BY <1>2, <1>3, <1>4 DEF TypeInv

LEMMA ListCallType ==
  ASSUME TypeInv, NEW c \in Call, NEW l \in List, LoadList(c, l) \/ DeleteList(c, l)
  PROVE  TypeInv'
<1>1. CASE LoadList(c, l)
  BY <1>1, IdleType, RequestType DEF LoadList, CallRecord, Op
<1>2. CASE DeleteList(c, l)
  BY <1>2, IdleType, RequestType DEF DeleteList, CallRecord, Op
<1> QED
  BY <1>1, <1>2

LEMMA ItemCallType ==
  ASSUME TypeInv, NEW c \in Call,
         CreateList(c) \/ AddOrUpdate(c) \/ \E i \in Item : DeleteItem(c, i)
  PROVE  TypeInv'
<1>1. CASE CreateList(c)
  BY <1>1, IdleType, RequestType DEF CreateList, CallRecord, Op
<1>2. CASE AddOrUpdate(c)
  <2>1. /\ currentListId \in List /\ form.editUid \in Item \cup {NoItem}
        /\ form.filled \in Item \cup {NoItem}
    BY <1>2 DEF AddOrUpdate, TypeInv, TypeOK
  <2> QED
    BY <1>2, <2>1, IdleType, RequestType DEF AddOrUpdate, CallRecord, Op
<1>3. ASSUME NEW i \in Item, DeleteItem(c, i)
      PROVE  TypeInv'
  <2>1. currentListId \in List
    BY <1>3 DEF DeleteItem, TypeInv, TypeOK
  <2> QED
    BY <1>3, <2>1, IdleType, RequestType DEF DeleteItem, CallRecord, Op
<1> QED
  BY <1>1, <1>2, <1>3

(* Filling and clearing the form.                                          *)
LEMMA FormType ==
  ASSUME TypeInv, ClearForm \/ \E i \in Item : PopulateFormForEdit(i)
  PROVE  TypeInv'
<1>1. /\ form' \in [editUid : Item \cup {NoItem}, filled : Item \cup {NoItem}]
      /\ UNCHANGED <<program, currentListId, heading, shown, calls>>
  BY DEF PopulateFormForEdit, ClearForm, EmptyForm
<1>2. hurried' \in BOOLEAN
  BY DEF PopulateFormForEdit, ClearForm, Click
<1> QED
  BY <1>1, <1>2 DEF TypeInv, TypeOK, CallSubject, Granted, program

(* Adding an item to what a list holds, or changing it.                    *)
LEMMA RowsSaved ==
  ASSUME NEW rows \in Rows, NEW i \in Item, NEW v \in Value
  PROVE  [j \in DOMAIN rows \cup {i} |-> IF j = i THEN v ELSE rows[j]] \in Rows
<1>1. PICK items \in SUBSET Item : rows \in [items -> Value]
  BY DEF Rows
<1> DEFINE more == [j \in DOMAIN rows \cup {i} |-> IF j = i THEN v ELSE rows[j]]
<1>2. more \in [items \cup {i} -> Value]
  BY <1>1
<1>3. items \cup {i} \in SUBSET Item
  BY <1>1
<1> HIDE DEF more
<1>4. more \in Rows
  BY <1>2, <1>3 DEF Rows
<1> QED
  BY <1>4 DEF more

LEMMA RowsRemoved ==
  ASSUME NEW rows \in Rows, NEW i \in Item
  PROVE  [j \in DOMAIN rows \ {i} |-> rows[j]] \in Rows
<1>1. PICK items \in SUBSET Item : rows \in [items -> Value]
  BY DEF Rows
<1>2. [j \in DOMAIN rows \ {i} |-> rows[j]] \in [items \ {i} -> Value]
  BY <1>1
<1>3. items \ {i} \in SUBSET Item
  BY <1>1
<1> QED
  BY <1>2, <1>3 DEF Rows

(* What the program does changes the call's answer and the lists only.     *)
LEMMA AnswerType ==
  ASSUME TypeInv, NEW c \in Call, calls[c] # Idle, UNCHANGED <<page, hurried>>,
         server' \in [List -> Rows \cup {Unborn, Gone}], used' \subseteq Item,
         lost' \subseteq List,
         NEW list \in List \cup {NoList}, NEW answer \in Rows \cup {Waiting, Failed},
         calls' = [calls EXCEPT ![c] = [@ EXCEPT !.list = list, !.answer = answer]],
         list = calls[c].list \/ list \in List,
         calls[c].op = "create" /\ answer # Failed => list \in List
  PROVE  TypeInv'
<1>1. TypeOK'
  BY DEF TypeInv, TypeOK, page
<1>2. calls' \in [Call -> CallRecord]
  BY DEF TypeInv, CallRecord
<1>3. CallSubject'
  <2> SUFFICES ASSUME NEW d \in Call
               PROVE  /\ calls'[d].op \in {"load", "deleteList", "save", "deleteItem", "refresh"}
                           => calls'[d].list \in List
                      /\ calls'[d].op = "create" /\ calls'[d].answer \notin {Waiting, Failed}
                           => calls'[d].list \in List
                      /\ calls'[d].op = "deleteItem" => calls'[d].item \in Item
    BY DEF CallSubject, Granted
  <2>1. CASE d = c
    BY <2>1 DEF TypeInv, CallRecord, CallSubject
  <2>2. CASE d # c
    BY <2>2 DEF TypeInv, CallSubject, Granted
  <2> QED
    BY <2>1, <2>2
<1> QED
  BY <1>1, <1>2, <1>3 DEF TypeInv

LEMMA HandleType ==
  ASSUME TypeInv, NEW c \in Call, HandleRequest(c)
  PROVE  TypeInv'
<1> DEFINE l == calls[c].list
<1>0. /\ calls[c] # Idle /\ calls[c].answer = Waiting /\ UNCHANGED <<page, hurried>>
      /\ calls[c] \in CallRecord /\ calls \in [Call -> CallRecord]
      /\ l \in List \cup {NoList}
      /\ server \in [List -> Rows \cup {Unborn, Gone}] /\ used \subseteq Item
      /\ lost \subseteq List
      /\ << >> \in Rows
  BY EmptyRows DEF HandleRequest, TypeInv, TypeOK, CallRecord
(* All but PutList leave the call's list as it is.                         *)
<1>1. ASSUME NEW answer \in Rows \cup {Waiting, Failed}, Answer(c, answer),
             server' \in [List -> Rows \cup {Unborn, Gone}], used' \subseteq Item,
             lost' \subseteq List, calls[c].op # "create" \/ answer = Failed
      PROVE  TypeInv'
  <2>1. calls' = [calls EXCEPT ![c] = [@ EXCEPT !.list = l, !.answer = answer]]
    BY <1>0, <1>1 DEF Answer, CallRecord
  <2> QED
    BY <1>0, <1>1, <2>1, AnswerType
<1>9. ASSUME Changed(c, l), l \in List, calls[c].op # "create",
             server' \in [List -> Rows \cup {Unborn, Gone}], used' \subseteq Item
      PROVE  TypeInv'
  <2>1. CASE Answer(c, << >>) /\ UNCHANGED lost
    BY <1>0, <1>1, <1>9, <2>1
  <2>2. CASE Answer(c, Failed) /\ lost' = lost \cup {l}
    BY <1>0, <1>1, <1>9, <2>2
  <2> QED
    BY <1>9, <2>1, <2>2 DEF Changed
<1>2. CASE GetList(c)
  <2>1. l \in List
    BY <1>2 DEF GetList, TypeInv, CallSubject
  <2>2. server[l] \in Rows
    BY <1>0, <1>2, <2>1 DEF GetList, Loaded
  <2> QED
    BY <1>0, <1>1, <1>2, <2>2 DEF GetList
<1>3. CASE PutList(c)
  <2>1. PICK k \in List :
          /\ server' = [server EXCEPT ![k] = << >>]
          /\ \/ /\ calls' = [calls EXCEPT ![c].list = k, ![c].answer = << >>]
                /\ UNCHANGED lost
             \/ Answer(c, Failed) /\ lost' = lost \cup {k}
    BY <1>3 DEF PutList
  <2>2. server' \in [List -> Rows \cup {Unborn, Gone}] /\ used' \subseteq Item
    BY <1>0, <1>3, <2>1 DEF PutList
  <2>3. CASE calls' = [calls EXCEPT ![c].list = k, ![c].answer = << >>] /\ UNCHANGED lost
    <3>1. calls' = [calls EXCEPT ![c] = [@ EXCEPT !.list = k, !.answer = << >>]]
      BY <1>0, <2>3
    <3> QED
      BY <1>0, <2>2, <2>3, <3>1, AnswerType
  <2>4. CASE Answer(c, Failed) /\ lost' = lost \cup {k}
    BY <1>0, <1>1, <2>2, <2>4
  <2> QED
    BY <2>1, <2>3, <2>4
<1>4. CASE RemoveList(c)
  <2>1. server' \in [List -> Rows \cup {Unborn, Gone}]
    BY <1>0, <1>4 DEF RemoveList
  <2>2. l \in List
    BY <1>4 DEF RemoveList, TypeInv, CallSubject
  <2> QED
    BY <1>0, <1>9, <1>4, <2>1, <2>2 DEF RemoveList
<1>5. CASE SaveItem(c)
  <2>1. l \in List /\ server[l] \in Rows
    BY <1>0, <1>5 DEF SaveItem, TypeInv, CallSubject, Loaded
  <2>2. PICK i \in IF calls[c].item = NoItem THEN Item \ used ELSE {calls[c].item} :
          /\ used' = used \cup {i}
          /\ \E v \in Value :
               server' = [server EXCEPT ![l] =
                 [j \in DOMAIN @ \cup {i} |-> IF j = i THEN v ELSE @[j]]]
    BY <1>5 DEF SaveItem
  <2>3. i \in Item
    BY <1>0 DEF CallRecord
  <2>4. PICK v \in Value :
          server' = [server EXCEPT ![l] =
                 [j \in DOMAIN @ \cup {i} |-> IF j = i THEN v ELSE @[j]]]
    BY <2>2
  <2>5. [j \in DOMAIN server[l] \cup {i} |-> IF j = i THEN v ELSE server[l][j]] \in Rows
    BY <2>1, <2>3, RowsSaved
  <2>6. server' \in [List -> Rows \cup {Unborn, Gone}] /\ used' \subseteq Item
    BY <1>0, <2>1, <2>2, <2>5, <2>3, <2>4
  <2> QED
    BY <1>9, <1>5, <2>1, <2>6 DEF SaveItem
<1>6. CASE RemoveItem(c)
  <2>1. l \in List /\ server[l] \in Rows /\ calls[c].item \in Item
    BY <1>0, <1>6 DEF RemoveItem, TypeInv, CallSubject, Loaded
  <2>2. server' = [server EXCEPT ![l] = [j \in DOMAIN @ \ {calls[c].item} |-> @[j]]]
    BY <1>6 DEF RemoveItem
  <2>3. [j \in DOMAIN server[l] \ {calls[c].item} |-> server[l][j]] \in Rows
    BY <2>1, RowsRemoved
  <2> QED
    BY <1>0, <1>9, <1>6, <2>1, <2>2, <2>3 DEF RemoveItem
<1>7. CASE Refuse(c)
  BY <1>0, <1>1, <1>7 DEF Refuse, program
<1> QED
  BY <1>2, <1>3, <1>4, <1>5, <1>6, <1>7 DEF HandleRequest

(* How a call ends: the page takes something over from it, or nothing.     *)
LEMMA DoneType ==
  ASSUME TypeInv, NEW c \in Call, Done(c), UNCHANGED <<program, hurried>>,
         currentListId' \in List \cup {NoList},
         heading' \in [name : List \cup {NoList}, uid : List \cup {NoList}],
         shown' \in [list : List \cup {NoList}, rows : Rows],
         form' \in [editUid : Item \cup {NoItem}, filled : Item \cup {NoItem}]
  PROVE  TypeInv'
<1>1. calls' = [calls EXCEPT ![c] = Idle]
  BY DEF Done
<1>2. TypeOK'
  BY <1>1 DEF TypeInv, TypeOK, program
<1>3. calls' \in [Call -> CallRecord] /\ CallSubject'
  BY <1>1, IdleType DEF TypeInv, CallSubject, Granted
<1> QED
  BY <1>2, <1>3 DEF TypeInv

LEMMA RefreshType ==
  ASSUME TypeInv, NEW c \in Call, RefreshList(c),
         UNCHANGED <<program, hurried, currentListId, heading>>,
         form' \in [editUid : Item \cup {NoItem}, filled : Item \cup {NoItem}]
  PROVE  TypeInv'
<1>1. CASE currentListId = NoList
  BY <1>1, EmptyRows, DoneType DEF RefreshList, Message, TypeInv, TypeOK
<1>2. CASE currentListId # NoList
  <2> DEFINE refresh == [Idle EXCEPT !.op = "refresh", !.list = currentListId]
  <2>1. calls' = [calls EXCEPT ![c] = refresh] /\ shown' = shown
    BY <1>2 DEF RefreshList
  <2>2. refresh \in CallRecord /\ refresh.op = "refresh" /\ refresh.list \in List
    BY <1>2, IdleType DEF CallRecord, Op, TypeInv, TypeOK
  <2> HIDE DEF refresh
  <2>3. TypeOK'
    BY <2>1 DEF TypeInv, TypeOK, program
  <2>4. calls' \in [Call -> CallRecord] /\ CallSubject'
    BY <2>1, <2>2 DEF TypeInv, CallSubject, Granted
  <2> QED
    BY <2>3, <2>4 DEF TypeInv
<1> QED
  BY <1>1, <1>2

LEMMA ContinueType ==
  ASSUME TypeInv, NEW c \in Call, Continue(c)
  PROVE  TypeInv'
<1>0. UNCHANGED <<program, hurried>> /\ TypeOK /\ calls[c] \in CallRecord
  BY DEF Continue, TypeInv
<1>1. CASE Select(c)
  <2>1. calls[c].list \in List /\ calls[c].answer \in Rows
    BY <1>0, <1>1 DEF Select, Answered, Granted, CallRecord, TypeInv, CallSubject
  <2> QED
    BY <1>0, <1>1, <2>1, DoneType DEF Select, TypeOK
<1>2. CASE Deselect(c)
  BY <1>0, <1>2, EmptyRows, DoneType DEF Deselect, Nothing, Message, EmptyForm
<1>3. CASE Saved(c)
  BY <1>0, <1>3, RefreshType DEF Saved, EmptyForm
<1>4. CASE ItemDeleted(c)
  BY <1>0, <1>4, RefreshType DEF ItemDeleted, TypeOK
<1>5. CASE Refreshed(c)
  <2>1. calls[c].list \in List /\ calls[c].answer \in Rows
    BY <1>0, <1>5 DEF Refreshed, Answered, CallRecord, TypeInv, CallSubject
  <2> QED
    BY <1>0, <1>5, <2>1, DoneType DEF Refreshed, TypeOK
<1>6. CASE CallFailed(c)
  <2>1. shown' \in [list : List \cup {NoList}, rows : Rows]
    BY <1>0, <1>6, EmptyRows DEF CallFailed, Message, TypeOK
  <2> QED
    BY <1>0, <1>6, <2>1, DoneType DEF CallFailed, TypeOK
<1> QED
  BY <1>1, <1>2, <1>3, <1>4, <1>5, <1>6 DEF Continue

LEMMA NextType == TypeInv /\ [Next]_vars => TypeInv'
<1> SUFFICES ASSUME TypeInv, [Next]_vars PROVE TypeInv'
  OBVIOUS
<1>1. CASE UNCHANGED vars
  BY <1>1 DEF vars, program, page, TypeInv, TypeOK, CallSubject, Granted
<1>2. ASSUME NEW c \in Call, HandleRequest(c) \/ Continue(c)
      PROVE  TypeInv'
  BY <1>2, HandleType, ContinueType
<1> QED
  BY <1>1, <1>2, ListCallType, ItemCallType, FormType DEF Next

(* The types of all that the page and its calls hold (TypeOK).             *)
THEOREM TypeCorrect == Spec => []TypeOK
<1>1. TypeInv => TypeOK
  BY DEF TypeInv
<1> QED
  BY <1>1, InitType, NextType, PTL DEF Spec

-----------------------------------------------------------------------------
(* The form: the fields and editUid change together.                       *)

FormInv ==
  /\ form.editUid = form.filled
  /\ SavesWhatWasFilled

(* The program answers a call, and leaves the others and its subject alone.*)
LEMMA HandleKeeps ==
  ASSUME TypeInv, NEW c \in Call, HandleRequest(c)
  PROVE  \A d \in Call :
           /\ d # c => calls'[d] = calls[d]
           /\ calls'[d].op = calls[d].op
           /\ calls'[d].item = calls[d].item
           /\ calls'[d].from = calls[d].from
           /\ calls[d].op # "create" => calls'[d].list = calls[d].list
<1>0. calls \in [Call -> CallRecord]
  BY DEF TypeInv
<1>1. ASSUME calls[c].op = "create", NEW l \in List,
             calls' = [calls EXCEPT ![c].list = l, ![c].answer = << >>]
      PROVE  \A d \in Call :
               /\ d # c => calls'[d] = calls[d]
               /\ calls'[d].op = calls[d].op
               /\ calls'[d].item = calls[d].item
               /\ calls'[d].from = calls[d].from
               /\ calls[d].op # "create" => calls'[d].list = calls[d].list
  BY <1>0, <1>1 DEF CallRecord
<1>2. ASSUME NEW answer, Answer(c, answer)
      PROVE  \A d \in Call :
               /\ d # c => calls'[d] = calls[d]
               /\ calls'[d].op = calls[d].op
               /\ calls'[d].item = calls[d].item
               /\ calls'[d].from = calls[d].from
               /\ calls'[d].list = calls[d].list
  BY <1>0, <1>2 DEF Answer, CallRecord
<1>3. CASE PutList(c)
  BY <1>1, <1>2, <1>3 DEF PutList
<1>4. CASE Changed(c, calls[c].list)
  BY <1>2, <1>4 DEF Changed
<1> QED
  BY <1>2, <1>3, <1>4 DEF HandleRequest, GetList, RemoveList, SaveItem, RemoveItem, Refuse

LEMMA FormAlways ==
  /\ Init => FormInv
  /\ TypeInv /\ FormInv /\ [Next]_vars => FormInv'
<1>1. Init => FormInv
  BY IdleType DEF Init, FormInv, EmptyForm, SavesWhatWasFilled
<1> SUFFICES ASSUME TypeInv, FormInv, [Next]_vars PROVE FormInv'
  BY <1>1
<1>2. CASE UNCHANGED vars
  BY <1>2 DEF vars, page, FormInv, SavesWhatWasFilled
<1>3. ASSUME NEW c \in Call, CreateList(c) \/ AddOrUpdate(c)
                             \/ (\E l \in List : LoadList(c, l) \/ DeleteList(c, l))
                             \/ (\E i \in Item : DeleteItem(c, i))
      PROVE  FormInv'
  <2> DEFINE Matches(call) == call.op = "save" => call.item = call.from
  <2>1. ASSUME NEW request, Request(c, request), form' = form, Matches(request)
        PROVE  FormInv'
    BY <2>1 DEF Request, FormInv, SavesWhatWasFilled, TypeInv
  <2>2. CASE AddOrUpdate(c)
    BY <2>1, <2>2 DEF AddOrUpdate, page, FormInv, Idle
  <2>3. CASE CreateList(c)
    BY <2>1, <2>3 DEF CreateList, page, Idle
  <2>4. CASE \E l \in List : LoadList(c, l) \/ DeleteList(c, l)
    BY <2>1, <2>4 DEF LoadList, DeleteList, page, Idle
  <2>5. CASE \E i \in Item : DeleteItem(c, i)
    BY <2>1, <2>5 DEF DeleteItem, page, Idle
  <2> QED
    BY <1>3, <2>2, <2>3, <2>4, <2>5
<1>4. CASE ClearForm \/ \E i \in Item : PopulateFormForEdit(i)
  BY <1>4 DEF ClearForm, PopulateFormForEdit, EmptyForm, FormInv, SavesWhatWasFilled
<1>5. ASSUME NEW c \in Call, HandleRequest(c)
      PROVE  FormInv'
  <2>1. form' = form
    BY <1>5 DEF HandleRequest, page
  <2> QED
    BY <1>5, <2>1, HandleKeeps DEF FormInv, SavesWhatWasFilled
<1>6. ASSUME NEW c \in Call, Continue(c)
      PROVE  FormInv'
  <2>1. form' = form \/ form' = EmptyForm
    BY <1>6 DEF Continue, Select, Deselect, Saved, ItemDeleted, Refreshed, CallFailed
  <2>2. calls' = [calls EXCEPT ![c] = Idle]
        \/ calls' = [calls EXCEPT ![c] =
                       [Idle EXCEPT !.op = "refresh", !.list = currentListId]]
    BY <1>6 DEF Continue, Select, Deselect, Saved, ItemDeleted, Refreshed, CallFailed,
                Done, RefreshList
  <2>3. \A d \in Call : calls'[d].op = "save" => calls'[d] = calls[d]
    BY <2>2, IdleType DEF TypeInv, Idle
  <2> QED
    BY <2>1, <2>3 DEF FormInv, SavesWhatWasFilled, EmptyForm
<1> QED
  BY <1>2, <1>3, <1>4, <1>5, <1>6 DEF Next

(* In any hurry, an item is only updated with fields that were filled from *)
(* it, and a new one is not made of the fields of another                  *)
(* (SavesWhatWasFilled; app.js:165-174).                                   *)
THEOREM FieldsGoWhereTheyBelong == Spec => []SavesWhatWasFilled
<1>1. FormInv => SavesWhatWasFilled
  BY DEF FormInv
<1> QED
  BY <1>1, InitType, NextType, FormAlways, PTL DEF Spec

-----------------------------------------------------------------------------
(* A user who waits for every answer.                                      *)

(* There is one call at a time then.                                       *)
OneCall == \A c, d \in Call : calls[c] # Idle /\ calls[d] # Idle => c = d

(* What is current stays so while the call for its refreshment runs.       *)
PageMatches ==
  /\ heading = [name |-> currentListId, uid |-> currentListId]
  /\ shown.list \in {NoList, currentListId}
  /\ \A c \in Call : calls[c].op = "refresh" => calls[c].list = currentListId

(* The exception: the answer to an edit of the list was lost.              *)
Fresh == shown.list \notin {NoList} \cup lost => shown.rows = server[shown.list]

(* Calls that will bring the page up to date with what they read or changed*)
WillFreshen(c) ==
  \/ calls[c].op = "refresh"
  \/ calls[c].op \in {"load", "create", "deleteList", "save", "deleteItem"} /\ Granted(c)

(* An answer is what the program still has when the page gets to see it.   *)
AnswersFresh ==
  \A c \in Call :
    calls[c].op \in {"load", "create", "refresh"} /\ Granted(c) =>
      calls[c].answer = server[calls[c].list]

PatientInv ==
  ~ hurried => /\ OneCall /\ PageMatches /\ AnswersFresh
               /\ Fresh \/ \E c \in Call : WillFreshen(c)

LEMMA InitPatient == Init => PatientInv
BY IdleType DEF Init, PatientInv, OneCall, PageMatches, AnswersFresh, Fresh, Nothing, Message

(* A patient user begins with a page that is settled.                      *)
LEMMA RequestPatient ==
  ASSUME TypeInv, PatientInv, NEW c \in Call, NEW request, Request(c, request),
         UNCHANGED <<program, page>>, request.answer = Waiting, request.op # "refresh"
  PROVE  PatientInv'
<1> SUFFICES ASSUME ~ hurried' PROVE PatientInv'
  BY DEF PatientInv
<1>1. /\ ~ hurried /\ \A d \in Call : calls[d] = Idle
      /\ calls' = [calls EXCEPT ![c] = request]
  BY DEF Request, Click, Settled
<1>2. OneCall' /\ PageMatches' /\ AnswersFresh'
  BY <1>1, IdleType DEF PatientInv, OneCall, PageMatches, AnswersFresh, Granted, TypeInv,
                        program, page
<1>3. Fresh'
  BY <1>1, IdleType DEF PatientInv, Fresh, WillFreshen, Granted, program, page
<1> QED
  BY <1>2, <1>3 DEF PatientInv

(* While the program works, the page waits: what it changes makes the call *)
(* one that will freshen the page.                                         *)
LEMMA HandlePatient ==
  ASSUME TypeInv, PatientInv, NEW c \in Call, HandleRequest(c)
  PROVE  PatientInv'
<1> SUFFICES ASSUME ~ hurried' PROVE PatientInv'
  BY DEF PatientInv
<1>0. /\ ~ hurried /\ UNCHANGED page /\ calls[c] # Idle /\ calls[c].answer = Waiting
      /\ calls \in [Call -> CallRecord] /\ server \in [List -> Rows \cup {Unborn, Gone}]
  BY DEF HandleRequest, TypeInv, TypeOK
<1>1. \A d \in Call : d # c => calls'[d] = Idle /\ calls[d] = Idle
  BY <1>0, HandleKeeps DEF PatientInv, OneCall
<1>2. OneCall'
  BY <1>1 DEF OneCall
<1>3. PageMatches'
  BY <1>0, HandleKeeps DEF PatientInv, PageMatches, page
(* A call that failed answers nothing.                                     *)
<1>4. ASSUME Answer(c, Failed)
      PROVE  AnswersFresh'
  BY <1>0, <1>1, <1>4, IdleType DEF Answer, AnswersFresh, Granted, CallRecord
<1>5. AnswersFresh'
  <2>1. CASE GetList(c)
    BY <1>0, <1>1, <2>1, IdleType DEF GetList, Answer, AnswersFresh, CallRecord
  <2>2. CASE PutList(c)
    <3>1. PICK l \in List :
            /\ server' = [server EXCEPT ![l] = << >>]
            /\ \/ calls' = [calls EXCEPT ![c].list = l, ![c].answer = << >>]
               \/ Answer(c, Failed)
      BY <2>2 DEF PutList
    <3>2. CASE calls' = [calls EXCEPT ![c].list = l, ![c].answer = << >>]
      BY <1>0, <1>1, <3>1, <3>2, IdleType DEF AnswersFresh, CallRecord
    <3> QED
      BY <1>4, <3>1, <3>2
  <2>3. CASE Refuse(c)
    BY <1>4, <2>3 DEF Refuse
  <2>4. CASE RemoveList(c) \/ SaveItem(c) \/ RemoveItem(c)
    <3>1. calls'[c].op \in {"deleteList", "save", "deleteItem"}
      BY <2>4, HandleKeeps DEF RemoveList, SaveItem, RemoveItem
    <3> QED
      BY <1>1, <3>1, IdleType DEF AnswersFresh
  <2> QED
    BY <2>1, <2>2, <2>3, <2>4 DEF HandleRequest
<1>6. (Fresh \/ \E d \in Call : WillFreshen(d))'
  <2>1. calls[c].op # "refresh" => Fresh
    <3>1. \A d \in Call : WillFreshen(d) => d = c
      BY <1>1, IdleType DEF WillFreshen, Granted
    <3>2. WillFreshen(c) => calls[c].op = "refresh"
      BY <1>0 DEF WillFreshen, Granted
    <3> QED
      BY <1>0, <3>1, <3>2 DEF PatientInv
  <2>2. calls'[c].op = calls[c].op
    BY HandleKeeps
  <2>3. calls[c].op = "refresh" => WillFreshen(c)'
    BY <2>2 DEF WillFreshen
(* It was carried out and answered, ...                                    *)
  <2>4. ASSUME calls'[c].answer \in Rows,
               calls[c].op \in {"load", "create", "deleteList", "save", "deleteItem"}
        PROVE  WillFreshen(c)'
    BY <2>2, <2>4, EmptyRows DEF WillFreshen, Granted
(* ... or carried out and the answer lost.                                 *)
  <2>5. ASSUME NEW l, lost' = lost \cup {l}, calls[c].op # "refresh",
               \A k \in List : k # l => server'[k] = server[k]
        PROVE  Fresh'
    <3>1. shown.list \in List \cup {NoList} /\ shown' = shown
      BY <1>0 DEF TypeInv, TypeOK, page
    <3> QED
      BY <2>1, <2>5, <3>1 DEF Fresh
  <2>6. << >> \in Rows /\ \A answer : Answer(c, answer) => calls'[c].answer = answer
    BY <1>0, EmptyRows DEF Answer, CallRecord
  <2>7. CASE GetList(c)
    <3>1. calls[c].op # "refresh" =>
            calls[c].op = "load" /\ server[calls[c].list] \in Rows
      BY <1>0, <2>7 DEF GetList, Loaded, TypeInv, CallSubject
    <3> QED
      BY <2>3, <2>4, <2>6, <2>7, <3>1 DEF GetList
  <2>8. CASE PutList(c)
    <3>1. PICK l \in List :
            /\ server' = [server EXCEPT ![l] = << >>]
            /\ \/ calls' = [calls EXCEPT ![c].list = l, ![c].answer = << >>]
               \/ lost' = lost \cup {l}
      BY <2>8 DEF PutList
    <3>2. calls[c].op = "create"
      BY <2>8 DEF PutList
    <3>3. CASE calls' = [calls EXCEPT ![c].list = l, ![c].answer = << >>]
      <4>1. calls'[c].answer = << >>
        BY <1>0, <3>3 DEF CallRecord
      <4> QED
        BY <2>4, <2>6, <3>2, <4>1
    <3>4. CASE lost' = lost \cup {l}
      BY <1>0, <2>5, <3>1, <3>2, <3>4
    <3> QED
      BY <3>1, <3>3, <3>4
  <2>9. CASE RemoveList(c) \/ SaveItem(c) \/ RemoveItem(c)
    <3>1. /\ calls[c].op \in {"deleteList", "save", "deleteItem"}
          /\ Changed(c, calls[c].list)
      BY <2>9 DEF RemoveList, SaveItem, RemoveItem
    <3>2. \A k \in List : k # calls[c].list => server'[k] = server[k]
      BY <1>0, <2>9 DEF RemoveList, SaveItem, RemoveItem
    <3>3. CASE Answer(c, << >>)
      BY <2>4, <2>6, <3>1, <3>3
    <3>4. CASE lost' = lost \cup {calls[c].list}
      BY <2>5, <3>1, <3>2, <3>4
    <3> QED
      BY <3>1, <3>3, <3>4 DEF Changed
  <2>10. CASE Refuse(c)
    <3>1. Fresh => Fresh'
      BY <1>0, <2>10 DEF Refuse, Fresh, program, page
    <3> QED
      BY <2>1, <2>3, <3>1
  <2> QED
    BY <2>7, <2>8, <2>9, <2>10 DEF HandleRequest
<1> QED
  BY <1>2, <1>3, <1>5, <1>6 DEF PatientInv

(* When the last call is over, the page is fresh.                          *)
LEMMA DonePatient ==
  ASSUME TypeInv, PatientInv, NEW c \in Call, calls[c] # Idle, Done(c),
         UNCHANGED <<program, hurried>>,
         ~ hurried => /\ heading' = [name |-> currentListId', uid |-> currentListId']
                      /\ shown'.list \in {NoList, currentListId'}
                      /\ Fresh'
  PROVE  PatientInv'
<1> SUFFICES ASSUME ~ hurried PROVE PatientInv'
  BY DEF PatientInv
<1>1. \A d \in Call : calls'[d] = Idle
  BY IdleType DEF PatientInv, OneCall, Done, TypeInv
<1> QED
  BY <1>1, IdleType DEF PatientInv, OneCall, PageMatches, AnswersFresh, Fresh

(* After an edit the list that is current is asked for.                    *)
LEMMA RefreshPatient ==
  ASSUME TypeInv, PatientInv, NEW c \in Call, calls[c] # Idle, RefreshList(c),
         UNCHANGED <<program, hurried, currentListId, heading>>
  PROVE  PatientInv'
<1>1. CASE currentListId = NoList
  BY <1>1, DonePatient DEF RefreshList, PatientInv, PageMatches, Fresh, Message
<1>2. CASE currentListId # NoList
  <2> DEFINE refresh == [Idle EXCEPT !.op = "refresh", !.list = currentListId]
  <2>1. calls' = [calls EXCEPT ![c] = refresh] /\ shown' = shown
    BY <1>2 DEF RefreshList
  <2>2. /\ refresh.op = "refresh" /\ refresh.list = currentListId
        /\ refresh.answer = Waiting
    BY DEF Idle
  <2> HIDE DEF refresh
  <2> SUFFICES ASSUME ~ hurried PROVE PatientInv'
    BY DEF PatientInv
  <2>3. \A d \in Call : d # c => calls'[d] = Idle
    BY <2>1, IdleType DEF PatientInv, OneCall, TypeInv
  <2>4. calls'[c] = refresh
    BY <2>1 DEF TypeInv
  <2> QED
    BY <2>1, <2>2, <2>3, <2>4, IdleType
       DEF PatientInv, OneCall, PageMatches, AnswersFresh, Granted, WillFreshen
<1> QED
  BY <1>1, <1>2

LEMMA ContinuePatient ==
  ASSUME TypeInv, PatientInv, NEW c \in Call, Continue(c)
  PROVE  PatientInv'
<1>0. UNCHANGED <<program, hurried>> /\ calls[c] # Idle
  <2>1. calls[c].answer # Waiting
    BY WebPageAssumption DEF Continue, Select, Deselect, Saved, ItemDeleted, Refreshed,
                             CallFailed, Answered
  <2> QED
    BY <2>1, IdleType DEF Continue
<1>1. CASE Select(c)
  <2>1. ~ hurried => calls[c].answer = server[calls[c].list]
    BY <1>1 DEF Select, Answered, PatientInv, AnswersFresh, Granted
  <2> QED
    BY <1>0, <1>1, <2>1, DonePatient DEF Select, Answered, Fresh, program
<1>2. CASE Deselect(c)
  BY <1>0, <1>2, DonePatient DEF Deselect, Answered, Fresh, Nothing, Message
<1>3. CASE Saved(c)
  BY <1>0, <1>3, RefreshPatient DEF Saved, Answered
<1>4. CASE ItemDeleted(c)
  BY <1>0, <1>4, RefreshPatient DEF ItemDeleted, Answered
<1>5. CASE Refreshed(c)
  <2>1. ~ hurried => /\ calls[c].answer = server[calls[c].list]
                     /\ calls[c].list = currentListId
    BY <1>5 DEF Refreshed, Answered, PatientInv, PageMatches, AnswersFresh, Granted
  <2> QED
    BY <1>0, <1>5, <2>1, DonePatient DEF Refreshed, Answered, Fresh, program
<1>6. CASE CallFailed(c)
  <2>1. ASSUME ~ hurried, calls[c].op # "refresh"
        PROVE  Fresh
    <3>1. \A d \in Call : WillFreshen(d) => d = c
      BY <1>0, <2>1, IdleType DEF PatientInv, OneCall, WillFreshen
    <3>2. ~ WillFreshen(c)
      BY <1>6, <2>1 DEF CallFailed, WillFreshen, Granted
    <3> QED
      BY <2>1, <3>1, <3>2 DEF PatientInv
  <2> QED
    BY <1>0, <1>6, <2>1, DonePatient
       DEF CallFailed, Fresh, Message, PatientInv, PageMatches, program
<1> QED
  BY <1>1, <1>2, <1>3, <1>4, <1>5, <1>6 DEF Continue

LEMMA NextPatient == TypeInv /\ PatientInv /\ [Next]_vars => PatientInv'
<1> SUFFICES ASSUME TypeInv, PatientInv, [Next]_vars PROVE PatientInv'
  OBVIOUS
<1>1. CASE UNCHANGED vars
  BY <1>1 DEF vars, program, page, PatientInv, OneCall, PageMatches, AnswersFresh, Fresh,
              WillFreshen, Granted
<1>2. ASSUME NEW c \in Call, HandleRequest(c) \/ Continue(c)
      PROVE  PatientInv'
  BY <1>2, HandlePatient, ContinuePatient
<1>3. ASSUME NEW c \in Call, CreateList(c) \/ AddOrUpdate(c)
      PROVE  PatientInv'
  BY <1>3, RequestPatient DEF CreateList, AddOrUpdate, Idle
<1>4. ASSUME NEW c \in Call, NEW l \in List, LoadList(c, l) \/ DeleteList(c, l)
      PROVE  PatientInv'
  BY <1>4, RequestPatient DEF LoadList, DeleteList, Idle
<1>5. ASSUME NEW c \in Call, NEW i \in Item, DeleteItem(c, i)
      PROVE  PatientInv'
  BY <1>5, RequestPatient DEF DeleteItem, Idle
<1>6. CASE ClearForm \/ \E i \in Item : PopulateFormForEdit(i)
  <2>1. /\ hurried' = (hurried \/ ~ Settled)
        /\ UNCHANGED <<program, currentListId, heading, shown, calls>>
    BY <1>6 DEF ClearForm, PopulateFormForEdit, Click
  <2> QED
    BY <2>1 DEF PatientInv, OneCall, PageMatches, AnswersFresh, Fresh, WillFreshen, Granted,
                program
<1> QED
  BY <1>1, <1>2, <1>3, <1>4, <1>5, <1>6 DEF Next

LEMMA PatientHolds == Spec => []PatientInv
BY InitType, NextType, InitPatient, NextPatient, PTL DEF Spec

(* With a user who waits for every answer, the heading names the list that *)
(* the form writes to, and the items shown are of that list                *)
(* (ShownIsCurrent; index.html:30, app.js:143-145, 201-205).               *)
THEOREM PatientUserSeesCurrentList == Spec => []ShownIsCurrent
<1>1. PatientInv => ShownIsCurrent
  BY DEF PatientInv, PageMatches, ShownIsCurrent
<1> QED
  BY <1>1, PatientHolds, PTL

(* With a user who waits for every answer, the items shown are those the   *)
(* client program has, also after edits that it refused, and after those it*)
(* carried out, unless the answer to one of them was lost: also then from  *)
(* the next time that the list is asked for (ShownIsFresh; app.js:173-178, *)
(* 186-190).                                                               *)
THEOREM PatientUserSeesFreshItems == Spec => []ShownIsFresh
<1>1. PatientInv => ShownIsFresh
  BY IdleType DEF PatientInv, Fresh, WillFreshen, Settled, ShownIsFresh
<1> QED
  BY <1>1, PatientHolds, PTL
=============================================================================
