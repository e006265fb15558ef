--------------------------- MODULE ObservedRemoveSet ---------------------------
(***************************************************************************)
(* What a replicated observed-remove set promises, without saying how: an  *)
(* add is an event of its own, different from every other add; a removal   *)
(* at a replica kills exactly the adds that this replica has seen; merging *)
(* takes over what the other replica has seen and killed.  An element is   *)
(* visible where some seen add of it is not killed, so an add concurrent   *)
(* with a removal wins.                                                    *)
(***************************************************************************)
CONSTANTS Replica, Element, Stamp

VARIABLES
  seen,    \* seen[r]: the adds <<element, stamp>> replica r knows of
  killed   \* killed[r]: those of them replica r knows to be removed

vars == <<seen, killed>>

AddEvent == Element \X Stamp

AddsOf(r, e) == {x \in seen[r] : x[1] = e}

Visible(r) == {e \in Element : AddsOf(r, e) \ killed[r] # {}}

Init ==
  /\ seen   = [r \in Replica |-> {}]
  /\ killed = [r \in Replica |-> {}]

(* An add is a fresh event: no replica knows it yet.                       *)
Add(r, e) ==
  \E t \in Stamp :
    /\ \A s \in Replica : <<e, t>> \notin seen[s]
    /\ seen' = [seen EXCEPT ![r] = @ \cup {<<e, t>>}]
    /\ UNCHANGED killed

Remove(r, e) ==
  /\ e \in Visible(r)
  /\ killed' = [killed EXCEPT ![r] = @ \cup AddsOf(r, e)]
  /\ UNCHANGED seen

Merge(r, s) ==
  /\ seen'   = [seen   EXCEPT ![r] = @ \cup seen[s]]
  /\ killed' = [killed EXCEPT ![r] = @ \cup killed[s]]

Next ==
  \E r \in Replica :
    \/ \E e \in Element : Add(r, e) \/ Remove(r, e)
    \/ \E s \in Replica : Merge(r, s)

Spec == Init /\ [][Next]_vars

=============================================================================
