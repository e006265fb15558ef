----------------------------- MODULE MCDeletion -----------------------------
(* Replication with a history of the deletions that nodes have carried out.*)
EXTENDS MCReplication

VARIABLE deleted  \* the pairs <<n, l>> such that n has deleted list l

HistoryInit == Init /\ deleted = {}

HistoryNext ==
  /\ Next
  /\ deleted' = deleted \cup {x \in Node \X ListUid :
                                db[x[1]][x[2]] # NoList /\ db'[x[1]][x[2]] = NoList}

HistorySpec == HistoryInit /\ [][HistoryNext]_<<vars, deleted>>

(* A deleted list stays deleted ("This cannot be undone.", app.js:232): a  *)
(* node that has carried out a deletion does not store the list again.     *)
DeletionIsFinal == \A x \in deleted : db[x[1]][x[2]] = NoList

=============================================================================
