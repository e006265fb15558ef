------------------------------- MODULE Hearsay -------------------------------
(***************************************************************************)
(* Membership with a record, kept beside it, of what its timestamps are    *)
(* worth.  A node believes what others tell it about a peer as much as what*)
(* it hears from the peer itself (update_known_nodes keeps the later stamp,*)
(* whoever sent it), so a table says nothing of where it comes from.  The  *)
(* two history variables do: they never influence a step of Discovery.     *)
(***************************************************************************)
EXTENDS DiscoveryProperties

VARIABLES
  heard,  \* heard[n][p]: age of the latest word of p itself that reached n in time
  alive   \* alive[p]: age of the latest sign of life of p, by any clock that stamps

hearsayVars == <<vars, heard, alive>>

Sooner(age, other) == Min({age, other})

(* p runs, or a node that boots stamps p, a contact of its, as seen.       *)
Signs(lively) ==
  alive' = [p \in Node |-> IF p \in lively THEN Sooner(alive[p], 0) ELSE alive[p]]

(* The clock moves by d, and whoever runs gives a sign of life.            *)
Elapse(d) ==
  /\ heard' = [n \in Node |-> Moved(heard[n], d)]
  /\ alive' = [p \in Node |-> Sooner(alive[p] + d, IF up[p] THEN 0 ELSE MaxAge)]

(* A table begins anew.                                                    *)
HearNobody(n) == heard' = [heard EXCEPT ![n] = Nobody]

(* What m told n of itself.                                                *)
OwnWord(m, n) == [Nobody EXCEPT ![m] = pipe[m][n][m]]

(* Whom n evicts it has to hear again.                                     *)
Unheard(n) == [p \in Node |-> IF p \in Dead(n) THEN Unknown ELSE heard[n][p]]

HearsayInit ==
  /\ Init
  /\ heard = [n \in Node |-> Nobody]
  /\ alive = [p \in Node |-> IF p \in Bootstrap THEN 0 ELSE MaxAge]

HearsayNext ==
  \/ Tick /\ Elapse(1)
  \/ SetClockBack /\ Elapse(- ClockStep)
  \/ \E n \in Node :
       \/ DiscoveryRound(n) /\ heard' = [heard EXCEPT ![n] = Unheard(n)]
                            /\ UNCHANGED alive
       \/ AddNode(n) /\ HearNobody(n) /\ Signs({n} \cup ToSet(contacts'[n]))
       \/ StartNode(n) /\ HearNobody(n) /\ Signs({n} \cup ToSet(contacts[n]))
       \/ StopNode(n) /\ HearNobody(n) /\ UNCHANGED alive
       \/ \E m \in Node :
            /\ HandleDiscoveryFrame(m, n)
            /\ heard' = [heard EXCEPT ![n] = Freshest(@, OwnWord(m, n))]
            /\ UNCHANGED alive

HearsaySpec == HearsayInit /\ [][HearsayNext]_hearsayVars

-----------------------------------------------------------------------------

(***************************************************************************)
(* A peer is evicted only if its own last word is older than the timeout   *)
(* (or its stamp is ahead of a clock that was set back): no hearsay, however*)
(* stale, and no second message overtaken by it makes a node give up a peer*)
(* that it has heard itself in time (node.cpp:287-291, 332).               *)
(***************************************************************************)
OwnWordCounts ==
  \A n \in Node : \A p \in Dead(n) :
    heard[n][p] # Unknown => heard[n][p] > Timeout \/ known[n][p] < 0

(***************************************************************************)
(* A node keeps a peer over an eviction only if the peer ran, or was named *)
(* by a node that booted, within the timeout: nodes that tell each other of*)
(* a dead peer never make it look younger than it is, through however many *)
(* tables and messages the stamp has gone (node.cpp:263-276, 287-291).     *)
(***************************************************************************)
DeadPeersAge ==
  \A n \in Node : \A p \in Listed(Survivors(n)) \ {n} : alive[p] <= Timeout

=============================================================================
