------------------------- MODULE NodeLifecycleProofs -------------------------
(***************************************************************************)
(* Proofs about module NodeLifecycle, for every set of nodes and number of *)
(* initial peers.                                                          *)
(***************************************************************************)
EXTENDS NodeLifecycle, TLAPS

(* A loop thread that is alive has its flag set, or is being stopped.      *)
Owned ==
  \A n \in Node :
    \/ running[n] \/ loop[n] = "ended"
    \/ command.step \in {"shutdown", "join"} /\ command.node = n

(* The node that is stopped has its object still, and its flag is down.    *)
Stopping ==
  command.step # "prompt" =>
    context[command.node] # "closed" /\ ~ running[command.node]

(* A node whose flag is set has an object.                                 *)
FlagHasObject == \A n \in Node : running[n] => context[n] = "open"

Inv == TypeOK /\ Owned /\ Stopping /\ FlagHasObject

LEMMA InitInv == Init => Inv
<1> SUFFICES ASSUME Init PROVE Inv
  OBVIOUS
<1>1. TypeOK
  <2>1. command \in [step : {"prompt", "shutdown", "join", "destroy"}, node : Node,
                     quit : BOOLEAN]
    BY DEF Init
  <2>2. connects = [n \in Node |-> 0]
    BY DEF Init
  <2>3. 0 \in 0 .. Peers
    BY NodeLifecycleAssumption
  <2> QED
    BY <2>1, <2>2, <2>3 DEF Init, TypeOK
<1>2. Owned /\ Stopping /\ FlagHasObject
  BY DEF Init, Owned, Stopping, FlagHasObject
<1> QED
  BY <1>1, <1>2 DEF Inv

LEMMA StartInv ==
  ASSUME Inv, NEW n \in Node, Start(n)
  PROVE  Inv'
<1>1. TypeOK'
  BY NodeLifecycleAssumption DEF Inv, TypeOK, Start
<1>2. Owned' /\ Stopping' /\ FlagHasObject'
  BY DEF Inv, TypeOK, Start, Owned, Stopping, FlagHasObject
<1> QED
  BY <1>1, <1>2 DEF Inv

LEMMA StopInv ==
  ASSUME Inv, NEW n \in Node, Stop(n) \/ Shutdown \/ Join
  PROVE  Inv'
<1>1. TypeOK'
  <2>1. CASE Stop(n)
    BY <2>1 DEF Inv, TypeOK, Stop
  <2>2. CASE Shutdown
    BY <2>2 DEF Inv, TypeOK, Shutdown
  <2>3. CASE Join
    BY <2>3 DEF Inv, TypeOK, Join
  <2> QED
    BY <2>1, <2>2, <2>3
<1>2. Owned' /\ Stopping' /\ FlagHasObject'
  <2>1. CASE Stop(n)
    BY <2>1 DEF Inv, TypeOK, Stop, Owned, Stopping, FlagHasObject
  <2>2. CASE Shutdown
    BY <2>2 DEF Inv, TypeOK, Shutdown, Owned, Stopping, FlagHasObject
  <2>3. CASE Join
    BY <2>3 DEF Inv, TypeOK, Join, Owned, Stopping, FlagHasObject
  <2> QED
    BY <2>1, <2>2, <2>3
<1> QED
  BY <1>1, <1>2 DEF Inv

LEMMA CloseInv ==
  ASSUME Inv, Destroy \/ Quit \/ Return
  PROVE  Inv'
<1>1. CASE Destroy
  <2>1. TypeOK'
    BY <1>1 DEF Inv, TypeOK, Destroy
  <2>2. Owned' /\ Stopping' /\ FlagHasObject'
    BY <1>1 DEF Inv, TypeOK, Destroy, Owned, Stopping, FlagHasObject
  <2> QED
    BY <2>1, <2>2 DEF Inv
<1>2. CASE Quit
  <2>1. TypeOK'
    BY <1>2 DEF Inv, TypeOK, Quit
  <2>2. Owned' /\ Stopping' /\ FlagHasObject'
    BY <1>2 DEF Inv, TypeOK, Quit, Owned, Stopping, FlagHasObject
  <2> QED
    BY <2>1, <2>2 DEF Inv
<1>3. CASE Return
  <2>1. TypeOK'
    BY <1>3 DEF Inv, TypeOK, Return
  <2>2. Owned' /\ Stopping' /\ FlagHasObject'
    BY <1>3 DEF Inv, TypeOK, Return, Owned, Stopping, FlagHasObject
  <2> QED
    BY <2>1, <2>2 DEF Inv
<1> QED
  BY <1>1, <1>2, <1>3

(* The loop thread touches neither the flag nor the context, and once it   *)
(* has ended it stays so.                                                  *)
LEMMA LoopInv ==
  ASSUME Inv, NEW n \in Node, LoopStep(n)
  PROVE  Inv'
<1>1. TypeOK'
  <2>1. CASE ConnectPeer(n)
    <3>1. connects[n] \in 0 .. Peers /\ connects[n] > 0
      BY <2>1 DEF Inv, TypeOK, ConnectPeer
    <3>2. connects[n] - 1 \in 0 .. Peers
      BY <3>1, NodeLifecycleAssumption
    <3>3. connects' \in [Node -> 0 .. Peers] /\ process' \in BOOLEAN
      BY <2>1, <3>2 DEF Inv, TypeOK, ConnectPeer
    <3> QED
      BY <2>1, <3>3 DEF Inv, TypeOK, ConnectPeer
  <2>2. CASE EnterLoop(n) \/ CheckRunning(n) \/ Poll(n) \/ Work(n)
    BY <2>2 DEF Inv, TypeOK, EnterLoop, CheckRunning, Poll, Work, Goes
  <2> QED
    BY <2>1, <2>2 DEF LoopStep
<1>2. /\ UNCHANGED <<command, context, running>>
      /\ \A m \in Node : loop[m] = "ended" => loop'[m] = "ended"
  BY DEF Inv, TypeOK, LoopStep, ConnectPeer, EnterLoop, CheckRunning, Poll, Work, Goes
<1>3. Owned' /\ Stopping' /\ FlagHasObject'
  BY <1>2 DEF Inv, Owned, Stopping, FlagHasObject
<1> QED
  BY <1>1, <1>3 DEF Inv

LEMMA NextInv == Inv /\ [Next]_vars => Inv'
<1> SUFFICES ASSUME Inv, [Next]_vars PROVE Inv'
  OBVIOUS
<1>1. CASE UNCHANGED vars
  BY <1>1 DEF vars, Inv, TypeOK, Owned, Stopping, FlagHasObject
<1>2. CASE Shutdown \/ Join
  BY <1>2, StopInv DEF Inv, TypeOK
<1>3. CASE \E n \in Node : Start(n) \/ Stop(n) \/ LoopStep(n)
  BY <1>3, StartInv, StopInv, LoopInv
<1>4. CASE Destroy \/ Quit \/ Return
  BY <1>4, CloseInv
<1> QED
  BY <1>1, <1>2, <1>3, <1>4 DEF Next

(* The sockets of a node are never closed under its loop thread            *)
(* (node.cpp:51-73): not by a command that comes while it connects, waits  *)
(* or works, and not when the node is stopped and started again.           *)
THEOREM LoopAlwaysOwnsSockets == Spec => []LoopOwnsSockets
<1>1. Inv => LoopOwnsSockets
  BY DEF Inv, TypeOK, Owned, Stopping, FlagHasObject, LoopOwnsSockets
<1> QED
  BY <1>1, InitInv, NextInv, PTL DEF Spec

(* TypeOK: in particular a loop never connects beyond its last peer        *)
(* (node.cpp:88-94).                                                       *)
THEOREM TypeCorrect == Spec => []TypeOK
<1>1. Inv => TypeOK
  BY DEF Inv
<1> QED
  BY <1>1, InitInv, NextInv, PTL DEF Spec
=============================================================================
