---------------------------- MODULE NodeLifecycle ----------------------------
(***************************************************************************)
(* The life of Node objects (node/node.cpp): the command loop of           *)
(* cluster.cpp makes, starts, stops and destroys them in its own thread,   *)
(* and every running node has a thread for its loop.  All of them share    *)
(* one process.  What the loop does to lists and members is in Replication *)
(* and Discovery, and how long the destructor lingers as well; here a round*)
(* of the loop only uses the node's sockets.                               *)
(***************************************************************************)
EXTENDS Integers

CONSTANTS
  Node,
  Peers     \* how many initialPeers a node connects to before its loop

ASSUME NodeLifecycleAssumption == Peers \in Nat

VARIABLES
  command,    \* the step the command loop is at, the node it is about, and
              \* whether the program is on its way out
  context,    \* context[n]: the ZeroMQ context of node n
  running,    \* running[n]: the flag of node n
  loop,       \* loop[n]: where the loop thread of node n is
  connects,   \* connects[n]: connects to do before the loop
  process     \* FALSE once an exception has left a thread

vars == <<command, context, running, loop, connects, process>>

TypeOK ==
  /\ command \in [step : {"prompt", "shutdown", "join", "destroy"}, node : Node,
                  quit : BOOLEAN]
  /\ context \in [Node -> {"closed", "open", "shut"}]
  /\ running \in [Node -> BOOLEAN]
  /\ loop \in [Node -> {"ended", "boot", "check", "poll", "work"}]
  /\ connects \in [Node -> 0 .. Peers]
  /\ process \in BOOLEAN

Init ==
  /\ command \in [step : {"prompt"}, node : Node, quit : {FALSE}]
  /\ context = [n \in Node |-> "closed"]
  /\ running = [n \in Node |-> FALSE]
  /\ loop = [n \in Node |-> "ended"]
  /\ connects = [n \in Node |-> 0]
  /\ process = TRUE

-----------------------------------------------------------------------------
(* The command loop.                                                       *)

(* add, start: a new object, whose loop thread is started at once.         *)
Start(n) ==
  /\ command.step = "prompt" /\ ~ command.quit
  /\ context[n] = "closed"
  /\ context' = [context EXCEPT ![n] = "open"]
  /\ running' = [running EXCEPT ![n] = TRUE]
  /\ loop' = [loop EXCEPT ![n] = "boot"]
  /\ connects' = [connects EXCEPT ![n] = Peers]
  /\ UNCHANGED <<command, process>>

(* stop, remove, and quit for every node: the flag goes first.             *)
Stop(n) ==
  /\ command.step = "prompt"
  /\ running[n]
  /\ running' = [running EXCEPT ![n] = FALSE]
  /\ command' = [command EXCEPT !.step = "shutdown", !.node = n]
  /\ UNCHANGED <<context, loop, connects, process>>

(* ctx.shutdown: every use of a socket of the node now fails with ETERM.   *)
Shutdown ==
  /\ command.step = "shutdown"
  /\ context' = [context EXCEPT ![command.node] = "shut"]
  /\ command' = [command EXCEPT !.step = "join"]
  /\ UNCHANGED <<running, loop, connects, process>>

(* The loop thread is left to end by itself.                               *)
MutJoinDetaches ==
  /\ command.step = "join"
  /\ command' = [command EXCEPT !.step = "destroy"]
  /\ UNCHANGED <<context, running, loop, connects, process>>

Join ==
  /\ command.step = "join"
  /\ loop[command.node] = "ended"
  /\ command' = [command EXCEPT !.step = IF command.quit THEN "prompt" ELSE "destroy"]
  /\ UNCHANGED <<context, running, loop, connects, process>>

(* ~Node: its stop finds nothing to do, and the sockets are closed.        *)
Destroy ==
  /\ command.step = "destroy"
  /\ context' = [context EXCEPT ![command.node] = "closed"]
  /\ command' = [command EXCEPT !.step = "prompt"]
  /\ UNCHANGED <<running, loop, connects, process>>

(* quit, or the end of the input.                                          *)
Quit ==
  /\ command.step = "prompt" /\ ~ command.quit
  /\ command' = [command EXCEPT !.quit = TRUE]
  /\ UNCHANGED <<context, running, loop, connects, process>>

(* main returns when it has stopped all nodes, and destroys them together. *)
Return ==
  /\ command.step = "prompt" /\ command.quit
  /\ \A n \in Node : ~ running[n]
  /\ context' = [n \in Node |-> "closed"]
  /\ UNCHANGED <<command, running, loop, connects, process>>

-----------------------------------------------------------------------------
(* The loop thread of node n.                                              *)

Goes(n, step) == loop' = [loop EXCEPT ![n] = step]

(* A loop over the peers that does not stop after the last.                *)
MutConnectPeerRunsOn(n) ==
  /\ loop[n] = "boot"
  /\ connects' = [connects EXCEPT ![n] = @ - 1]
  /\ UNCHANGED <<command, context, running, loop, process>>

(* update_known_nodes(initialPeers) stands before the try: an ETERM from a *)
(* connect leaves the thread, which ends the process.                      *)
ConnectPeer(n) ==
  /\ loop[n] = "boot"
  /\ connects[n] > 0
  /\ IF context[n] = "open"
     THEN /\ connects' = [connects EXCEPT ![n] = @ - 1]
          /\ UNCHANGED process
     ELSE /\ process' = FALSE
          /\ UNCHANGED connects
  /\ UNCHANGED <<command, context, running, loop>>

EnterLoop(n) ==
  /\ loop[n] = "boot"
  /\ connects[n] = 0
  /\ Goes(n, "check")
  /\ UNCHANGED <<command, context, running, connects, process>>

CheckRunning(n) ==
  /\ loop[n] = "check"
  /\ Goes(n, IF running[n] THEN "poll" ELSE "ended")
  /\ UNCHANGED <<command, context, running, connects, process>>

(* zmq::poll returns after 100 ms at the latest, or throws into the catch. *)
Poll(n) ==
  /\ loop[n] = "poll"
  /\ Goes(n, IF context[n] = "open" THEN "work" ELSE "ended")
  /\ UNCHANGED <<command, context, running, connects, process>>

(* The handlers and rounds that are due.  Receiving and replying throw into*)
(* the catch; the gossip rounds catch the error themselves and go on.      *)
Work(n) ==
  /\ loop[n] = "work"
  /\ \/ Goes(n, "check")
     \/ context[n] # "open" /\ Goes(n, "ended")
  /\ UNCHANGED <<command, context, running, connects, process>>

LoopStep(n) ==
  \/ ConnectPeer(n) \/ EnterLoop(n) \/ CheckRunning(n) \/ Poll(n) \/ Work(n)

Next ==
  /\ process
  /\ \/ \E n \in Node : Start(n) \/ Stop(n) \/ LoopStep(n)
     \/ Shutdown \/ Join \/ Destroy \/ Quit \/ Return

Spec == Init /\ [][Next]_vars

-----------------------------------------------------------------------------
(* The sockets of a node, which only one thread at a time may use, are not *)
(* closed under its loop, wherever in its round the node is stopped and    *)
(* however often it is started again (node.cpp:51-73, 96-120).             *)
LoopOwnsSockets == \A n \in Node : loop[n] # "ended" => context[n] # "closed"

=============================================================================
