------------------------------ MODULE Sockets ------------------------------
(***************************************************************************)
(* The connections between YAMA and its masters, and the files and nodes   *)
(* the messages talk about.  A master is known to YAMA by the descriptor   *)
(* of its socket; a descriptor that was closed is given out again.         *)
(***************************************************************************)
EXTENDS YamaNodes

CONSTANTS
    FDs,     \* the descriptors accept can return, numbers
    Files,   \* the files that jobs read
    Layout   \* Layout[f][k] = <<node1, node2>> of block k of file f

ASSUME LayoutAssumption ==
    /\ Node \subseteq Nat
    /\ FDs \subseteq Nat
    /\ Layout \in [Files -> Seq(Node \X Node)]

VARIABLES
    pedidos,   \* pedidos[fd]: messages of the master YAMA has not read yet
    salida,    \* salida[fd]: replies of YAMA the master has not read in full
    abiertos   \* the descriptors whose master has not closed its end

sockets == <<pedidos, salida, abiertos>>

(* A block of a file; its transformation is a temporary of one node.       *)
Block == Files \X (Nat \ {0})
BlocksOf(f) == {<<f, k>> : k \in DOMAIN Layout[f]}
Replicas(b) == {Layout[b[1]][b[2]][1], Layout[b[1]][b[2]][2]}

Stage == {"T", "L", "G", "S"}

(* What a master sends: a request for a stage, the result of one of its    *)
(* tasks ('O', 'E'), and what YAMA sees when the socket is closed: an end  *)
(* of file, or an error if the master left replies unread.                 *)
Message ==
    [op : {"T"}, file : Files]
    \cup [op : {"L", "G", "S", "FIN", "RST"}]
    \cup [op : {"O"}, etapa : Stage, block : Block \cup {<<>>}, node : Node]
    \cup [op : {"E"}, etapa : Stage, node : Node]

(* What YAMA replies.  The data of a stage is a sequence of tasks: nodo is *)
(* to work on the blocks tmps (one block, or the temporaries of several).  *)
Task == [nodo : Node, tmps : Seq(Block)]
Reply == [op : {"T", "R", "L", "G", "S", "A", "E"}, data : Seq(Task)]

SocketsOK ==
    /\ pedidos \in [FDs -> Seq(Message)]
    /\ salida \in [FDs -> Seq(Reply)]
    /\ abiertos \in SUBSET FDs

SocketsInit ==
    /\ pedidos = [fd \in FDs |-> <<>>]
    /\ salida = [fd \in FDs |-> <<>>]
    /\ abiertos = {}

(* The messages ms of the master of fd leave for YAMA.                     *)
Send(fd, ms) == pedidos' = [pedidos EXCEPT ![fd] = @ \o ms]

(* The elements of s at the positions in S, in their order.                *)
Keep(s, S) ==
    LET kept[k \in 0 .. Len(s)] ==
          IF k = 0 THEN <<>>
          ELSE IF k \in S THEN Append(kept[k - 1], s[k]) ELSE kept[k - 1]
    IN  kept[Len(s)]

(* One more task: if it is of the node of the last one, it joins it.       *)
Joined(acc, e) ==
    IF acc # <<>> /\ acc[Len(acc)].nodo = e.nodo
    THEN [acc EXCEPT ![Len(acc)].tmps = @ \o e.tmps]
    ELSE Append(acc, [nodo |-> e.nodo, tmps |-> e.tmps])

(* Consecutive tasks of one node, as one task.                             *)
Grouped(tasks) ==
    LET group[k \in 0 .. Len(tasks)] ==
          IF k = 0 THEN <<>> ELSE Joined(group[k - 1], tasks[k])
    IN  group[Len(tasks)]

(* YAMA takes the next message of fd, whose operation is op.               *)
Receive(fd, op) ==
    /\ pedidos[fd] # <<>> /\ Head(pedidos[fd]).op = op
    /\ pedidos' = [pedidos EXCEPT ![fd] = Tail(@)]

(* A reply to a master that has already closed its end is lost.            *)
Respond(fd, op, data) ==
    salida' = [salida EXCEPT ![fd] =
                 IF fd \in abiertos THEN Append(@, [op |-> op, data |-> data])
                                    ELSE @]
=============================================================================
