------------------------------- MODULE Master -------------------------------
(***************************************************************************)
(* The Master processes.  Each runs one job: it asks YAMA for a stage,     *)
(* starts its threads (one per node), reports the result of each task to   *)
(* YAMA and, when the threads have joined, asks for the next stage.  The   *)
(* state of a master is kept under the descriptor that YAMA knows it by.   *)
(* The workers are in the environment: a task ends well or fails.          *)
(***************************************************************************)
EXTENDS Sockets, SequencesExt

CONSTANTS
    Fallible,   \* the stages whose tasks may fail
    MaxFaults,  \* bound: tasks that fail and masters that are killed
    Kills       \* TRUE: a master may be killed at any time

ASSUME MasterAssumption ==
    Fallible \subseteq Stage /\ MaxFaults \in Nat /\ Kills \in BOOLEAN

VARIABLES
    pc,              \* pc[fd]: "off", or where the main thread is
    hilos,           \* hilos[fd]: the threads that have not ended
    leido,           \* leido[fd]: bytes already read of the first reply
    replanification, \* the flag of that name, of the master of fd
    abortJob,        \* abortJob # '0'
    faults           \* faults so far

masterVars == <<pc, hilos, leido, replanification, abortJob, faults>>

(* A thread and the blocks of the tasks it has not reported; "espera" when *)
(* it has reported an error and waits for the answer.                      *)
Thread == [nodo : Node, tmps : Seq(Block), estado : {"corre", "espera"}]

MasterOK ==
    /\ pc \in [FDs -> {"off", "conectado", "esperaT", "T", "esperaR", "esperaL",
                       "L", "esperaG", "G", "esperaS", "S"}]
    /\ hilos \in [FDs -> SUBSET Thread]
    /\ leido \in [FDs -> Nat]
    /\ replanification \in [FDs -> BOOLEAN]
    /\ abortJob \in [FDs -> BOOLEAN]
    /\ faults \in 0 .. MaxFaults

MasterInit ==
    /\ pc = [fd \in FDs |-> "off"]
    /\ hilos = [fd \in FDs |-> {}]
    /\ leido = [fd \in FDs |-> 0]
    /\ replanification = [fd \in FDs |-> FALSE]
    /\ abortJob = [fd \in FDs |-> FALSE]
    /\ faults = 0

-----------------------------------------------------------------------------
GoTo(fd, label) == pc' = [pc EXCEPT ![fd] = label]
Fault == faults < MaxFaults /\ faults' = faults + 1

(* The process ends, after sending ms, and the kernel closes its socket.   *)
(* Bytes of YAMA left unread turn the end of the stream into an error; so  *)
(* may replies that arrive about now.                                      *)
Exit(fd, ms) ==
    /\ \E close \in {"FIN", "RST"} :
         /\ close = "RST" => salida[fd] # <<>>
         /\ close = "FIN" => leido[fd] = 0
         /\ Send(fd, Append(ms, [op |-> close]))
    /\ abiertos' = abiertos \ {fd}
    /\ salida' = [salida EXCEPT ![fd] = <<>>]
    /\ GoTo(fd, "off")
    /\ hilos' = [hilos EXCEPT ![fd] = {}]
    /\ leido' = [leido EXCEPT ![fd] = 0]
    /\ replanification' = [replanification EXCEPT ![fd] = FALSE]
    /\ abortJob' = [abortJob EXCEPT ![fd] = FALSE]

(* sendTRequest.                                                           *)
SendTRequest(fd, f) ==
    /\ pc[fd] = "conectado"
    /\ Send(fd, <<[op |-> "T", file |-> f]>>)
    /\ GoTo(fd, "esperaT")
    /\ UNCHANGED <<salida, abiertos, hilos, leido, replanification, abortJob, faults>>

(* The loops of transformFile and runLocalReduction over the records of    *)
(* the reply: consecutive records of one node go to one thread.            *)
ThreadsFor(data) ==
    {[nodo |-> r.nodo, tmps |-> r.tmps, estado |-> "corre"] : r \in ToSet(Grouped(data))}

(* A reply with the expected code is read in full and its threads start.   *)
StartThreads(fd, label) ==
    /\ hilos' = [hilos EXCEPT ![fd] = ThreadsFor(Head(salida[fd]).data)]
    /\ salida' = [salida EXCEPT ![fd] = Tail(@)]
    /\ leido' = [leido EXCEPT ![fd] = 0]
    /\ GoTo(fd, label)
    /\ UNCHANGED <<pedidos, abiertos, replanification, abortJob, faults>>

(* sendTRequest: after a replanning the first byte ('R') was read by the   *)
(* thread that reported the error, and the second is a 'T'.                *)
TransformationReply(fd) ==
    /\ salida[fd] # <<>>
    /\ \/ pc[fd] = "esperaT" /\ Head(salida[fd]).op = "T"
       \/ pc[fd] = "esperaR" /\ leido[fd] = 1
    /\ StartThreads(fd, "T")

(* Any other byte: abort().                                                *)
TransformationRefused(fd) ==
    /\ salida[fd] # <<>>
    /\ \/ pc[fd] = "esperaT" /\ Head(salida[fd]).op # "T"
       \/ pc[fd] = "esperaR" /\ leido[fd] > 1
    /\ Exit(fd, <<>>)
    /\ UNCHANGED faults

-----------------------------------------------------------------------------
(* runTransformThread.                                                     *)

(* The worker transforms the blocks of a thread in any order; each is      *)
(* reported at once, and the thread ends with the last one.                *)
BlockTransformed(fd, h, k) ==
    /\ pc[fd] = "T" /\ h.estado = "corre"
    /\ Send(fd, <<[op |-> "O", etapa |-> "T", block |-> h.tmps[k], node |-> h.nodo]>>)
    /\ LET rest == RemoveAt(h.tmps, k)
       IN  hilos' = [hilos EXCEPT ![fd] = (@ \ {h}) \cup
                       (IF rest = <<>> THEN {} ELSE {[h EXCEPT !.tmps = rest]})]
    /\ UNCHANGED <<salida, abiertos, pc, leido, replanification, abortJob, faults>>

(* No connection, a failed block or a dead worker: the thread reports the  *)
(* node and leaves its other blocks.                                       *)
TransformationFails(fd, h) ==
    /\ pc[fd] = "T" /\ h.estado = "corre" /\ "T" \in Fallible /\ Fault
    /\ Send(fd, <<[op |-> "E", etapa |-> "T", node |-> h.nodo]>>)
    /\ hilos' = [hilos EXCEPT ![fd] = (@ \ {h}) \cup {[h EXCEPT !.estado = "espera"]}]
    /\ UNCHANGED <<salida, abiertos, pc, leido, replanification, abortJob>>

(* checkReplanification: the next byte of the stream decides, be it the    *)
(* first of the answer to this thread or the rest of another one's.  The   *)
(* faulty variant takes any byte for the answer.                           *)
CheckReplanificationAnyByte(fd, h) ==
    /\ pc[fd] = "T" /\ h.estado = "espera" /\ salida[fd] # <<>>
    /\ replanification' = [replanification EXCEPT ![fd] = TRUE]
    /\ leido' = [leido EXCEPT ![fd] = @ + 1]
    /\ hilos' = [hilos EXCEPT ![fd] = @ \ {h}]
    /\ UNCHANGED <<sockets, pc, abortJob, faults>>
CheckReplanification(fd, h) ==
    /\ pc[fd] = "T" /\ h.estado = "espera" /\ salida[fd] # <<>>
    /\ LET ok == leido[fd] = 0 /\ Head(salida[fd]).op = "R"
       IN  /\ replanification' = [replanification EXCEPT ![fd] = @ \/ ok]
           /\ abortJob' = [abortJob EXCEPT ![fd] = @ \/ ~ok]
    /\ leido' = [leido EXCEPT ![fd] = @ + 1]
    /\ hilos' = [hilos EXCEPT ![fd] = @ \ {h}]
    /\ UNCHANGED <<sockets, pc, faults>>

(* The threads have joined: the pending blocks are transformed, the master *)
(* ends, or it asks for the local reduction.                               *)
TransformationJoined(fd) ==
    /\ pc[fd] = "T" /\ hilos[fd] = {}
    /\ \/ /\ replanification[fd]
          /\ GoTo(fd, "esperaR")
          /\ replanification' = [replanification EXCEPT ![fd] = FALSE]
          /\ UNCHANGED <<sockets, hilos, leido, abortJob>>
       \/ /\ ~replanification[fd] /\ abortJob[fd]
          /\ Exit(fd, <<>>)
       \/ /\ ~replanification[fd] /\ ~abortJob[fd]
          /\ Send(fd, <<[op |-> "L"]>>)
          /\ GoTo(fd, "esperaL")
          /\ UNCHANGED <<salida, abiertos, hilos, leido, replanification, abortJob>>
    /\ UNCHANGED faults

-----------------------------------------------------------------------------
(* runLocalReduction, runGlobalReduction, saveResult.                      *)

LocalReductionReply(fd) ==
    /\ pc[fd] = "esperaL" /\ salida[fd] # <<>>
    /\ StartThreads(fd, "L")

LocalReductionDone(fd, h) ==
    /\ pc[fd] = "L"
    /\ Send(fd, <<[op |-> "O", etapa |-> "L", block |-> <<>>, node |-> h.nodo]>>)
    /\ hilos' = [hilos EXCEPT ![fd] = @ \ {h}]
    /\ UNCHANGED <<salida, abiertos, pc, leido, replanification, abortJob, faults>>

LocalReductionFails(fd, h) ==
    /\ pc[fd] = "L" /\ "L" \in Fallible /\ Fault
    /\ Send(fd, <<[op |-> "E", etapa |-> "L", node |-> h.nodo]>>)
    /\ hilos' = [hilos EXCEPT ![fd] = @ \ {h}]
    /\ abortJob' = [abortJob EXCEPT ![fd] = TRUE]
    /\ UNCHANGED <<salida, abiertos, pc, leido, replanification>>

LocalReductionJoined(fd) ==
    /\ pc[fd] = "L" /\ hilos[fd] = {}
    /\ \/ abortJob[fd] /\ Exit(fd, <<>>)
       \/ /\ ~abortJob[fd]
          /\ Send(fd, <<[op |-> "G"]>>)
          /\ GoTo(fd, "esperaG")
          /\ UNCHANGED <<salida, abiertos, hilos, leido, replanification, abortJob>>
    /\ UNCHANGED faults

(* The global reduction and the final store are one task each, of the main *)
(* thread.                                                                 *)
LastStagesReply(fd) ==
    /\ salida[fd] # <<>>
    /\ \/ pc[fd] = "esperaG" /\ StartThreads(fd, "G")
       \/ pc[fd] = "esperaS" /\ StartThreads(fd, "S")

(* Faulty variant of GlobalReductionDone: the next request goes first.     *)
GlobalReductionDoneLate(fd, h) ==
    /\ pc[fd] = "G"
    /\ Send(fd, <<[op |-> "S"],
                  [op |-> "O", etapa |-> "G", block |-> <<>>, node |-> h.nodo]>>)
    /\ hilos' = [hilos EXCEPT ![fd] = {}]
    /\ GoTo(fd, "esperaS")
    /\ UNCHANGED <<salida, abiertos, leido, replanification, abortJob, faults>>

GlobalReductionDone(fd, h) ==
    /\ pc[fd] = "G"
    /\ Send(fd, <<[op |-> "O", etapa |-> "G", block |-> <<>>, node |-> h.nodo],
                  [op |-> "S"]>>)
    /\ hilos' = [hilos EXCEPT ![fd] = {}]
    /\ GoTo(fd, "esperaS")
    /\ UNCHANGED <<salida, abiertos, leido, replanification, abortJob, faults>>

FinalStoreDone(fd, h) ==
    /\ pc[fd] = "S"
    /\ Exit(fd, <<[op |-> "O", etapa |-> "S", block |-> <<>>, node |-> h.nodo]>>)
    /\ UNCHANGED faults

LastStagesFail(fd, h) ==
    /\ pc[fd] \in Fallible \cap {"G", "S"} /\ Fault
    /\ Exit(fd, <<[op |-> "E", etapa |-> pc[fd], node |-> h.nodo]>>)

(* The user, or the system, ends the process.                              *)
Kill(fd) ==
    /\ Kills /\ pc[fd] # "off" /\ Fault
    /\ Exit(fd, <<>>)

MasterStep(fd) ==
    \/ \E f \in Files : SendTRequest(fd, f)
    \/ TransformationReply(fd) \/ TransformationRefused(fd)
    \/ \E h \in hilos[fd] : \/ \E k \in DOMAIN h.tmps : BlockTransformed(fd, h, k)
                            \/ CheckReplanification(fd, h)
                            \/ LocalReductionDone(fd, h)
                            \/ GlobalReductionDone(fd, h)
                            \/ FinalStoreDone(fd, h)
    \/ TransformationJoined(fd)
    \/ LocalReductionReply(fd) \/ LocalReductionJoined(fd)
    \/ LastStagesReply(fd)

MasterFault(fd) ==
    \/ \E h \in hilos[fd] : \/ TransformationFails(fd, h)
                            \/ LocalReductionFails(fd, h)
                            \/ LastStagesFail(fd, h)
    \/ Kill(fd)
=============================================================================
