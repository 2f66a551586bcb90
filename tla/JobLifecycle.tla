---------------------------- MODULE JobLifecycle ----------------------------
(***************************************************************************)
(* What YAMA promises of a job: it starts in its transformation with the   *)
(* blocks of its file pending, goes through the stages T, L, G and S one   *)
(* at a time, reduces nothing while a transformation is pending, is        *)
(* replanned once at most, and ends for good, finished after its final     *)
(* store or aborted.                                                       *)
(***************************************************************************)
EXTENDS Integers, Sequences

CONSTANT
    Blocks    \* the blocks a job may have to transform

VARIABLE
    trabajos  \* the jobs, in the order of their requests

Estado == {"P", "F", "E"}
Etapa == {"T", "L", "G", "S"}

Trabajo == [estado : Estado, etapa : Etapa, replanificado : BOOLEAN,
            pendientes : SUBSET Blocks]

TypeOK == trabajos \in Seq(Trabajo)

Init == trabajos = <<>>

InProgress(i, etapa) ==
    trabajos[i].estado = "P" /\ trabajos[i].etapa = etapa

(* A request to transform a file; refused files leave a job without blocks.*)
Start(S) ==
    trabajos' = Append(trabajos, [estado |-> "P", etapa |-> "T",
                                  replanificado |-> FALSE, pendientes |-> S])

(* A block is transformed.                                                 *)
Transform(i, b) ==
    /\ InProgress(i, "T") /\ b \in trabajos[i].pendientes
    /\ trabajos' = [trabajos EXCEPT ![i].pendientes = @ \ {b}]

(* A node failed: its blocks, transformed or not, are pending again.       *)
Replan(i, S) ==
    /\ InProgress(i, "T") /\ ~trabajos[i].replanificado
    /\ trabajos' = [trabajos EXCEPT ![i].replanificado = TRUE,
                                    ![i].pendientes = @ \cup S]

Advance(i, from, to) ==
    /\ InProgress(i, from)
    /\ trabajos[i].pendientes = {}
    /\ trabajos' = [trabajos EXCEPT ![i].etapa = to]

Finish(i) ==
    /\ InProgress(i, "S")
    /\ trabajos' = [trabajos EXCEPT ![i].estado = "F"]

(* A failure, or the master that left, ends jobs in process; a job that is *)
(* refused a second replanning is among them.                              *)
Abort(J) ==
    /\ J # {} /\ \A i \in J : trabajos[i].estado = "P"
    /\ trabajos' = [i \in DOMAIN trabajos |->
                      IF i \in J THEN [trabajos[i] EXCEPT !.estado = "E",
                                                          !.pendientes = {}]
                                 ELSE trabajos[i]]

Next ==
    \/ \E S \in SUBSET Blocks : Start(S)
    \/ \E i \in DOMAIN trabajos :
          \/ \E b \in Blocks : Transform(i, b)
          \/ \E S \in SUBSET Blocks : Replan(i, S)
          \/ Advance(i, "T", "L") \/ Advance(i, "L", "G") \/ Advance(i, "G", "S")
          \/ Finish(i)
    \/ \E J \in SUBSET (DOMAIN trabajos) : Abort(J)

Spec == Init /\ [][Next]_trabajos

-----------------------------------------------------------------------------
(* A job past its transformations has none pending, so that no reduction   *)
(* misses a block, and a job only finishes with its final store.           *)
StagesInOrder ==
    \A i \in DOMAIN trabajos :
       /\ trabajos[i].etapa # "T" => trabajos[i].pendientes = {}
       /\ trabajos[i].estado = "F" => trabajos[i].etapa = "S"

(* A job that finished or was aborted is never taken up, replanned or      *)
(* aborted again, whatever happens to the jobs around it.                  *)
EndedForGood ==
    [][\A i \in DOMAIN trabajos :
          trabajos[i].estado # "P" =>
             i \in DOMAIN trabajos' /\ trabajos'[i] = trabajos[i]]_trabajos
=============================================================================
