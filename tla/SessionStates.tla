--------------------------- MODULE SessionStates ---------------------------
(***************************************************************************)
(* The states of a master session, the reasons it stops for, and the       *)
(* decision on whether a stopped session can be continued.  Translated     *)
(* from src/src/session/states.py and src/src/session/continuity.py.       *)
(*                                                                         *)
(* A stop reason (motivo_parada) is abstracted to the class the decision   *)
(* tells apart: the ten limit reasons, versao_modelo and the researcher's  *)
(* Ctrl+C are the one value "limite" (resumable, no question asked);       *)
(* solucao_encontrada, saturacao and planos_rejeitados, which all ask the  *)
(* researcher first, are "solucao_encontrada"; hipoteses_nao_testadas and  *)
(* any unknown reason are refused like "erro".  "nil" is a missing key.    *)
(***************************************************************************)

\* status values of a row; "absent" stands for a session with no row.
FinishedStatuses   == {"closed", "success", "failed"}
PausedStatuses     == {"suspended", "aguarda_pesquisador", "suspensa_sem_pesquisador"}
UnfinishedStatuses == PausedStatuses \union {"interrompida"}
RowStatuses        == FinishedStatuses \union UnfinishedStatuses \union {"active"}

\* The reasons a pausing session writes, one per paused status.
PauseMotivos == {"pausada_pesquisador", "aguarda_pesquisador", "suspensa_sem_pesquisador"}

\* MOTIVOS_RETOMAVEIS: continued without asking.
MotivosRetomaveis == PauseMotivos \union {"limite", "interrompida"}
MotivosConfirmar  == {"solucao_encontrada", "encerrada_pesquisador"}
Motivos           == MotivosRetomaveis \union MotivosConfirmar \union {"erro", "nil"}

(***************************************************************************)
(* evaluate_resumability: the status is looked at first, then the reason   *)
(* recorded in the database against the checkpoint's; the database's wins, *)
(* and a checkpoint that states another one is refused as tampered with.   *)
(***************************************************************************)
Diverges(dbMotivo, cpMotivo) ==
  dbMotivo # "nil" /\ cpMotivo # "nil" /\ dbMotivo # cpMotivo

EffectiveMotivo(dbMotivo, cpMotivo) ==
  IF dbMotivo # "nil" THEN dbMotivo ELSE cpMotivo

Verdict_StatusFirst(st, dbMotivo, cpMotivo) ==
  IF st = "active" THEN "recusar"
  ELSE IF \/ st \in UnfinishedStatuses
          \/ EffectiveMotivo(dbMotivo, cpMotivo) \in MotivosRetomaveis
       THEN "ok"
       ELSE IF EffectiveMotivo(dbMotivo, cpMotivo) \in MotivosConfirmar
               /\ ~Diverges(dbMotivo, cpMotivo)
            THEN "confirmar"
            ELSE "recusar"

Verdict(st, dbMotivo, cpMotivo) ==
  IF st = "active" \/ Diverges(dbMotivo, cpMotivo) THEN "recusar"
  ELSE IF \/ st \in UnfinishedStatuses
          \/ EffectiveMotivo(dbMotivo, cpMotivo) \in MotivosRetomaveis
       THEN "ok"
       ELSE IF EffectiveMotivo(dbMotivo, cpMotivo) \in MotivosConfirmar
            THEN "confirmar"
            ELSE "recusar"
=============================================================================
