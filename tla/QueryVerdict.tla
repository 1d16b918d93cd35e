---------------------------- MODULE QueryVerdict ----------------------------
(***************************************************************************)
(* The gen_status that query_result writes, as a function of little: the   *)
(* stored status, whether the stored result has usable media, and what the *)
(* answer of the history service said of the job.  TaskLifecycle uses this *)
(* rule; HistoryState_proofs shows that it is what the detailed derivation *)
(* of HistoryState comes to, whatever the queue texts, codes and progress. *)
(***************************************************************************)

Statuses == {"querying", "success", "failed"}

(* A known state of the job; "miss", code 0 and no usable item; "error",   *)
(* another code or no answer.                                              *)
Views == Statuses \cup {"miss", "error"}

Verdict_MissIsStatus(status, media, view) ==
  IF view = "error" THEN status ELSE view

Verdict_UnknownIsSuccess(status, media, view) ==
  IF view \in Statuses THEN view
  ELSE IF view = "miss" THEN "querying" ELSE "success"

Verdict_GivesUp(status, media, view) ==
  IF view \in Statuses THEN view
  ELSE IF media THEN "success" ELSE "failed"

Verdict(status, media, view) ==
  IF view \in Statuses THEN view
  ELSE IF view = "miss" THEN "querying"
  ELSE IF media THEN "success" ELSE status
=============================================================================
