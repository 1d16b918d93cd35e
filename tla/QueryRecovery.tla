--------------------------- MODULE QueryRecovery ---------------------------
(***************************************************************************)
(* One task row under any sequence of query_result calls: each call reads  *)
(* the row, asks the history service, derives a new state and writes it    *)
(* back (QueryResult and newDreaminaQuery).  The service answers with any  *)
(* item, with none, or not at all, in any order.                           *)
(***************************************************************************)
EXTENDS HistoryState

VARIABLES
  kind,     \* gen_task_type, as far as the query distinguishes it
  row,      \* the stored row
  last,     \* the last lookup: what it was and the media its item had
  seen      \* what any answer so far, or the submission, has proved

vars == <<kind, row, last, seen>>

Kinds == {"image_upscale", "generation"}
Lookups == {"none", "hit", "miss", "failed"}
Proofs == {"rejected", "success", "failed", "media"}

Lookup(what, item) ==
  [what |-> what,
   images |-> IF item = NoItem THEN 0 ELSE item.images,
   videos |-> IF item = NoItem THEN 0 ELSE item.videos]

(* A row as SubmitTask leaves it: still the skeleton, when the process     *)
(* died before its update; the submit answer's queue state and progress;   *)
(* or a rejected submission, which keeps the skeleton.                     *)
Fresh(status, queue, progress) ==
  [status |-> status, queue |-> queue, progress |-> progress,
   json |-> "querying", images |-> 0, videos |-> 0]

Skeleton(status) == Fresh(status, "submitted", 0)

Accepted(queue, progress) == Fresh("querying", queue, progress)

(* A row imported from an older store: any queue state, at 0%.             *)
Legacy(queue) == Fresh("querying", queue, 0)

SubmittedProgress == {5} \cup {p \in RawProgress : p > 0 /\ p < 100}

Init ==
  /\ kind \in Kinds
  /\ last = Lookup("none", NoItem)
  /\ \/ row = Skeleton("querying") /\ seen = {}
     \/ row = Skeleton("failed") /\ seen = {"rejected"}
     \/ /\ \E q \in QueueWords \ {"none"}, p \in SubmittedProgress :
             row = Accepted(q, p)
        /\ seen = {}
     \/ /\ \E q \in QueueWords : row = Legacy(q)
        /\ seen = {}

(* image_upscale drops the item it found and keeps only code = 0.          *)
Usable(item) == IF kind = "image_upscale" THEN NoItem ELSE item

(* What an item proves, whatever the code makes of it.                     *)
Shown(item) ==
  IF item = NoItem THEN {}
  ELSE (IF item.queue = "success" THEN {"success"} ELSE {})
         \cup (IF item.failure \/ item.code = 30 \/ item.queue = "failed"
                 THEN {"failed"} ELSE {})
         \cup (IF ItemHasMedia(item) THEN {"media"} ELSE {})

QueryHit(item, answered) ==
  /\ row' = Recovered(row, Usable(item), answered)
  /\ seen' = seen \cup Shown(Usable(item))
  /\ last' = Lookup(IF Usable(item) # NoItem THEN "hit"
                    ELSE IF answered THEN "miss" ELSE "failed", Usable(item))
  /\ UNCHANGED kind

QueryMiss ==
  /\ row' = Recovered(row, NoItem, TRUE)
  /\ last' = Lookup("miss", NoItem)
  /\ UNCHANGED <<kind, seen>>

QueryFails ==
  /\ row' = Recovered(row, NoItem, FALSE)
  /\ last' = Lookup("failed", NoItem)
  /\ UNCHANGED <<kind, seen>>

Next ==
  \/ \E item \in Item, answered \in BOOLEAN : QueryHit(item, answered)
  \/ QueryMiss
  \/ QueryFails

Spec == Init /\ [][Next]_vars

-----------------------------------------------------------------------------
TypeOK ==
  /\ kind \in Kinds
  /\ row \in Row
  /\ last \in [what : Lookups, images : Nat, videos : Nat]
  /\ seen \subseteq Proofs

(* No success is made up locally: a row says success only after an answer  *)
(* that proved completion or carried media.  (the comments in              *)
(* deriveRecoveredQueryState on not pushing the progress by query_count)   *)
SuccessHasEvidence ==
  row.status = "success" => seen \cap {"success", "media"} # {}

(* No failure is made up locally: a row says failed only when the          *)
(* submission was rejected or an answer said so.                           *)
FailureHasEvidence ==
  row.status = "failed" => seen \cap {"rejected", "failed"} # {}

(* A query never leaves a row running at 0%, whatever was stored before and*)
(* whatever the order of answers.  (the two comments on "running + 0%" in  *)
(* deriveRecoveredQueryState)                                              *)
RunningHasProgress ==
  last.what # "none" /\ row.queue = "running" => row.progress > 0

(* A lookup that failed takes nothing away: the progress never falls, no   *)
(* media is dropped and a terminal row does not go back to querying.       *)
FailedLookupLosesNothing ==
  [][last'.what = "failed" =>
       /\ row'.progress >= row.progress
       /\ row'.images = row.images /\ row'.videos = row.videos
       /\ row.status # "querying" => row'.status # "querying"]_vars

(* A terminal row stays as it is: the documented flow asks the history     *)
(* service only while the local task is still querying.                    *)
TerminalIsFinal ==
  [][row.status # "querying" => row'.status = row.status]_vars
=============================================================================
