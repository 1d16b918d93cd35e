---------------------------- MODULE HistoryState ----------------------------
(***************************************************************************)
(* What query_result makes of one answer of the history service:           *)
(* deriveRecoveredQueryState and updateRecoveredQueryResultJSON of         *)
(* components/gen/dreamina.go, as operators on a stored row and an answer. *)
(*                                                                         *)
(* A row keeps gen_status, and of result_json the queue_info's queue       *)
(* status and progress, the JSON's own gen_status and how many usable      *)
(* image and video URLs it lists.  Queue and status texts are kept up to   *)
(* the groups the code's switches put them in: "Queueing" and "pending"    *)
(* are "submitted", "Generating" is "running", "Finish" is "success";      *)
(* "querying" is a group of its own, because normalizeRecoveredQueueStatus *)
(* leaves it alone where deriveRemoteHistoryState does not; "other" is any *)
(* text no switch knows, such as a bare status code.                       *)
(***************************************************************************)
EXTENDS Integers, QueryVerdict

CONSTANTS
  RawProgress,   \* progress and percent values a history item can carry
  MaxImages,     \* most image URLs in one history item
  MaxVideos,     \* most video URLs in one history item
  NoItem         \* the answer has no item for this task

ASSUME RawProgressAssumption == RawProgress \subseteq Nat
ASSUME MediaAssumption == MaxImages \in Nat /\ MaxVideos \in Nat

QueueWords ==
  {"none", "submitted", "running", "querying", "success", "failed", "other"}

(* A history item as HistoryItem.View gives it to the query: its queue or  *)
(* status text, and whether that text stands under a queue_status key; its *)
(* numeric state code; whether it names a failure; its media; its progress.*)
Item ==
  [queue : QueueWords, inQueue : BOOLEAN, code : {0, 30, 45, 50},
   failure : BOOLEAN, images : 0..MaxImages, videos : 0..MaxVideos,
   progress : RawProgress]

ASSUME NoItemAssumption == NoItem \notin Item

Row ==
  [status : Statuses, queue : QueueWords, progress : Nat, json : Statuses,
   images : Nat, videos : Nat]

State(status, queue, progress) ==
  [status |-> status, queue |-> queue, progress |-> progress]

(***************************************************************************)
(* The state one history item stands for.                                  *)
(***************************************************************************)
IndicatesFailure(item) == item.failure \/ item.code = 30
ItemHasMedia(item) == item.images + item.videos > 0

RemoteProgress(item) == IF item.progress >= 100 THEN 99 ELSE item.progress

ProgressOr(item, default) ==
  IF RemoteProgress(item) > 0 THEN RemoteProgress(item) ELSE default

QueueOrFinish(item) == IF item.queue = "none" THEN "success" ELSE item.queue

RemoteState_NoUnknown(item) ==
  IF IndicatesFailure(item) THEN State("failed", QueueOrFinish(item), 100)
  ELSE IF ItemHasMedia(item) THEN State("success", "success", 100)
  ELSE State("failed", "failed", 100)

RemoteState_QueueIsStatus(item) ==
  IF IndicatesFailure(item) THEN State("failed", QueueOrFinish(item), 100)
  ELSE IF item.queue = "none" THEN State("unknown", "none", 0)
  ELSE State(item.queue, item.queue, ProgressOr(item, 55))

(* The cases in the order of the code's returns; "unknown" is ok = false.  *)
RemoteState(item) ==
  IF IndicatesFailure(item) THEN State("failed", QueueOrFinish(item), 100)
  ELSE IF item.code = 50 /\ ItemHasMedia(item)
    THEN State("success", QueueOrFinish(item), 100)
  ELSE IF item.code = 45 /\ item.queue = "none"
    THEN State("querying", "running", ProgressOr(item, 55))
  ELSE IF item.queue = "none" /\ ItemHasMedia(item)
    THEN State("success", "success", 100)
  ELSE IF item.queue = "success" THEN State("success", "success", 100)
  ELSE IF item.queue = "failed" THEN State("failed", "failed", 100)
  ELSE IF item.queue = "submitted"
    THEN State("querying", "submitted", ProgressOr(item, 8))
  ELSE IF item.queue \in {"querying", "running"}
    THEN State("querying", "running", ProgressOr(item, 55))
  ELSE State("unknown", "none", 0)

Known(item) == item # NoItem /\ RemoteState(item).status # "unknown"

(***************************************************************************)
(* The state when the answer says nothing of the task.                     *)
(***************************************************************************)
RowHasMedia(row) == row.images + row.videos > 0

(* The history service answered with code 0 and no usable item.            *)
MissState_KeepsRunning(row) ==
  State("querying", IF row.queue = "none" THEN "submitted" ELSE row.queue,
        row.progress)

MissState(row) ==
  State("querying",
        IF row.queue = "none" \/ (row.queue = "running" /\ row.progress = 0)
          THEN "submitted" ELSE row.queue,
        row.progress)

(* The request failed or answered with another code: nothing is known.     *)
FailedLookupState_FromScratch(row) == State("querying", "submitted", 8)
FailedLookupState_CountsUp(row) == State("success", "success", 100)

FailedLookupState(row) ==
  IF RowHasMedia(row) THEN State("success", "success", 100)
  ELSE IF row.status = "failed" THEN State("failed", "failed", 100)
  ELSE IF row.status = "success" THEN State("success", "success", 100)
  ELSE State("querying",
             IF row.progress > 0 /\ row.queue \notin {"none", "success", "failed"}
               THEN row.queue ELSE "submitted",
             IF row.progress > 8 THEN row.progress ELSE 8)

(* deriveRecoveredQueryState: answered is code = 0.                        *)
Derive(row, item, answered) ==
  IF Known(item) THEN RemoteState(item)
  ELSE IF answered THEN MissState(row)
  ELSE FailedLookupState(row)

(***************************************************************************)
(* The row that is stored: updateRecoveredQueryResultJSON and the patch of *)
(* QueryResult.                                                            *)
(***************************************************************************)
JsonStatus(queue) ==
  IF queue \in {"success", "failed"} THEN queue ELSE "querying"

(* mergeRecoveredMediaItems overlays the stored list item by item and      *)
(* keeps its length, unless it was empty.                                  *)
MergedCount(stored, recovered) ==
  IF recovered > 0 /\ stored = 0 THEN recovered ELSE stored

MergedVideos(row, item) ==
  IF item = NoItem THEN row.videos ELSE MergedCount(row.videos, item.videos)

(* Videos of the item clear the images, its images are then not merged.    *)
MergedImages(row, item) ==
  IF item = NoItem THEN row.images
  ELSE IF item.videos > 0 THEN 0
  ELSE MergedCount(row.images, item.images)

(* mergeRecoveredHistoryQueueInfo writes the item's own queue status back  *)
(* over the derived one.                                                   *)
StoredQueue(derived, item) ==
  IF item # NoItem /\ item.inQueue /\ item.queue # "none"
    THEN item.queue ELSE derived.queue

Recovered(row, item, answered) ==
  LET derived == Derive(row, item, answered)
  IN  [status |-> derived.status,
       queue |-> StoredQueue(derived, item),
       progress |-> derived.progress,
       json |-> JsonStatus(derived.queue),
       images |-> MergedImages(row, item),
       videos |-> MergedVideos(row, item)]

(***************************************************************************)
(* What an answer says of the job and adds to the row's media, for the     *)
(* rule in QueryVerdict.                                                   *)
(***************************************************************************)
View(item, answered) ==
  IF Known(item) THEN RemoteState(item).status
  ELSE IF answered THEN "miss" ELSE "error"

BringsMedia(item) == item # NoItem /\ ItemHasMedia(item)
=============================================================================
