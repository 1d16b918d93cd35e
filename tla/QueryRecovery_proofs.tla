------------------------ MODULE QueryRecovery_proofs ------------------------
(***************************************************************************)
(* The derivation of HistoryState comes to the rule of QueryVerdict, which *)
(* is what TaskLifecycle uses for QueryResult: DeriveIsVerdict and         *)
(* MediaOnlyGrow are why that module can leave out queue texts, state      *)
(* codes, progress and the number of media.  Then the properties of        *)
(* QueryRecovery, for any progress values, any number of media in an item  *)
(* and any sequence of answers.                                            *)
(*                                                                         *)
(* SuccessHasEvidence and FailureHasEvidence are not inductive: a failed   *)
(* lookup makes a success of a row that has media, so that the media need  *)
(* their evidence too; and that it takes no progress away needs that the   *)
(* stored progress never exceeds the 100 it writes.                        *)
(***************************************************************************)
EXTENDS QueryRecovery, TLAPS

(* The gen_status that deriveRecoveredQueryState returns depends on the    *)
(* stored status, on whether the row has media and on what the answer says *)
(* of the job, and on nothing else.                                        *)
THEOREM DeriveIsVerdict ==
  ASSUME NEW stored \in Row, NEW item \in Item \cup {NoItem},
         NEW answered \in BOOLEAN
  PROVE  Derive(stored, item, answered).status =
           Verdict(stored.status, RowHasMedia(stored), View(item, answered))
<1>1. CASE Known(item)
  <2>1. RemoteState(item).status \in Statuses
    BY <1>1 DEF Known, RemoteState, State, Statuses
  <2> QED
    BY <1>1, <2>1 DEF Derive, View, Verdict
<1>2. CASE ~ Known(item) /\ answered
  <2>1. Derive(stored, item, answered).status = "querying"
    BY <1>2 DEF Derive, MissState, State
  <2>2. View(item, answered) = "miss"
    BY <1>2 DEF View
  <2> QED
    BY <2>1, <2>2 DEF Verdict, Statuses
<1>3. CASE ~ Known(item) /\ ~ answered
  <2>1. Derive(stored, item, answered) = FailedLookupState(stored)
    BY <1>3 DEF Derive
  <2>2. View(item, answered) = "error"
    BY <1>3 DEF View
  <2>3. stored.status \in Statuses
    BY DEF Row
  <2> QED
    BY <2>1, <2>2, <2>3 DEF FailedLookupState, State, Verdict, Statuses
<1> QED
  BY <1>1, <1>2, <1>3

(* A row has media after a query exactly if it had some or the item of the *)
(* answer brings some: no query takes the last URL of a row away, although *)
(* videos clear the images.                                                *)
THEOREM MediaOnlyGrow ==
  ASSUME NEW stored \in Row, NEW item \in Item \cup {NoItem},
         NEW answered \in BOOLEAN
  PROVE  RowHasMedia(Recovered(stored, item, answered))
           <=> RowHasMedia(stored) \/ BringsMedia(item)
<1> DEFINE images == MergedImages(stored, item)
           videos == MergedVideos(stored, item)
<1>1. stored.images \in Nat /\ stored.videos \in Nat
  BY DEF Row
<1>2. RowHasMedia(Recovered(stored, item, answered)) <=> images + videos > 0
  BY DEF RowHasMedia, Recovered
<1>3. CASE item = NoItem
  BY <1>1, <1>2, <1>3 DEF MergedImages, MergedVideos, BringsMedia, RowHasMedia
<1>4. CASE item # NoItem
  <2>1. item.images \in Nat /\ item.videos \in Nat
    BY <1>4, MediaAssumption DEF Item
  <2> QED
    BY <1>1, <1>2, <1>4, <2>1
    DEF MergedImages, MergedVideos, MergedCount, BringsMedia, ItemHasMedia,
        RowHasMedia
<1> QED
  BY <1>3, <1>4

-----------------------------------------------------------------------------
MediaHaveEvidence == RowHasMedia(row) => "media" \in seen
ProgressIsPercent == row.progress <= 100

IInv ==
  /\ TypeOK
  /\ SuccessHasEvidence
  /\ FailureHasEvidence
  /\ RunningHasProgress
  /\ MediaHaveEvidence
  /\ ProgressIsPercent

-----------------------------------------------------------------------------
(* The state an item stands for: its type, and why it is terminal.         *)
LEMMA RemoteStateFacts ==
  ASSUME NEW item \in Item, RemoteState(item).status # "unknown"
  PROVE  /\ RemoteState(item).status \in Statuses
         /\ RemoteState(item).queue \in QueueWords
         /\ RemoteState(item).progress \in 0 .. 100
         /\ RemoteState(item).status = "success" =>
              item.queue = "success" \/ ItemHasMedia(item)
         /\ RemoteState(item).status = "failed" =>
              item.failure \/ item.code = 30 \/ item.queue = "failed"
         /\ RemoteState(item).queue = "running" \/ item.queue = "running" =>
              RemoteState(item).progress > 0
<1>1. /\ item.queue \in QueueWords /\ item.progress \in Nat
      /\ item.failure \in BOOLEAN
  BY RawProgressAssumption DEF Item
<1>2. /\ RemoteProgress(item) \in 0 .. 99
      /\ ProgressOr(item, 55) \in 1 .. 99 /\ ProgressOr(item, 8) \in 1 .. 99
  BY <1>1 DEF RemoteProgress, ProgressOr
<1>3. QueueOrFinish(item) \in QueueWords
  BY <1>1 DEF QueueOrFinish, QueueWords
<1> QED
  BY <1>1, <1>2, <1>3
  DEF RemoteState, State, IndicatesFailure, QueueWords, Statuses

(* What a query stores for a row: its type.                                *)
LEMMA RecoveredType ==
  ASSUME NEW r \in Row, r.progress <= 100,
         NEW item \in Item \cup {NoItem}, NEW answered \in BOOLEAN
  PROVE  /\ Recovered(r, item, answered) \in Row
         /\ Recovered(r, item, answered).progress <= 100
<1>1. /\ r.status \in Statuses /\ r.queue \in QueueWords
      /\ r.progress \in Nat /\ r.images \in Nat /\ r.videos \in Nat
  BY DEF Row
<1> DEFINE d == Derive(r, item, answered)
<1>2. d.status \in Statuses /\ d.queue \in QueueWords /\ d.progress \in 0 .. 100
  <2>1. CASE Known(item)
    BY <2>1, RemoteStateFacts DEF Derive, Known
  <2>2. CASE ~ Known(item) /\ answered
    BY <1>1, <2>2 DEF Derive, MissState, State, Statuses, QueueWords
  <2>3. CASE ~ Known(item) /\ ~ answered
    BY <1>1, <2>3 DEF Derive, FailedLookupState, State, Statuses, QueueWords
  <2> QED BY <2>1, <2>2, <2>3
<1>3. item # NoItem => /\ item.images \in Nat /\ item.videos \in Nat
                       /\ item.queue \in QueueWords
  BY MediaAssumption DEF Item
<1>4. MergedImages(r, item) \in Nat /\ MergedVideos(r, item) \in Nat
  BY <1>1, <1>3 DEF MergedImages, MergedVideos, MergedCount
<1>5. StoredQueue(d, item) \in QueueWords
  BY <1>2, <1>3 DEF StoredQueue
<1>6. JsonStatus(d.queue) \in Statuses
  BY DEF JsonStatus, Statuses
<1> QED
  BY <1>2, <1>4, <1>5, <1>6 DEF Recovered, Row

(* One query step, whatever the answer: what has proved the stored row.    *)
LEMMA RecoveredEvidence ==
  ASSUME IInv, NEW item \in Item \cup {NoItem}, NEW answered \in BOOLEAN,
         row' = Recovered(row, item, answered),
         seen' = seen \cup Shown(item)
  PROVE  /\ SuccessHasEvidence' /\ FailureHasEvidence' /\ MediaHaveEvidence'
         /\ row'.queue = "running" => row'.progress > 0
<1>1. /\ row \in Row /\ row.status \in Statuses /\ row.queue \in QueueWords
      /\ row.progress \in Nat /\ row.images \in Nat /\ row.videos \in Nat
  BY DEF IInv, TypeOK, Row
<1>2. /\ row'.status = Derive(row, item, answered).status
      /\ row'.queue = StoredQueue(Derive(row, item, answered), item)
      /\ row'.progress = Derive(row, item, answered).progress
      /\ row'.images = MergedImages(row, item)
      /\ row'.videos = MergedVideos(row, item)
  BY DEF Recovered
<1>3. item # NoItem =>
        /\ item \in Item /\ item.images \in Nat /\ item.videos \in Nat
        /\ item.queue \in QueueWords
  BY MediaAssumption DEF Item
<1>4. RowHasMedia(row') => RowHasMedia(row) \/ BringsMedia(item)
  BY <1>1, <1>2, <1>3
  DEF RowHasMedia, MergedImages, MergedVideos, MergedCount, BringsMedia,
      ItemHasMedia
<1>5. BringsMedia(item) => "media" \in Shown(item)
  BY DEF BringsMedia, Shown
<1>6. MediaHaveEvidence'
  BY <1>4, <1>5 DEF MediaHaveEvidence, IInv
<1>7. CASE Known(item)
  <2>1. item \in Item /\ item # NoItem /\ RemoteState(item).status # "unknown"
    BY <1>7 DEF Known
  <2>2. Derive(row, item, answered) = RemoteState(item)
    BY <1>7 DEF Derive
  <2>3. row'.status = "success" => {"success", "media"} \cap Shown(item) # {}
    BY <1>2, <2>1, <2>2, RemoteStateFacts DEF Shown
  <2>4. row'.status = "failed" => "failed" \in Shown(item)
    BY <1>2, <2>1, <2>2, RemoteStateFacts DEF Shown
  <2>5. row'.queue = "running" => row'.progress > 0
    BY <1>2, <2>1, <2>2, RemoteStateFacts DEF StoredQueue
  <2> QED
    BY <1>6, <2>3, <2>4, <2>5 DEF SuccessHasEvidence, FailureHasEvidence
<1>8. CASE ~ Known(item) /\ answered
  <2>1. Derive(row, item, answered) = MissState(row)
    BY <1>8 DEF Derive
  <2>2. row'.status = "querying"
    BY <1>2, <2>1 DEF MissState, State
  <2>3. item # NoItem => item.queue # "running"
    BY <1>3, <1>8
    DEF Known, RemoteState, State, Statuses, IndicatesFailure
  <2>4. row'.queue = "running" => row'.progress > 0
    BY <1>1, <1>2, <2>1, <2>3 DEF StoredQueue, MissState, State
  <2> QED
    BY <1>6, <2>2, <2>4 DEF SuccessHasEvidence, FailureHasEvidence
<1>9. CASE ~ Known(item) /\ ~ answered
  <2>1. Derive(row, item, answered) = FailedLookupState(row)
    BY <1>9 DEF Derive
  <2>2. row'.status = "success" => RowHasMedia(row) \/ row.status = "success"
    BY <1>2, <2>1 DEF FailedLookupState, State
  <2>3. row'.status = "failed" => row.status = "failed"
    BY <1>2, <2>1 DEF FailedLookupState, State
  <2>4. item # NoItem => item.queue # "running"
    BY <1>3, <1>9
    DEF Known, RemoteState, State, Statuses, IndicatesFailure
  <2>5. row'.queue = "running" => row'.progress > 0
    BY <1>1, <1>2, <2>1, <2>4 DEF StoredQueue, FailedLookupState, State
  <2> QED
    BY <1>6, <2>2, <2>3, <2>5
    DEF SuccessHasEvidence, FailureHasEvidence, MediaHaveEvidence, IInv
<1> QED
  BY <1>7, <1>8, <1>9

(* A failed lookup for a row of the invariant.                             *)
LEMMA FailedKeeps ==
  ASSUME IInv, row' = Recovered(row, NoItem, FALSE)
  PROVE  /\ row'.progress >= row.progress
         /\ row'.images = row.images /\ row'.videos = row.videos
         /\ row.status # "querying" => row'.status # "querying"
<1>1. /\ row.status \in Statuses /\ row.progress \in Nat
      /\ row.progress <= 100
  BY DEF IInv, TypeOK, Row, ProgressIsPercent
<1>2. /\ row'.status = FailedLookupState(row).status
      /\ row'.progress = FailedLookupState(row).progress
  BY DEF Recovered, Derive, Known
<1>3. row'.images = row.images /\ row'.videos = row.videos
  BY DEF Recovered, MergedImages, MergedVideos
<1> QED
  <2>1. CASE RowHasMedia(row)
    BY <1>1, <1>2, <1>3, <2>1 DEF FailedLookupState, State
  <2>2. CASE ~ RowHasMedia(row)
    <3>1. CASE row.status \in {"failed", "success"}
      BY <1>1, <1>2, <1>3, <2>2, <3>1 DEF FailedLookupState, State
    <3>2. CASE row.status = "querying"
      <4>1. FailedLookupState(row).progress =
              IF row.progress > 8 THEN row.progress ELSE 8
        BY <2>2, <3>2 DEF FailedLookupState, State
      <4>2. row.progress \in Nat
        BY <1>1
      <4>3. FailedLookupState(row).progress >= row.progress
        BY <4>1, <4>2
      <4> QED BY <1>2, <1>3, <3>2, <4>3
    <3> QED BY <1>1, <3>1, <3>2 DEF Statuses
  <2> QED BY <2>1, <2>2

-----------------------------------------------------------------------------
(* A row that no query has touched has its evidence, or needs none.        *)
LEMMA InitInv == Init => IInv
<1> SUFFICES ASSUME Init PROVE IInv
  OBVIOUS
<1> USE DEF Fresh, Skeleton, Statuses, QueueWords
<1>1. last.what = "none" /\ last \in [what : Lookups, images : Nat, videos : Nat]
  BY DEF Init, Lookup, Lookups
<1>2. ASSUME NEW q \in QueueWords, NEW p \in SubmittedProgress
      PROVE  Accepted(q, p) \in Row /\ Accepted(q, p).progress <= 100
  <2>1. p \in 0 .. 100
    BY RawProgressAssumption DEF SubmittedProgress
  <2> QED
    BY <2>1 DEF Accepted, Row
<1>3. /\ row \in Row /\ row.progress <= 100 /\ ~ RowHasMedia(row)
      /\ row.status # "success"
      /\ row.status = "failed" => seen = {"rejected"}
      /\ seen \subseteq Proofs
  BY <1>2 DEF Init, Accepted, Legacy, Row, RowHasMedia, Proofs
<1> QED
  BY <1>1, <1>3
  DEF Init, IInv, TypeOK, SuccessHasEvidence, FailureHasEvidence,
      RunningHasProgress, MediaHaveEvidence, ProgressIsPercent

(* Every answer is one of Recovered's, with an item or none.               *)
LEMMA StepIsRecovered ==
  ASSUME IInv, Next
  PROVE  \E item \in Item \cup {NoItem}, answered \in BOOLEAN :
           /\ row' = Recovered(row, item, answered)
           /\ seen' = seen \cup Shown(item)
           /\ last' \in [what : {"hit", "miss", "failed"},
                         images : Nat, videos : Nat]
           /\ kind' = kind
           /\ last'.what = "failed" => item = NoItem /\ ~ answered
<1>1. ASSUME NEW i \in Item, NEW a \in BOOLEAN, QueryHit(i, a)
      PROVE  \E item \in Item \cup {NoItem}, answered \in BOOLEAN :
               /\ row' = Recovered(row, item, answered)
               /\ seen' = seen \cup Shown(item)
               /\ last' \in [what : {"hit", "miss", "failed"},
                             images : Nat, videos : Nat]
               /\ kind' = kind
               /\ last'.what = "failed" => item = NoItem /\ ~ answered
  <2>1. Usable(i) \in Item \cup {NoItem}
    BY DEF Usable
  <2>2. Usable(i) # NoItem =>
          Usable(i).images \in Nat /\ Usable(i).videos \in Nat
    BY <2>1, MediaAssumption DEF Item
  <2>3. last' \in [what : {"hit", "miss", "failed"}, images : Nat, videos : Nat]
    BY <1>1, <2>2 DEF QueryHit, Lookup
  <2>4. last'.what = "failed" => Usable(i) = NoItem /\ ~ a
    BY <1>1 DEF QueryHit, Lookup
  <2> QED
    BY <1>1, <2>1, <2>3, <2>4 DEF QueryHit
<1>2. ASSUME QueryMiss \/ QueryFails
      PROVE  \E answered \in BOOLEAN :
               /\ row' = Recovered(row, NoItem, answered)
               /\ seen' = seen \cup Shown(NoItem)
               /\ last' \in [what : {"hit", "miss", "failed"},
                             images : Nat, videos : Nat]
               /\ kind' = kind
               /\ last'.what = "failed" => ~ answered
  <2>1. seen' = seen \cup Shown(NoItem)
    BY <1>2 DEF QueryMiss, QueryFails, Shown
  <2>2. CASE QueryMiss
    BY <2>1, <2>2 DEF QueryMiss, Lookup
  <2>3. CASE QueryFails
    BY <2>1, <2>3 DEF QueryFails, Lookup
  <2> QED BY <1>2, <2>2, <2>3
<1>3. NoItem \in Item \cup {NoItem}
  OBVIOUS
<1> QED
  BY <1>1, <1>2, <1>3 DEF Next

(* A query is the only step: what it makes of its answer keeps all parts.  *)
LEMMA StepInv == IInv /\ [Next]_vars => IInv'
<1> SUFFICES ASSUME IInv, [Next]_vars PROVE IInv'
  OBVIOUS
<1>1. CASE Next
  <2>1. PICK item \in Item \cup {NoItem}, answered \in BOOLEAN :
          /\ row' = Recovered(row, item, answered)
          /\ seen' = seen \cup Shown(item)
          /\ last' \in [what : {"hit", "miss", "failed"},
                        images : Nat, videos : Nat]
          /\ kind' = kind
    BY <1>1, StepIsRecovered
  <2>2. row' \in Row /\ row'.progress <= 100
    BY <2>1, RecoveredType DEF IInv, TypeOK, ProgressIsPercent
  <2>3. Shown(item) \subseteq Proofs
    BY DEF Shown, Proofs
  <2>4. TypeOK'
    BY <2>1, <2>2, <2>3 DEF IInv, TypeOK, Lookups
  <2>5. /\ SuccessHasEvidence' /\ FailureHasEvidence' /\ MediaHaveEvidence'
        /\ row'.queue = "running" => row'.progress > 0
    BY <2>1, RecoveredEvidence
  <2> QED
    BY <2>2, <2>4, <2>5 DEF IInv, RunningHasProgress, ProgressIsPercent
<1>2. CASE UNCHANGED vars
  BY <1>2
  DEF vars, IInv, TypeOK, SuccessHasEvidence, FailureHasEvidence,
      RunningHasProgress, MediaHaveEvidence, ProgressIsPercent
<1> QED BY <1>1, <1>2

-----------------------------------------------------------------------------
(* The inductive invariant holds of every sequence of answers.             *)
THEOREM Inductive == Spec => []IInv
BY InitInv, StepInv, PTL DEF Spec

(* The stored row stays a row, whatever the items carry.                   *)
THEOREM TypeCorrect == Spec => []TypeOK
<1>1. IInv => TypeOK
  BY DEF IInv
<1> QED BY <1>1, Inductive, PTL

(* A row says success only after an answer that proved it or had media, or *)
(* with media that such an answer brought.                                 *)
THEOREM SuccessIsProved == Spec => []SuccessHasEvidence
<1>1. IInv => SuccessHasEvidence
  BY DEF IInv
<1> QED BY <1>1, Inductive, PTL

(* A row says failed only when the submission was rejected or an answer    *)
(* said so: misses and failed lookups never add up to a failure.           *)
THEOREM FailureIsProved == Spec => []FailureHasEvidence
<1>1. IInv => FailureHasEvidence
  BY DEF IInv
<1> QED BY <1>1, Inductive, PTL

(* No query leaves a row running at 0%, for any progress an item carries.  *)
THEOREM RunningProgresses == Spec => []RunningHasProgress
<1>1. IInv => RunningHasProgress
  BY DEF IInv
<1> QED BY <1>1, Inductive, PTL

(* A failed lookup takes no progress, no media and no terminal status away.*)
THEOREM FailureKeeps == Spec => FailedLookupLosesNothing
<1>1. IInv /\ [Next]_vars =>
        [last'.what = "failed" =>
           /\ row'.progress >= row.progress
           /\ row'.images = row.images /\ row'.videos = row.videos
           /\ row.status # "querying" => row'.status # "querying"]_vars
  <2> SUFFICES ASSUME IInv, Next, last'.what = "failed"
               PROVE  /\ row'.progress >= row.progress
                      /\ row'.images = row.images /\ row'.videos = row.videos
                      /\ row.status # "querying" => row'.status # "querying"
    OBVIOUS
  <2>1. row' = Recovered(row, NoItem, FALSE)
    BY StepIsRecovered
  <2> QED BY <2>1, FailedKeeps
<1> QED BY <1>1, Inductive, PTL DEF Spec, FailedLookupLosesNothing
=============================================================================
