--------------------------- MODULE ResourceUpload ---------------------------
(***************************************************************************)
(* UploadResource of components/client/dreamina/resource: one call for a   *)
(* batch of local files of one type.  A token is fetched, one goroutine    *)
(* per path uploads its file, the results are collected by index, and      *)
(* resource_store turns them into the resources a submission names.        *)
(*                                                                         *)
(* A goroutine takes one of three routes: ImageX (images), VOD OpenAPI     *)
(* (videos, and audio when the token brings STS credentials) or the three  *)
(* phases of the plain HTTP upload (other audio).  The services behind     *)
(* them are seen through what they do with an object: whose bytes it holds *)
(* and whether it was committed.  A request can fail before or after it    *)
(* took effect.                                                            *)
(***************************************************************************)
EXTENDS Integers, Sequences, FiniteSets, FiniteSetsExt

CONSTANTS
  N,         \* paths of the batch
  Names,     \* base names of the files
  Kinds,     \* resource types of a batch
  MaxNodes,  \* upload nodes that VOD's ApplyUploadInner offers
  MaxTries   \* store infos times targets of one node

ASSUME BatchAssumption ==
  /\ N \in Nat \ {0} /\ MaxNodes \in Nat \ {0} /\ MaxTries \in Nat \ {0}
  /\ Kinds \subseteq {"image", "video", "audio"}

Paths == 1 .. N

VARIABLES
  kind,    \* the resource type of the batch
  name,    \* path -> base name of its file
  sts,     \* the token has STS credentials
  infos,   \* how many store infos the token has
  pc,      \* path -> where its goroutine is
  nodes,   \* path -> upload nodes it was offered
  node,    \* path -> the node it is at
  tries,   \* path -> candidates of that node it has tried
  item,    \* path -> the Resource its goroutine made, or NoItem
  bytes,   \* object -> the path whose bytes it holds, Nothing or Corrupt
  closed,  \* objects whose upload was committed or finished
  phase,   \* where the call is
  answer,  \* the stored resources that resource_store answered
  pairs,   \* answered resource -> the path it was merged with, or 0
  outcome

token == <<sts, infos>>
route == <<nodes, node, tries>>
service == <<bytes, closed>>
vars == <<kind, name, token, pc, route, item, service, phase, answer, pairs,
          outcome>>

(***************************************************************************)
(* Objects, and the texts an answer can name a resource by.  All are       *)
(* triples, so that any two of them can be compared.                       *)
(***************************************************************************)
Own(i, n) == <<"own", i, n>>          \* given out by ImageX or a VOD node
TokenKey(j) == <<"info", j, 0>>       \* the token's j-th store info
NameKey(nm) == <<"base", nm, 0>>      \* dreamina/<base name>
Objects == {Own(i, n) : i \in Paths, n \in 1 .. MaxNodes}
             \cup {TokenKey(j) : j \in Paths} \cup {NameKey(nm) : nm \in Names}

Nothing == 0
Corrupt == -1

NoItem == [id |-> "none", uri |-> <<"none", 0, 0>>]
Items == [id : {"remote", "uri"}, uri : Objects] \cup {NoItem}

IdText(i) == IF item[i].id = "uri" THEN item[i].uri ELSE <<"vid", i, 0>>
NameText(i) == <<"name", name[i], 0>>
TextsOf(i) == {IdText(i), NameText(i), item[i].uri}

Route ==
  IF kind = "image" THEN "imagex"
  ELSE IF kind = "video" \/ sts THEN "vod" ELSE "phases"

(* forUpload and selectedIndexedStoreURI: the store info of the path's     *)
(* index; without one the token's StoreURI, which is its first store info; *)
(* without any the base name.                                              *)
KeyOf(i) ==
  IF i <= infos THEN TokenKey(i)
  ELSE IF infos > 0 THEN TokenKey(1) ELSE NameKey(name[i])

-----------------------------------------------------------------------------
Init ==
  /\ kind \in Kinds
  /\ name \in [Paths -> Names]
  /\ sts = FALSE /\ infos = 0
  /\ pc = [i \in Paths |-> "start"]
  /\ nodes = [i \in Paths |-> 0]
  /\ node = [i \in Paths |-> 0]
  /\ tries = [i \in Paths |-> 0]
  /\ item = [i \in Paths |-> NoItem]
  /\ bytes = [o \in Objects |-> Nothing]
  /\ closed = {}
  /\ phase = "token"
  /\ answer = <<>> /\ pairs = <<>>
  /\ outcome = "none"

Return(o) ==
  /\ phase' = "returned"
  /\ outcome' = o

(* getUploadToken.  The request does not say how many files there are, and *)
(* nothing compares the number of store infos with it.                     *)
GetToken ==
  /\ phase = "token"
  /\ \/ /\ sts' \in BOOLEAN
        /\ infos' \in 0 .. N
        /\ phase' = "upload"
        /\ UNCHANGED outcome
     \/ Return("error") /\ UNCHANGED token
  /\ UNCHANGED <<kind, name, pc, route, item, service, answer, pairs>>

-----------------------------------------------------------------------------
(***************************************************************************)
(* One goroutine: uploadSinglePath.                                        *)
(***************************************************************************)
Goto(i, l) == pc' = [pc EXCEPT ![i] = l]
At(i, l) == phase = "upload" /\ pc[i] = l

(* The file is missing or empty, or the credentials the route signs with   *)
(* are.                                                                    *)
Begin(i) ==
  /\ At(i, "start")
  /\ \/ Goto(i, "failed")
     \/ Route = "phases" /\ Goto(i, "init")
     \/ Route # "phases" /\ sts /\ Goto(i, "apply")
  /\ UNCHANGED <<kind, name, token, route, item, service, phase, answer,
                 pairs, outcome>>

(* ApplyImageUpload must offer exactly one object; ApplyUploadInner offers *)
(* one upload node or more.                                                *)
Apply(i) ==
  /\ At(i, "apply")
  /\ \/ Goto(i, "failed") /\ UNCHANGED route
     \/ /\ nodes' \in {[nodes EXCEPT ![i] = n] :
                         n \in IF Route = "imagex" THEN {1} ELSE 1 .. MaxNodes}
        /\ node' = [node EXCEPT ![i] = 1]
        /\ tries' = [tries EXCEPT ![i] = 0]
        /\ Goto(i, "put")
  /\ UNCHANGED <<kind, name, token, item, service, phase, answer, pairs,
                 outcome>>

NextNode_OneTooMany(i) ==
  IF Route = "vod" /\ node[i] <= nodes[i]
    THEN /\ node' = [node EXCEPT ![i] = @ + 1]
         /\ tries' = [tries EXCEPT ![i] = 0]
         /\ Goto(i, "put")
         /\ UNCHANGED nodes
    ELSE Goto(i, "failed") /\ UNCHANGED route

(* The loop over upload nodes in uploadVideoWithVODOpenAPI.                *)
NextNode(i) ==
  IF Route = "vod" /\ node[i] < nodes[i]
    THEN /\ node' = [node EXCEPT ![i] = @ + 1]
         /\ tries' = [tries EXCEPT ![i] = 0]
         /\ Goto(i, "put")
         /\ UNCHANGED nodes
    ELSE Goto(i, "failed") /\ UNCHANGED route

(* The PUT was accepted: a 2xx answer without an error code and with the   *)
(* file's CRC32, if it has one.                                            *)
PutAccepted(i) ==
  /\ At(i, "put")
  /\ bytes' = [bytes EXCEPT ![Own(i, node[i])] = i]
  /\ Goto(i, "commit")
  /\ UNCHANGED <<kind, name, token, route, item, closed, phase, answer,
                 pairs, outcome>>

(* The PUT failed, at any point; with a wrong CRC32 the object holds       *)
(* something else.  VOD tries the node's next candidate and then the next  *)
(* node (uploadVODNodeDirect); ImageX gives up.                            *)
PutFailed_Commits(i) ==
  /\ At(i, "put")
  /\ bytes' \in {[bytes EXCEPT ![Own(i, node[i])] = b] :
                   b \in {bytes[Own(i, node[i])], i, Corrupt}}
  /\ Goto(i, "commit")
  /\ UNCHANGED <<kind, name, token, route, item, closed, phase, answer,
                 pairs, outcome>>

PutFailed_SameCandidate(i) ==
  /\ At(i, "put")
  /\ bytes' \in {[bytes EXCEPT ![Own(i, node[i])] = b] :
                   b \in {bytes[Own(i, node[i])], i, Corrupt}}
  /\ IF Route = "vod" THEN UNCHANGED <<route, pc>> ELSE NextNode(i)
  /\ UNCHANGED <<kind, name, token, item, closed, phase, answer, pairs,
                 outcome>>

PutFailed(i) ==
  /\ At(i, "put")
  /\ bytes' \in {[bytes EXCEPT ![Own(i, node[i])] = b] :
                   b \in {bytes[Own(i, node[i])], i, Corrupt}}
  /\ IF Route = "vod" /\ tries[i] + 1 < MaxTries
       THEN /\ tries' = [tries EXCEPT ![i] = @ + 1]
            /\ UNCHANGED <<nodes, node, pc>>
       ELSE NextNode(i)
  /\ UNCHANGED <<kind, name, token, item, closed, phase, answer, pairs,
                 outcome>>

MakeItem(i, id, uri) ==
  /\ item' = [item EXCEPT ![i] = [id |-> id, uri |-> uri]]
  /\ Goto(i, "check")

(* CommitImageUpload, CommitUploadInner.  An image is known by its object  *)
(* until resource_store; a video by the VID, when the service gave one.    *)
CommitAccepted(i) ==
  /\ At(i, "commit")
  /\ closed' = closed \cup {Own(i, node[i])}
  /\ \E id \in IF Route = "imagex" THEN {"uri"} ELSE {"remote", "uri"} :
       MakeItem(i, id, Own(i, node[i]))
  /\ UNCHANGED <<kind, name, token, route, bytes, phase, answer, pairs,
                 outcome>>

(* The commit failed or its answer was lost: VOD uploads to the next node. *)
CommitFailed(i) ==
  /\ At(i, "commit")
  /\ closed' \in {closed, closed \cup {Own(i, node[i])}}
  /\ NextNode(i)
  /\ UNCHANGED <<kind, name, token, item, bytes, phase, answer, pairs,
                 outcome>>

(* uploadWithPhases: init gives an uploadid, transfer sends the bytes under*)
(* it, finish makes them the object.                                       *)
PhaseInit(i) ==
  /\ At(i, "init")
  /\ Goto(i, "transfer") \/ Goto(i, "failed")
  /\ UNCHANGED <<kind, name, token, route, item, service, phase, answer,
                 pairs, outcome>>

PhaseTransfer(i) ==
  /\ At(i, "transfer")
  /\ Goto(i, "finish") \/ Goto(i, "failed")
  /\ UNCHANGED <<kind, name, token, route, item, service, phase, answer,
                 pairs, outcome>>

Finished(i) ==
  /\ bytes' = [bytes EXCEPT ![KeyOf(i)] = i]
  /\ closed' = closed \cup {KeyOf(i)}

PhaseFinish(i) ==
  /\ At(i, "finish")
  /\ \/ Finished(i) /\ \E id \in {"remote", "uri"} : MakeItem(i, id, KeyOf(i))
     \/ Finished(i) /\ Goto(i, "failed") /\ UNCHANGED item
     \/ Goto(i, "failed") /\ UNCHANGED <<item, service>>
  /\ UNCHANGED <<kind, name, token, route, phase, answer, pairs, outcome>>

(* The rest of uploadSinglePath: audio and video need an id of the         *)
(* service's own, and a duration in the model's range.                     *)
CheckItem(i) ==
  /\ At(i, "check")
  /\ \/ (kind = "image" \/ item[i].id = "remote") /\ Goto(i, "done")
     \/ kind # "image" /\ Goto(i, "failed")
  /\ UNCHANGED <<kind, name, token, route, item, service, phase, answer,
                 pairs, outcome>>

-----------------------------------------------------------------------------
(***************************************************************************)
(* The call again: UploadResource after wg.Wait, and resourceStore.        *)
(***************************************************************************)
Ended == \A i \in Paths : pc[i] \in {"done", "failed"}

(* One failed path fails the batch.                                        *)
Collect ==
  /\ phase = "upload" /\ Ended
  /\ IF \E i \in Paths : pc[i] = "failed"
       THEN Return("error")
       ELSE phase' = "store" /\ UNCHANGED outcome
  /\ UNCHANGED <<kind, name, token, pc, route, item, service, answer, pairs>>

(* What resource_store may answer: the path a stored resource belongs to   *)
(* (0: none of the batch) and the one field that tells, if any does.  A    *)
(* resource is answered at most once, in any order, or not at all.         *)
Foreign == 0
Stored == [of : Paths \cup {Foreign}, by : {"id", "uri", "name", "none"}]
Answers ==
  {a \in UNION {[1 .. n -> Stored] : n \in 0 .. N + 1} :
     /\ \A j, k \in DOMAIN a : a[j].of = a[k].of => j = k
     /\ \A k \in DOMAIN a : a[k].of = Foreign => a[k].by = "none"}

ResourceStore ==
  /\ phase = "store"
  /\ \/ /\ answer' \in Answers
        /\ IF answer' = <<>> THEN Return("error")
           ELSE phase' = "merge" /\ UNCHANGED outcome
     \/ Return("error") /\ UNCHANGED answer
  /\ UNCHANGED <<kind, name, token, pc, route, item, service, pairs>>

Unused == Paths \ {pairs[k] : k \in DOMAIN pairs}

(* findOriginalResourceForStored: the first unused path one of whose texts *)
(* is the answered one; 0 when there is none.                              *)
Matching_IgnoresUsed(s) ==
  LET text == IF s.by = "id" THEN IdText(s.of)
              ELSE IF s.by = "uri" THEN item[s.of].uri ELSE NameText(s.of)
  IN {i \in Paths : s.by # "none" /\ text \in TextsOf(i)}

Matching(s) ==
  LET text == IF s.by = "id" THEN IdText(s.of)
              ELSE IF s.by = "uri" THEN item[s.of].uri ELSE NameText(s.of)
  IN {i \in Unused : s.by # "none" /\ text \in TextsOf(i)}

(* mergeStoredResources: the matching path, else the one in the same place *)
(* of the request if it is unused, else no metadata at all.                *)
PairOf(k) ==
  IF Matching(answer[k]) # {} THEN Min(Matching(answer[k]))
  ELSE IF k \in Unused THEN k ELSE 0

MergeNext ==
  /\ phase = "merge" /\ Len(pairs) < Len(answer)
  /\ pairs' = Append(pairs, PairOf(Len(pairs) + 1))
  /\ UNCHANGED <<kind, name, token, pc, route, item, service, phase, answer,
                 outcome>>

MergeDone_TakesAnyCount ==
  /\ phase = "merge" /\ Len(pairs) = Len(answer)
  /\ Return("ok")
  /\ UNCHANGED <<kind, name, token, pc, route, item, service, answer, pairs>>

(* Fewer or more resources than paths are an error.                        *)
MergeDone ==
  /\ phase = "merge" /\ Len(pairs) = Len(answer)
  /\ Return(IF Len(pairs) = N THEN "ok" ELSE "error")
  /\ UNCHANGED <<kind, name, token, pc, route, item, service, answer, pairs>>

-----------------------------------------------------------------------------
UploadStep(i) ==
  \/ Begin(i)
  \/ Apply(i) \/ PutAccepted(i) \/ PutFailed(i)
  \/ CommitAccepted(i) \/ CommitFailed(i)
  \/ PhaseInit(i) \/ PhaseTransfer(i) \/ PhaseFinish(i)
  \/ CheckItem(i)

CallStep == GetToken \/ Collect \/ ResourceStore \/ MergeNext \/ MergeDone

Next == CallStep \/ \E i \in Paths : UploadStep(i)

(* Every request ends: both HTTP clients time out after 30 s.              *)
Fairness == WF_vars(CallStep) /\ \A i \in Paths : WF_vars(UploadStep(i))

Spec == Init /\ [][Next]_vars /\ Fairness

-----------------------------------------------------------------------------
TypeOK ==
  /\ kind \in Kinds
  /\ name \in [Paths -> Names]
  /\ sts \in BOOLEAN
  /\ infos \in 0 .. N
  /\ pc \in [Paths -> {"start", "apply", "put", "commit", "init", "transfer",
                       "finish", "check", "done", "failed"}]
  /\ nodes \in [Paths -> 0 .. MaxNodes]
  /\ node \in [Paths -> 0 .. MaxNodes]
  /\ tries \in [Paths -> 0 .. MaxTries - 1]
  /\ item \in [Paths -> Items]
  /\ bytes \in [Objects -> Paths \cup {Nothing, Corrupt}]
  /\ closed \subseteq Objects
  /\ phase \in {"token", "upload", "store", "merge", "returned"}
  /\ answer \in Answers
  /\ pairs \in Seq(0 .. N)
  /\ outcome \in {"none", "ok", "error"}

Stores == phase \in {"store", "merge"} \/ outcome = "ok"

(* The token gives every path an object of its own, or the route does not  *)
(* take the object from the token.                                         *)
OwnKeys ==
  Route = "phases" =>
    \/ infos = N
    \/ infos = 0 /\ \A i, j \in Paths : name[i] = name[j] => i = j

ItemsHold ==
  \A i \in Paths :
    /\ item[i] # NoItem
    /\ kind # "image" => item[i].id = "remote"
    /\ item[i].uri \in closed
    /\ bytes[item[i].uri] = i

(* What resource_store is asked to store is there: every path was uploaded,*)
(* its object was committed and holds that file's bytes, whatever was      *)
(* retried, lost or sent to another node before, and an audio or video     *)
(* file has an id of the service's.  (UploadResource, uploadSinglePath,    *)
(* uploadVideoWithVODOpenAPI)                                              *)
StoresOnlyWhatIsThere == Stores /\ OwnKeys => ItemsHold

(* A batch that succeeds has one resource for every path.                  *)
(* (the count checks in resourceStore)                                     *)
CompleteOrError ==
  outcome = "ok" => Len(answer) = N /\ \A i \in Paths : pc[i] = "done"

InOrder == \A k \in DOMAIN answer : answer[k].of = k
Identified ==
  /\ \A k \in DOMAIN answer : answer[k].by \in {"id", "uri"}
  /\ \A i, j \in Paths : item[i].uri = item[j].uri => i = j

(* Local path, name and size are merged with the resource they belong to,  *)
(* when the answer keeps the order of the request, whatever its fields,    *)
(* and in any order when each resource shows its id or store_uri.          *)
(* (mergeStoredResources)                                                  *)
PairedWithOwnPath ==
  outcome = "ok" /\ (InOrder \/ Identified) =>
    \A k \in 1 .. N : pairs[k] = answer[k].of

(* The call returns: wg.Wait does not wait for ever.                       *)
UploadReturns == <>(phase = "returned")
=============================================================================
