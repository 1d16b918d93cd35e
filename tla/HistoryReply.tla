---------------------------- MODULE HistoryReply ----------------------------
(***************************************************************************)
(* How components/client/dreamina/mcp/client.go reads a JSON reply of the  *)
(* backend: the code of a submission and the ids it gives the task, and    *)
(* from a history lookup the item of one task.  Nothing fixes the shape of *)
(* a reply: any number of wrappers may stand around a list of items, or    *)
(* around an object that has them by id, and an item may keep its fields   *)
(* in a nested object.                                                     *)
(*                                                                         *)
(* A JSON value is a text, a list or an object; keys stand for all the     *)
(* spellings the code knows of them (submit_id, submitId, SubmitID).  Go   *)
(* visits a map in any order, so what a search may come to is a set; where *)
(* the code sorts the keys it follows KeyOrder.                            *)
(***************************************************************************)
EXTENDS Integers, FiniteSets, SequencesExt, Functions

CONSTANTS
  KeyOrder,    \* all keys, in the order of sort.Strings
  MaxNesting,  \* how many levels a reply may have: encoding/json has a limit
  Nil          \* no value

ASSUME NestingAssumption == MaxNesting \in Nat

Str(t) == [kind |-> "text", text |-> t]
List(s) == [kind |-> "list", elems |-> s]
Object(f) == [kind |-> "object", fields |-> f]

(* The children of a node: in list order, or by the keys in a given order. *)
At(node, keys) ==
  LET present == SelectSeq(keys, LAMBDA k : k \in DOMAIN node.fields) IN
  [i \in DOMAIN present |-> node.fields[present[i]]]

Children(node) ==
  CASE node.kind = "text"   -> <<>>
    [] node.kind = "list"   -> node.elems
    [] node.kind = "object" -> At(node, KeyOrder)

Parts(node) ==
  CASE node.kind = "text"   -> {}
    [] node.kind = "list"   -> Range(node.elems)
    [] node.kind = "object" -> Range(node.fields)

(* The first outcome of several searches that is a value, for searches in  *)
(* order and in any order; each search has a set of possible outcomes.     *)
InOrder(searches, none) ==
  {v \in {none} \cup UNION Range(searches) :
     \/ v = none /\ \A i \in DOMAIN searches : none \in searches[i]
     \/ v # none /\ \E i \in DOMAIN searches :
          v \in searches[i] /\ \A j \in 1 .. i - 1 : none \in searches[j]}

InAnyOrder(searches) ==
  ((UNION searches) \ {Nil})
    \cup (IF \A s \in searches : Nil \in s THEN {Nil} ELSE {})

(* A recursive search, a number of levels deep: Visit says what it comes   *)
(* to at a node, given what it comes to at those that are Inside it.       *)
Search(start, levels, Inside(_), nothing, Visit(_, _)) ==
  LET level[d \in 0 .. levels] ==
        IF d = 0 THEN {start} ELSE UNION {Inside(n) : n \in level[d - 1]}
      found[left \in 0 .. levels] ==
        LET below == found[left - 1] IN
        [n \in level[levels - left] |->
           IF left = 0 THEN nothing ELSE Visit(n, below)] IN
  found[levels][start]

-----------------------------------------------------------------------------
(* The first text among the keys: the node's own, in the order of the      *)
(* keys, then those further in, in order.                                  *)
First(texts) ==
  LET some == SelectSeq(texts, LAMBDA t : t # "") IN
  IF some = <<>> THEN "" ELSE some[1]

TextsAt(node, keys) ==
  LET own == IF node.kind = "object" THEN At(node, keys) ELSE <<>> IN
  [i \in DOMAIN own |-> IF own[i].kind = "text" THEN own[i].text ELSE ""]

FirstText(root, keys, Next(_)) ==
  LET OwnOf(n) == First(TextsAt(n, keys))
      Visit(n, below) ==
        IF OwnOf(n) # "" THEN OwnOf(n)
        ELSE First([i \in DOMAIN Next(n) |-> below[Next(n)[i]]]) IN
  Search(root, 7, LAMBDA n : IF OwnOf(n) # "" THEN {} ELSE Range(Next(n)),
         "", Visit)

(* firstNestedStringValue, the first of collectNestedStringValues.         *)
FirstString(node, keys) == FirstText(node, keys, Children)

(* firstMetadataStringValue: only the wrappers of metadata are searched.   *)
MetaWrappers == <<"error", "meta", "response", "payload", "data", "result">>
FirstMetadata(root, keys) ==
  FirstText(root, keys,
            LAMBDA n : IF n.kind = "object" THEN At(n, MetaWrappers) ELSE <<>>)

(* doPost and doGenerate: a reply without a code is taken for a success.   *)
OrElse(a, b) == IF a # "" THEN a ELSE b
Code(reply) ==
  OrElse(FirstMetadata(reply, <<"ret", "code", "status_code">>), "0")
Accepted(reply) == Code(reply) = "0"

-----------------------------------------------------------------------------
(* primaryResponseData: the body of a submission's reply.  It is the first *)
(* wrapper, or the first inside a wrapper of metadata, or what is left of  *)
(* the reply without its metadata; and a body of which only a wrapper and  *)
(* metadata remain is unwrapped.                                           *)
Wrappers == <<"data", "result", "payload">>
Metadata == {"ret", "code", "status", "message", "msg", "log_id",
             "request_id"}
Incidental == Metadata \cup {"description", "meta", "error", "response",
                             "transport"}

Sole(node) ==
  {node.fields[k] : k \in {k \in Range(Wrappers) :
                             /\ node.kind = "object"
                             /\ DOMAIN node.fields \ Incidental = {k}}}

Unwrapped(node) ==
  Search(node, MaxNesting, Sole, Nil,
         LAMBDA n, below : IF Sole(n) = {} THEN n
                           ELSE below[CHOOSE inner \in Sole(n) : TRUE])

Body(reply) ==
  LET BodiesIn(n) == IF n.kind = "object" THEN At(n, Wrappers) ELSE <<>>
      around == At(reply, <<"response", "error", "meta">>)
      bodies == BodiesIn(reply)
                  \o FlattenSeq([i \in DOMAIN around |-> BodiesIn(around[i])])
      rest == Restrict(reply.fields, DOMAIN reply.fields \ Metadata) IN
  Unwrapped(IF bodies # <<>> THEN bodies[1] ELSE Object(rest))

(* recoveredHistoryID: the id under which a query asks for the task, "" if *)
(* the reply has none.                                                     *)
TaskIds == <<"history_id", "submit_id", "task_id">>
HistoryIdOf(reply) ==
  OrElse(FirstString(Body(reply), TaskIds), FirstString(reply, TaskIds))

(* remoteSubmitIDFromOutcome: the id to which the local row is renamed.  A *)
(* submit_id counts only at the top of the body.                           *)
SubmitIdOf(reply) ==
  OrElse(First(TextsAt(Body(reply), <<"submit_id", "task_id">>)),
         HistoryIdOf(reply))

(* The ids of an accepted task in tasks.db: the row's, and the one under   *)
(* which its history is asked for.                                         *)
IdsFrom(reply, local) == [row |-> OrElse(SubmitIdOf(reply), local),
                          query |-> OrElse(HistoryIdOf(reply), local)]

AcceptancesIn(replies, local) ==
  {IdsFrom(reply, local) : reply \in {r \in replies : Accepted(r)}}

-----------------------------------------------------------------------------
(* findHistoryItemsValue: where the items are, or Nil.  It goes eight      *)
(* levels deep.                                                            *)
ItemKeys == <<"items", "records", "history", "history_items", "list",
              "results">>
NotAnId == {"ret", "code", "message", "msg", "errmsg", "log_id",
            "request_id", "systime", "meta", "response", "items", "results",
            "list", "records", "history"} \cup Range(Wrappers)

LooksLikeItem(node) ==
  /\ node.kind = "object"
  /\ \/ First(TextsAt(node, <<"submit_id", "history_id", "history_record_id",
                            "task_id">>)) # ""
     \/ {"task", "item_list", "queue_info"} \cap DOMAIN node.fields # {}

LooksLikeKeyed(node) ==
  \E k \in DOMAIN node.fields \ NotAnId : LooksLikeItem(node.fields[k])

ItemKeysOf(node) ==
  {i \in DOMAIN ItemKeys : ItemKeys[i] \in DOMAIN node.fields}

HasItems(node) ==
  node.kind = "object" /\ (ItemKeysOf(node) # {} \/ LooksLikeKeyed(node))

ItemsAt(node) ==
  IF ItemKeysOf(node) = {} THEN node
  ELSE node.fields[ItemKeys[Min(ItemKeysOf(node))]]

Opened(node) == IF HasItems(node) THEN {} ELSE Parts(node)

Outcomes(node, below) ==
  LET Wrapped(i) == IF Wrappers[i] \in DOMAIN node.fields
                    THEN below[node.fields[Wrappers[i]]] ELSE {Nil} IN
  CASE HasItems(node) -> {ItemsAt(node)}
    [] node.kind = "text" -> {Nil}
    [] node.kind = "list" ->
         InOrder([i \in DOMAIN node.elems |-> below[node.elems[i]]], Nil)
    [] node.kind = "object" /\ ~HasItems(node) ->
         InOrder(<<InOrder([i \in DOMAIN Wrappers |-> Wrapped(i)], Nil),
                   InAnyOrder({below[n] : n \in Parts(node)})>>, Nil)

FindItems(node) == Search(node, 8, Opened, {Nil}, Outcomes)

(* historyItemFromValue: the ids and the status, as the item's accessors   *)
(* give them.  A node with none of them is no item.                        *)
StatusKeys == <<"status", "gen_status", "state">>
QueueKeys == <<"queue_status", "queue_state", "status">>

ItemOf(node) ==
  LET submit == FirstString(node, <<"submit_id">>)
      record == FirstString(node, <<"history_record_id">>)
      history == FirstString(node, <<"history_id">>)
      item == [submit |-> submit, record |-> record, history |-> history,
               task |-> FirstString(node, <<"task_id">>),
               status |-> OrElse(FirstString(node, StatusKeys),
                                 FirstString(node, QueueKeys))] IN
  IF \/ node.kind # "object"
     \/ submit = "" /\ record = "" /\ history = "" /\ item.status = ""
  THEN Nil ELSE item

(* addHistoryItem: an item is filed under the key it stood at and all the  *)
(* ids it has, in place of what was filed there before.                    *)
Filing(item, key) ==
  [item |-> item,
   under |-> IF item = Nil THEN {}
             ELSE {key, item.submit, item.record, item.history} \ {""}]

Filed_HistoryOnly(filings) ==
  [k \in {f.item.history : f \in {f \in Range(filings) : f.item # Nil}} |->
     (CHOOSE f \in Range(filings) : f.item # Nil /\ f.item.history = k).item]

Filed(filings) ==
  [k \in UNION {f.under : f \in Range(filings)} |->
     filings[Max({i \in DOMAIN filings : k \in filings[i].under})].item]

(* parseHistoryItems: an object that holds no items by id is unwrapped     *)
(* first, when that finds any.  An item without ids takes its key.         *)
Named(item, key) ==
  IF item # Nil /\ item.history = "" /\ item.submit = ""
  THEN [item EXCEPT !.history = key] ELSE item

FilingAt(node, k) == Filing(Named(ItemOf(node.fields[k]), k), k)

Collected(node) ==
  CASE node = Nil \/ node.kind = "text" -> {<<>>}
    [] node # Nil /\ node.kind = "list" ->
         {Filed([i \in DOMAIN node.elems |-> Filing(ItemOf(node.elems[i]), "")])}
    [] node # Nil /\ node.kind = "object" ->
         {Filed([i \in DOMAIN order |-> FilingAt(node, order[i])]) :
            order \in SetToSeqs(DOMAIN node.fields)}

Held(node) ==
  IF node # Nil /\ node.kind = "object" /\ ~LooksLikeKeyed(node)
  THEN FindItems(node) ELSE {}

Parses(node, below) ==
  IF Held(node) = {} THEN Collected(node)
  ELSE UNION {InOrder(<<below[n], Collected(node)>>, <<>>) : n \in Held(node)}

ParseItems(node) == Search(node, MaxNesting, Held, {<<>>}, Parses)

(* pickRecoveredHistoryItem: the item filed under the id, or one whose ids *)
(* include it; never another task's.                                       *)
Picked(items, id) ==
  IF id \in DOMAIN items THEN {items[id]}
  ELSE LET matching == {i \in Range(items) :
                          id \in {i.history, i.submit, i.task}} IN
       IF matching = {} THEN {Nil} ELSE matching

(* GetHistoryByIds and pickRecoveredHistoryItem for one id.                *)
Lookup(reply, id) ==
  UNION {Picked(items, id) :
           items \in UNION {ParseItems(n) : n \in FindItems(reply)}}

FoundFor(replies, id) == UNION {Lookup(reply, id) : reply \in replies}

-----------------------------------------------------------------------------
(* What it takes for a reply to have a task: wrappers around a list, or an *)
(* object by id, in which every item of that id has the status.  An object *)
(* leads to a node if the search for the items can only go there first.    *)
FilingsOf(node) ==
  IF node.kind = "list"
  THEN {Filing(ItemOf(n), "") : n \in Range(node.elems)}
  ELSE {FilingAt(node, k) : k \in DOMAIN node.fields}

HasTask(node, id, status) ==
  /\ node # Nil
  /\ \/ /\ node.kind = "list" /\ Len(node.elems) \in Nat
        /\ DOMAIN node.elems = 1 .. Len(node.elems)
     \/ /\ node.kind = "object" /\ IsFiniteSet(DOMAIN node.fields)
        /\ LooksLikeKeyed(node)
  /\ \E f \in FilingsOf(node) : id \in f.under
  /\ \A f \in FilingsOf(node) : id \in f.under => f.item.status = status

LeadsTo(node, inner) ==
  /\ node.kind = "object" /\ ~HasItems(node)
  /\ \/ \E i \in DOMAIN Wrappers :
          /\ \A j \in 1 .. i : j = i <=> Wrappers[j] \in DOMAIN node.fields
          /\ inner = node.fields[Wrappers[i]]
     \/ /\ inner \in Parts(node)
        /\ \A n \in Parts(node) \ {inner} : n.kind = "text"

(* Layers of such nodes, each around those before it.                      *)
Layered(layers, id, status) ==
  \A i \in DOMAIN layers : \A node \in layers[i] :
    LET within == UNION {layers[j] : j \in 1 .. i - 1} IN
    /\ node # Nil
    /\ \/ /\ HasItems(node)
          /\ \/ HasTask(ItemsAt(node), id, status)
             \/ ItemsAt(node) \in within /\ ~LooksLikeKeyed(ItemsAt(node))
       \/ \E inner \in within : LeadsTo(node, inner)

(* There are no more of them than the searches go deep.                    *)
HaveTheTask(layers, id, status) ==
  /\ \E n \in 0 .. 8 : n <= MaxNesting /\ DOMAIN layers = 1 .. n
  /\ Layered(layers, id, status)
=============================================================================
