----------------------------- MODULE MC_Command -----------------------------
(* A process that runs generator commands with flags that are repeated,    *)
(* split, blank or missing, beside one that only prints its version, and   *)
(* replies that wrap two tasks' items in every way up to a depth of three. *)
EXTENDS Command, HistoryReply

L(n, a) == [name |-> n, args |-> a]
F(f, v) == Assigned(f, <<v>>)
McFiles == {<<"a">>, <<"b">>, <<"c">>}
McRemovable == {<<"b">>}

(* Two times --images: the first is split at its commas, the second is not,*)
(* so that of the second ones "b,a" is no file.                            *)
Images == {L("image2image", <<Assigned("images", vw[1]), F("prompt", "x"),
                              Bare("image"), Word(vw[2])>>) :
             vw \in {<<<<"b", "a">>, <<"c">>>>, <<<<"c", "", "a">>, <<"">>>>,
                     <<<<"", "">>, <<"c">>>>, <<<<"c">>, <<"b", "a">>>>}}

Transitions(flags) ==
  L("multiframe2video", <<Assigned("images", <<"a", "b", "c">>)>> \o flags)

Others == {
  L("text2image", <<F("prompt", "x"), F("poll", "2")>>),
  L("text2image", <<Bare("prompt"), Word(<<"x", "y">>), F("ratio", "1:1")>>),
  L("text2video", <<F("ratio", "1:1")>>),
  L("text2image", <<F("prompt", "x"), F("duration", "5")>>),
  L("text2image", <<Bare("prompt"), Bare("poll")>>),
  L("image2video", <<F("image", "a"), F("prompt", "x"), F("duration", "2")>>),
  L("image2video", <<F("image", "a"), F("image", "b"), F("prompt", "x")>>),
  L("image2video", <<F("image", ""), F("prompt", "x")>>),
  L("frames2video", <<F("last", "b"), F("first", "a")>>),
  L("frames2video", <<F("first", "a"), Assigned("last", <<"b", "c">>)>>),
  L("ref2video", <<Assigned("images", <<"a", "b">>), F("prompt", "x")>>),
  Transitions(<<F("transition-prompt", "x"), F("transition-prompt", "y")>>),
  Transitions(<<Assigned("transition-prompt", <<"x", "y">>)>>),
  Transitions(<<F("transition-prompt", "x")>>),
  Transitions(<<F("prompt", "x"), F("transition-prompt", "y")>>),
  L("multimodal2video", <<F("image", "c"), F("video", "a"),
                          Assigned("audio", <<"b", "a">>)>>),
  L("multimodal2video", <<F("audio", "b")>>),
  L("image_upscale", <<F("image", "a"), F("resolution_type", "4k"),
                       F("poll", "2")>>),
  L("text2image", <<Bare("help")>>)}

McLinesOf == [p1 |-> Images \cup Others, p2 |-> {L("version", <<>>)}]

-----------------------------------------------------------------------------
McLocalId == "local"
McKeyOrder == <<"body", "code", "data", "error", "extra", "history_id",
                "history_record_id", "id1", "id2", "item_list", "items",
                "list", "payload", "queue_info", "queue_status", "response",
                "result", "ret", "status", "submit_id", "task", "task_id">>

With(k, v) == Object(k :> v)
Fields(id, key, status) == (key :> Str(id)) @@ ("status" :> Str(status))

(* An item with its fields on top, in a nested task, or only a status.     *)
ItemsOf(id, status) ==
  {Object(Fields(id, "submit_id", status)),
   Object(Fields(id, "history_record_id", status)),
   Object([task |-> Object(Fields(id, "history_id", status)),
           item_list |-> List(<<With("extra", Str("png"))>>)])}
Anonymous(status) ==
  Object([queue_info |-> With("queue_status", Str(status))])

Containers ==
  LET Own == ItemsOf("id1", "done")
      Other == ItemsOf("id2", "failed") IN
  {With("items", List(<<o, i>>)) : o \in Other, i \in Own}
    \cup {With("list", List(<<i>>)) : i \in Own}
    \cup {Object([id1 |-> i, id2 |-> o]) : o \in Other, i \in Own}
    \cup {Object([id1 |-> Anonymous("done"), id2 |-> Anonymous("failed"),
                  ret |-> Str("0")])}
    \cup {With("items", With("id1", i)) : i \in Own}

Keyed == {With("id1", i) : i \in ItemsOf("id1", "done")}
Nested == {With("items", With("data", n)) : n \in Keyed}

Wrapped(nodes) ==
  nodes \cup {With(k, n) : k \in {"data", "payload", "body"}, n \in nodes}
        \cup {Object([error |-> With("code", Str("0")), extra |-> Str("x"),
                      data |-> n]) : n \in nodes}

McLayers == <<Keyed, {With("data", n) : n \in Keyed}, Containers \cup Nested,
              Wrapped(Containers \cup Nested),
              Wrapped(Wrapped(Containers \cup Nested))>>
McHistoryReplies == McLayers[5]

(* These replies are what the proofs about lookups take a reply to be.     *)
ASSUME RepliesHaveTheTask == HaveTheTask(McLayers, "id1", "done")

(* The id stands in the body or further in, or nowhere; the body within    *)
(* wrappers, within metadata, or around both.                              *)
Bodies == {
  With("submit_id", Str("id1")),
  With("task", With("task_id", Str("id1"))),
  Object([history_id |-> Str("id1"), submit_id |-> Str("id3")]),
  Object([extra |-> Str("x"), list |-> List(<<With("submit_id", Str("id1"))>>)])}

McSubmitReplies ==
  LET Coded(k, b) == Object((k :> b) @@ ("ret" :> Str("0"))) IN
  UNION {{b, With("data", b), Coded("payload", b),
          With("response", Coded("data", b)),
          Coded("data", Coded("result", b)),
          Object([extra |-> Str("x"), error |-> Coded("data", b)])} :
           b \in Bodies}
  \cup {With("data", With("extra", Str("x"))),
        With("payload", With("error", With("code", Str("1000"))))}

(* What the backend's replies come to.  (A definition without parameters   *)
(* is evaluated once, a constant's value wherever it is used.)             *)
Given == AcceptancesIn(McSubmitReplies, McLocalId)
Rejected == \E reply \in McSubmitReplies : ~Accepted(reply)
OfTheTask == FoundFor(McHistoryReplies, "id1")
OfNoTask == FoundFor(McHistoryReplies, McLocalId)

McAcceptances == Given
McMayReject == Rejected
McFound == [id \in {"id1", McLocalId} |-> IF id = "id1" THEN OfTheTask ELSE OfNoTask]
=============================================================================
