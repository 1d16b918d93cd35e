--------------------------- MODULE GeneratorArgs ---------------------------
(***************************************************************************)
(* From the arguments of a generator command to what it submits:           *)
(* cmd/generators.go parses and validates them, components/gen/dreamina.go *)
(* uploads the files and builds the request from what that left.           *)
(*                                                                         *)
(* An argument is --flag, --flag=value or a word; a value is the sequence  *)
(* of its comma-separated pieces, trimmed.  An input maps a key to a text  *)
(* (one item) or to a list of texts.                                       *)
(***************************************************************************)
EXTENDS Naturals, SequencesExt, Functions

CONSTANTS
  NoFlag,   \* the flag of a word
  NoValue,  \* the value of a bare --flag
  Numbers   \* the pieces that read as a number

Blank == <<"">>
True == <<"true">>
Seconds(value) == Len(value) = 1 /\ value[1] \in Numbers

Bare(f) == [flag |-> f, value |-> NoValue]
Assigned(f, v) == [flag |-> f, value |-> v]
Word(v) == [flag |-> NoFlag, value |-> v]

Tasks == {"text2image", "image2image", "image_upscale", "text2video",
          "image2video", "frames2video", "multiframe2video",
          "multimodal2video"}

(* normalizeGeneratorKeyForTask *)
OneImage == {"image_upscale", "image2video"}
ManyImages == {"image2image", "multiframe2video"}
KeyOf(task, flag) ==
  CASE flag = "first" -> "first_path"
    [] flag = "last"  -> "last_path"
    [] flag = "video" -> "video_paths"
    [] flag = "audio" -> "audio_paths"
    [] flag = "transition-prompt"   -> "transition_prompts"
    [] flag = "transition-duration" -> "transition_durations"
    [] flag \in {"image", "images"} /\ task \in OneImage -> "image_path"
    [] flag \in {"image", "images"} /\ task \in ManyImages -> "image_paths"
    [] flag = "image" /\ task \notin OneImage \cup ManyImages -> "image_paths"
    [] OTHER -> flag

(* allowedGeneratorFlags *)
VideoFlags == {"duration", "video_resolution"}
AllowedFlags ==
  [text2image       |-> {"ratio", "resolution_type"},
   image2image      |-> {"image_paths", "ratio", "resolution_type"},
   image_upscale    |-> {"image_path", "resolution_type"},
   text2video       |-> {"ratio"} \cup VideoFlags,
   image2video      |-> {"image_path"} \cup VideoFlags,
   frames2video     |-> {"first_path", "last_path"} \cup VideoFlags,
   multiframe2video |-> {"image_paths", "duration", "transition_prompts",
                         "transition_durations"},
   multimodal2video |-> {"image_paths", "video_paths", "audio_paths", "ratio"}
                          \cup VideoFlags]
Allowed(task) == AllowedFlags[task] \cup {"poll", "prompt", "model_version"}

(* missingRequiredGeneratorFlags: keys that must be given, and lists that  *)
(* must not be empty.                                                      *)
RequiredKeys ==
  [text2image       |-> {"prompt"},
   image2image      |-> {"prompt"},
   image_upscale    |-> {"image_path", "resolution_type"},
   text2video       |-> {"prompt"},
   image2video      |-> {"image_path", "prompt"},
   frames2video     |-> {"first_path", "last_path"},
   multiframe2video |-> {},
   multimodal2video |-> {}]
RequiredLists(task) == IF task \in ManyImages THEN {"image_paths"} ELSE {}

(* assignGeneratorInput: the first value of a key is split at its commas,  *)
(* a later one is appended as it is.                                       *)
Text(v) == [many |-> FALSE, items |-> <<v>>]
Texts(s) == [many |-> TRUE, items |-> s]

Without(s, x) ==
  FlattenSeq([i \in DOMAIN s |-> IF s[i] = x THEN <<>> ELSE <<s[i]>>])

Pieces(value) ==
  LET kept == Without(value, "") IN [i \in DOMAIN kept |-> <<kept[i]>>]

Set(input, key, new) ==
  [k \in DOMAIN input \cup {key} |-> IF k = key THEN new ELSE input[k]]

Assign_LastWins(input, key, value) == Set(input, key, Text(value))

Assign(input, key, value) ==
  Set(input, key,
      IF key \in DOMAIN input THEN Texts(Append(input[key].items, value))
      ELSE IF Len(value) > 1 /\ Pieces(value) # <<>>
           THEN Texts(Pieces(value))
           ELSE Text(value))

(* stringInput, and anyString, which prints a list in brackets.            *)
StringInput(input, key) ==
  IF key \in DOMAIN input /\ input[key].items # <<>>
  THEN input[key].items[1] ELSE Blank

AnyString(input, key) ==
  IF key \notin DOMAIN input THEN Blank
  ELSE IF input[key].many
       THEN <<"[">> \o FlattenSeq(input[key].items) \o <<"]">>
       ELSE input[key].items[1]

(* stringSliceInput and anyStringSlice *)
Slice(input, key) ==
  IF key \notin DOMAIN input THEN <<>>
  ELSE Without(input[key].items, Blank)

-----------------------------------------------------------------------------
(* parseGeneratorArgs.  The flag that waits for its value is pending.      *)
Begun == [input |-> <<>>, poll |-> FALSE, pending |-> NoFlag, ok |-> TRUE]
Refused == [input |-> <<>>, poll |-> FALSE, pending |-> NoFlag, ok |-> FALSE]

Take(task, s, flag, value, assigned) ==
  LET key == KeyOf(task, flag) IN
  IF flag = "poll"
  THEN IF Seconds(value)
       THEN [s EXCEPT !.poll = value[1] # "0", !.pending = NoFlag]
       ELSE Refused
  ELSE IF key \in Allowed(task) /\ (assigned \/ value # True)
       THEN [s EXCEPT !.input = Assign(s.input, key, value),
                      !.pending = NoFlag]
       ELSE Refused

ParseArg(task, s, arg) ==
  CASE ~s.ok -> s
    [] s.ok /\ arg.flag = NoFlag /\ s.pending # NoFlag ->
         Take(task, s, s.pending, arg.value, FALSE)
    [] s.ok /\ arg.flag # NoFlag /\ s.pending = NoFlag ->
         IF arg.value = NoValue THEN [s EXCEPT !.pending = arg.flag]
         ELSE Take(task, s, arg.flag, arg.value, TRUE)
    [] OTHER -> Refused

Parse(task, args) ==
  LET after[i \in 0 .. Len(args)] ==
        IF i = 0 THEN Begun
        ELSE ParseArg(task, after[i - 1], args[i])
      s == after[Len(args)] IN
  IF /\ s.pending = NoFlag
     /\ RequiredKeys[task] \subseteq DOMAIN s.input
     /\ \A k \in RequiredLists(task) : Slice(s.input, k) # <<>>
  THEN s ELSE Refused

-----------------------------------------------------------------------------
(* validateGeneratorInput against the files that exist.  requireExisting-  *)
(* Files lets a blank single path pass.                                    *)
OneExists(input, key, files) ==
  StringInput(input, key) \in files \cup {Blank}
AllExist(input, key, files) == Range(Slice(input, key)) \subseteq files

(* validateRef2VideoCLIFlags *)
TransitionsFit(input) ==
  LET images == Len(Slice(input, "image_paths"))
      prompts == Len(Slice(input, "transition_prompts"))
      durations == Len(Slice(input, "transition_durations"))
      prompt == StringInput(input, "prompt") # Blank
      duration == StringInput(input, "duration") # Blank IN
  /\ images \in 2..20
  /\ (prompt \/ duration) => prompts = 0 /\ durations = 0
  /\ prompt => images = 2
  /\ prompt \/ prompts > 0
  /\ prompts \in {0, images - 1}
  /\ durations \in {0, images - 1}

(* validateMultiModal2VideoCLIFlags *)
HasPicture(input) ==
  Slice(input, "image_paths") \o Slice(input, "video_paths") # <<>>

Valid(task, input, files) ==
  CASE task \in OneImage -> OneExists(input, "image_path", files)
    [] task = "image2image" -> AllExist(input, "image_paths", files)
    [] task = "frames2video" -> \A k \in {"first_path", "last_path"} :
                                  OneExists(input, k, files)
    [] task = "multiframe2video" -> /\ TransitionsFit(input)
                                    /\ AllExist(input, "image_paths", files)
    [] task = "multimodal2video" ->
         /\ HasPicture(input)
         /\ \A k \in {"image_paths", "video_paths", "audio_paths"} :
              AllExist(input, k, files)
    [] OTHER -> TRUE

(* use_by_config: image2video takes the request with a configuration.      *)
UseByConfig(input) ==
  \E k \in {"duration", "video_resolution", "model_version"} :
    StringInput(input, k) # Blank

-----------------------------------------------------------------------------
(* What the task's handler makes of the input: the request's prompts, and  *)
(* the paths it hands to each call of UploadResource, by their input key;  *)
(* the two frames of frames2video go in one call.  The resources that the  *)
(* calls return, and their order, are ResourceUpload's matter.             *)
(* resolveRef2VideoTransitions may refuse the input.                       *)
FileKeys == {"image_path", "image_paths", "first_path", "last_path",
             "video_paths", "audio_paths"}
SingleKeys == {"image_path", "first_path", "last_path"}

PathsFor(input, k) ==
  IF k \in SingleKeys THEN <<AnyString(input, k)>> ELSE Slice(input, k)

Uploads(task, input) ==
  IF task = "frames2video"
  THEN [frames |-> PathsFor(input, "first_path") \o PathsFor(input, "last_path")]
  ELSE [k \in FileKeys \cap Allowed(task) |-> PathsFor(input, k)]

OrPrompt(input, list, one) ==
  IF Slice(input, list) # <<>> \/ AnyString(input, one) = Blank
  THEN Slice(input, list) ELSE <<AnyString(input, one)>>

Prompts(task, input) ==
  IF task = "multiframe2video"
  THEN OrPrompt(input, "transition_prompts", "prompt")
  ELSE <<AnyString(input, "prompt")>>

Buildable(task, input) ==
  task = "multiframe2video" =>
    LET durations == OrPrompt(input, "transition_durations", "duration")
        segments == Len(Slice(input, "image_paths")) - 1 IN
    /\ segments >= 1
    /\ Len(Prompts(task, input)) \in {0, segments}
    /\ Len(durations) \in {0, segments}
    /\ \A i \in DOMAIN durations : Seconds(durations[i])

Request(task, input) ==
  [task |-> task, prompts |-> Prompts(task, input),
   uploads |-> Uploads(task, input),
   byConfig |-> task = "image2video" /\ UseByConfig(input)]
=============================================================================
