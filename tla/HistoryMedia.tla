---------------------------- MODULE HistoryMedia ----------------------------
(***************************************************************************)
(* The images and videos of a task: which ones query_result takes from a   *)
(* history item, how it merges them into those it has stored, and under    *)
(* which file names it downloads them.                                     *)
(*                                                                         *)
(* Of a URL the model keeps the traits that the code searches its text     *)
(* for, and of a stored entry the URL that is downloaded and the image_url *)
(* or video_url that is shown.                                             *)
(***************************************************************************)
EXTENDS Integers, Sequences, FiniteSets, Functions

CONSTANTS
  Urls, NoUrl,  \* URLs, and an entry without a usable one
  TraitsOf,     \* URL -> what its text and the entry's fields contain
  PathExt,      \* URL -> the extension of its path, or "none"
  MimeExt       \* URL -> that of its mime_type parameter, or "none"

ImageTraits == {"aigc_resize_0", "resize_0", "png_text", "jpeg_text",
                "preview", "thumbnail", "huge", "large", "sized", "png_format"}
VideoTraits == {"vod_host", "picture_host", "mime_mp4", "mp4_format",
                "picture_format", "mp4_path"}

ASSUME UrlsAssumption == NoUrl \notin Urls
ASSUME TraitsAssumption ==
  TraitsOf \in [Urls -> SUBSET (ImageTraits \cup VideoTraits)]
ASSUME ExtAssumption ==
  /\ DOMAIN PathExt = Urls
  /\ DOMAIN MimeExt = Urls

Lists == {"images", "videos"}

(* historyImageCandidateScore: of a resize marker, and of a size, only the *)
(* largest counts.                                                         *)
ImageScore(url) ==
  LET t == TraitsOf[url]
      If(trait, weight) == IF trait \in t THEN weight ELSE 0
      resized == IF "aigc_resize_0" \in t THEN 1200 ELSE If("resize_0", 800)
      size == IF "huge" \in t THEN 300
              ELSE IF "large" \in t THEN 180 ELSE If("sized", 40)
  IN  resized + size + If("png_text", 200) + If("jpeg_text", 80)
        + If("preview", -1200) + If("thumbnail", -400) + If("png_format", 100)

(* historyVideoCandidateScore, without the bit rate of the URL's query.    *)
VideoScore(url) ==
  LET t == TraitsOf[url]
      If(trait, weight) == IF trait \in t THEN weight ELSE 0
  IN  If("vod_host", 500) + If("picture_host", -500) + If("mime_mp4", 100)
        + If("mp4_format", 200) + If("picture_format", -200) + If("mp4_path", 100)

(* The add of mediaItemsFromHistory and its likes: usable URLs, each once. *)
UsableOnce(list) ==
  LET out[i \in 0 .. Len(list)] ==
        IF i = 0 THEN <<>>
        ELSE IF list[i] = NoUrl \/ list[i] \in Range(out[i - 1]) THEN out[i - 1]
        ELSE Append(out[i - 1], list[i])
  IN  out[Len(list)]

(* An item's six places for media.                                         *)
Places == {"image_origins", "item_origins", "videos",
           "item_images", "image_node", "images"}

VideoCandidates(item) ==
  UsableOnce(item.image_origins) \o UsableOnce(item.item_origins)
    \o UsableOnce(item.videos)

ImageCandidates(item) ==
  UsableOnce(item.item_images) \o UsableOnce(item.image_node)
    \o UsableOnce(item.images)

(* preferredVideoItemsFromHistory: the first of the best.                  *)
PreferredVideos(item) ==
  LET c == VideoCandidates(item)
      best == {i \in DOMAIN c : \A j \in DOMAIN c : VideoScore(c[j]) <= VideoScore(c[i])}
  IN  IF c = <<>> THEN <<>>
      ELSE << c[CHOOSE i \in best : \A j \in best : i <= j] >>

(* preferredImageItemsFromHistory: best first, equals in their order.      *)
PreferredImages(item) ==
  LET c == ImageCandidates(item)
      Before(i) == {j \in DOMAIN c :
                      \/ ImageScore(c[j]) > ImageScore(c[i])
                      \/ ImageScore(c[j]) = ImageScore(c[i]) /\ j < i}
  IN  [n \in DOMAIN c |-> c[CHOOSE i \in DOMAIN c : Cardinality(Before(i)) = n - 1]]

-----------------------------------------------------------------------------
(* A stored entry.                                                         *)
Entry(url) == [url |-> url, view |-> url]
Entries(urls) == [i \in DOMAIN urls |-> Entry(urls[i])]
NoMedia == [images |-> <<>>, videos |-> <<>>]

(* The same when the shown URL counts as one of the fields to be kept.     *)
Overlay_KeepsView(base, recovered) == [base EXCEPT !.url = recovered.url]

(* overlayRecoveredMediaItem: the URLs are those of the latest answer.     *)
Overlay(base, recovered) == recovered

(* mergeRecoveredMediaItems: the stored list, once there is one, keeps its *)
(* length.                                                                 *)
MergeList(stored, recovered) ==
  IF stored = <<>> THEN recovered
  ELSE [i \in DOMAIN stored |->
          IF i \in DOMAIN recovered THEN Overlay(stored[i], recovered[i])
          ELSE stored[i]]

(* mergeRecoveredHistoryMedia and sanitizeRecoveredMedia.                  *)
Usables(list) ==
  LET kept[i \in 0 .. Len(list)] ==
        IF i = 0 THEN <<>>
        ELSE IF list[i].url = NoUrl THEN kept[i - 1]
        ELSE Append(kept[i - 1], list[i])
  IN  kept[Len(list)]

MergeMedia(stored, item) ==
  LET videos == Entries(PreferredVideos(item))
      images == Entries(PreferredImages(item))
  IN  IF videos # <<>>
        THEN [images |-> <<>>, videos |-> Usables(MergeList(stored.videos, videos))]
      ELSE IF images # <<>>
        THEN [stored EXCEPT !.images = Usables(MergeList(stored.images, images))]
      ELSE [images |-> Usables(stored.images), videos |-> Usables(stored.videos)]

HasMedia(media) == media.images # <<>> \/ media.videos # <<>>

-----------------------------------------------------------------------------
(* inferMediaExtension: the path's, else the mime_type's, else "bin".      *)
InferredExt(url) ==
  IF PathExt[url] # "none" THEN PathExt[url]
  ELSE IF MimeExt[url] # "none" THEN MimeExt[url] ELSE "bin"

KnownExts(kind) ==
  IF kind = "images" THEN {"png", "jpg", "jpeg", "webp", "gif", "bmp"}
  ELSE {"mp4", "mov", "webm", "mkv", "avi", "m4v"}

Extension(kind, url) ==
  IF InferredExt(url) \in KnownExts(kind) THEN InferredExt(url)
  ELSE IF kind = "images" THEN "png" ELSE "mp4"

Name_Unnumbered(kind, i, url) == <<kind, 1, Extension(kind, url)>>

(* buildDownloadedMediaFilename, for one task and one directory.           *)
Name(kind, i, url) == <<kind, i, Extension(kind, url)>>
=============================================================================
