---------------------------- MODULE MC_Download ----------------------------
(* Two images, of which one is an original and one a preview, and a video, *)
(* in answers that name them in several places and several orders.         *)
EXTENDS Download

McUrls == {"original", "preview", "clip"}
McTraitsOf == [u \in McUrls |->
  CASE u = "original" -> {"aigc_resize_0", "png_text", "huge"}
    [] u = "preview"  -> {"preview", "sized"}
    [] u = "clip"     -> {"vod_host", "mp4_path"}]
McPathExt == [u \in McUrls |-> IF u = "original" THEN "png" ELSE "none"]
McMimeExt == [u \in McUrls |-> IF u = "clip" THEN "mp4" ELSE "none"]
McSizeOf == [u \in McUrls |-> IF u = "preview" THEN 1 ELSE 2]

Bare == [pl \in Places |-> <<>>]
McAnswers == {
  [Bare EXCEPT !.images = <<"preview", NoUrl, "preview">>],
  [Bare EXCEPT !.images = <<"preview">>, !.item_images = <<"original">>],
  [Bare EXCEPT !.images = <<"preview">>, !.image_origins = <<"clip">>]}
=============================================================================
