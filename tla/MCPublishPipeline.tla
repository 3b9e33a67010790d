------------------------- MODULE MCPublishPipeline -------------------------
(* Small instances of PublishPipeline for TLC.                             *)
EXTENDS PublishPipeline

CONSTANTS w1, w2

(* Two Instagram publications, one card and one reel.                      *)
TwoPubs      == {1, 2}
AllInstagram == [p \in TwoPubs |-> "instagram"]
CardAndReel  == [p \in TwoPubs |-> IF p = 1 THEN "feed_image" ELSE "reels"]

(* A single reel.                                                          *)
OnePub     == {1}
OneReel    == [p \in OnePub |-> "reels"]
OneIG      == [p \in OnePub |-> "instagram"]

(* On YouTube, a card the adapter refuses before a short.                  *)
AllYouTube   == [p \in TwoPubs |-> "youtube"]
CardAndShort == [p \in TwoPubs |-> IF p = 1 THEN "feed_image" ELSE "shorts"]

One == {w1}
Two == {w1, w2}

IGHybrid1 == [w \in One |-> [platform |-> "instagram", mode |-> "hybrid"]]
IGAuto1   == [w \in One |-> [platform |-> "instagram", mode |-> "auto"]]
OneEach   == [w \in Two |-> [platform |-> IF w = w1 THEN "instagram" ELSE "youtube",
                             mode |-> "auto"]]
YTHybrid1 == [w \in One |-> [platform |-> "youtube", mode |-> "hybrid"]]
=============================================================================
