--------------------------- MODULE MCPublishSystem ---------------------------
(* A small instance of PublishSystem for TLC: one cycle of a hybrid and    *)
(* one of an auto channel, in either order, a card and a reel.             *)
EXTENDS PublishSystem

CONSTANTS w1, w2

Two == {w1, w2}
TwoPubs      == {1, 2}
AllInstagram == [p \in TwoPubs |-> "instagram"]
CardAndReel  == [p \in TwoPubs |-> IF p = 1 THEN "feed_image" ELSE "reels"]
HybridAndAuto == [w \in Two |-> [platform |-> "instagram",
                                 mode |-> IF w = w1 THEN "hybrid" ELSE "auto"]]
Full == {{"ok", "title", "body", "url", "note"}}
=============================================================================
