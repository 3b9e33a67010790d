--------------------------- MODULE MCLearningLoop ---------------------------
(* A small instance of LearningLoop for TLC: two processes, one post.      *)
EXTENDS LearningLoop

CONSTANTS w1, w2

OnePub      == {1}
Both        == {"instagram", "youtube"}
OnInstagram == [p \in OnePub |-> "instagram"]

Two      == {w1, w2}
TwoServe == [w \in Two |-> "instagram"]

OneArm   == {"arm"}
SameArm  == [p \in OnePub |-> "arm"]
OneRatio == {1}
=============================================================================
