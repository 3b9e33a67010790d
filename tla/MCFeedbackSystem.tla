-------------------------- MODULE MCFeedbackSystem --------------------------
(* A small instance of FeedbackSystem for TLC: an auto channel lands and   *)
(* posts up to two cards of one topic while a metrics process polls.       *)
EXTENDS FeedbackSystem

CONSTANTS cli, metrics

TwoPubs      == {1, 2}
AllInstagram == [p \in TwoPubs |-> "instagram"]
Cards        == [p \in TwoPubs |-> "feed_image"]
AutoChannel  == [w \in {cli} |-> [platform |-> "instagram", mode |-> "auto"]]
PollsIt      == [m \in {metrics} |-> "instagram"]
OneArm       == [p \in TwoPubs |-> "topic"]
Full         == {{"ok", "title", "body", "url"}}
=============================================================================
