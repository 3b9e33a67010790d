------------------------------ MODULE MCServices ------------------------------
(***************************************************************************)
(* A small instance of Services for TLC.                                   *)
(***************************************************************************)
EXTENDS Services

CONSTANTS oldRunner, newRunner, oldKey, newKey, reel, youtubeChannel

(* Two releases meet: the newer one has a file more.                       *)
Releases == [r \in {oldRunner, newRunner} |-> IF r = oldRunner THEN 2 ELSE 3]

(* An empty line, a short word, and one to three of its words.             *)
CardWords == {<<1>>, <<1, 2>>, <<2, 2, 2, 1>>}
CardParagraphs == {<<>>, <<<<2>>>>} \cup UNION {[1..n -> CardWords] : n \in 1..3}
CardLineHeights == <<3, 2, 2, 1>>
CardHeights == {-1, 13, 20}
(* A width from 1 to 4 is too narrow for one font after the other.         *)
CardFontDivs == <<2, 3, 4, 5>>
(* A short colour, and all of six characters of five kinds.                *)
CardColors == [1..6 -> {"0", "x", "_", "+", " "}] \cup {<<"0">>}

(* Two upright ones, one beyond the limit, one that lies, one of nothing.   *)
SmallestVideo == <<18, 32>>
VideoShapes == {<<9, 16>>, <<18, 32>>, <<27, 48>>, <<16, 9>>, <<0, 0>>}

(* The operator gives a new key a new version.                             *)
KeyVersions == [k \in {oldKey, newKey} |-> IF k = oldKey THEN 1 ELSE 2]

(* One result of rendering, as the stores keep each on its own.            *)
OneReel == [c \in {reel} |-> "video"]

(* Two Instagram channels and one of YouTube.                              *)
ChannelPlatform == [a \in Accounts |->
                      IF a = youtubeChannel THEN "youtube" ELSE "instagram"]

CommandsAlike == Permutations(Commands) \cup Permutations(Grants)

(* What an idle service might begin with makes no difference to another.   *)
SmallInit ==
  /\ ServicesInit
  /\ part # "credentials" => channel = "youtube" /\ envKey = oldKey
  /\ part # "media" => store = "memory" /\ tts

SmallSpec == SmallInit /\ [][ServicesNext]_servicesVars
=============================================================================
