----------------------------- MODULE CardQuality -----------------------------
(***************************************************************************)
(* A card from its spec to the verdict on it: parse_card_spec              *)
(* (render/card/spec.py) takes what an agent wrote, render_card lays it    *)
(* out (TextLayout), check_card (quality/gate.py) judges what came out.    *)
(* A colour is the six characters after its "#"; "0" stands for any hex    *)
(* digit, "+" for a sign.  Width and height are small numbers of their     *)
(* own, apart from the height TextLayout has; what they decide is which    *)
(* fonts can be loaded, and the verdict on the resolution.                 *)
(***************************************************************************)
EXTENDS TextLayout

CONSTANTS
  Colors,    \* the colours a palette may name
  Sides,     \* the lengths a side may have
  MaxSide,   \* MAX_CARD_SIDE
  MinSide,   \* MIN_CARD_SIDE
  FontDivs   \* _HOOK_DIV, _TITLE_DIV, _BODY_DIV and _FOOTER_DIV

(* What is tried with every colour and size is a card of one-word texts.   *)
ASSUME WordAssumption == \E q \in Paragraphs : Len(q) = 1
(* 14, 18, 24 and 30, which are less than 1080.                            *)
ASSUME SizeAssumption ==
  /\ MinSide \in Nat /\ MaxSide \in Nat
  /\ FontDivs \in [1..4 -> 1..MinSide]

VARIABLES
  phase,   \* where the card is
  color,   \* the colour that was given
  sides,   \* its width and height
  report   \* check_card's checks, by name

cardVars == <<phase, color, sides, report>>

Phases   == {"spec", "refused", "raised", "render", "judged"}
Checks   == {"required_fields", "text_overflow", "min_contrast",
             "min_resolution", "content_similarity"}
NoReport == [c \in {} |-> TRUE]
Plain    == <<"0", "0", "0", "0", "0", "0">>

CardInit ==
  /\ LayoutInit
  /\ phase = "spec" /\ color = Plain /\ sides = <<0, 0>> /\ report = NoReport

-----------------------------------------------------------------------------
(* int(s, 16): blanks around it, a sign, a prefix 0x with an underscore    *)
(* after it and single underscores between the digits are read.            *)

Trimmed(s) ==
  LET inked == {i \in DOMAIN s : s[i] # " "} IN
  IF inked = {} THEN <<>> ELSE SubSeq(s, Min(inked), Max(inked))
Unsigned(s) == IF IsPrefix(<<"+">>, s) THEN Tail(s) ELSE s
Unprefixed(s) ==
  IF IsPrefix(<<"0", "x", "_">>, s) THEN SubSeq(s, 4, Len(s))
  ELSE IF IsPrefix(<<"0", "x">>, s) THEN SubSeq(s, 3, Len(s)) ELSE s
IsHex(s) ==
  LET digits == Unprefixed(Unsigned(Trimmed(s))) IN
  /\ digits # <<>>
  /\ \A i \in DOMAIN digits : digits[i] \in {"0", "_"}
  /\ \A i \in DOMAIN digits :
       digits[i] = "_" => i \notin {1, Len(digits)} /\ digits[i + 1] # "_"

(* _valid_hex reads all of it at once, _hex_to_rgb a pair at a time.       *)
ValidHex(c) == Len(c) = 6 /\ IsHex(c)
HexToRgb(c) == \A i \in {1, 3, 5} : IsHex(SubSeq(c, i, i + 1))

-----------------------------------------------------------------------------
Empty(text) == \A i \in DOMAIN text : text[i] = <<>>

(* Body paragraphs may be blank, but there must be one.                    *)
Admitted(content, c, size) ==
  /\ \A side \in ToSet(size) : side \in 1..MaxSide
  /\ ~Empty(content[1]) /\ ~Empty(content[2]) /\ ~Empty(content[4])
  /\ content[3] # <<>>
  /\ ValidHex(c)

(* parse_card_spec, and the start of render_card, which reads the colours  *)
(* before it draws.                                                        *)
ParseCard(content, height, c, size) ==
  /\ phase = "spec"
  /\ color' = c /\ sides' = size
  /\ phase' = IF ~Admitted(content, c, size) THEN "refused"
              ELSE IF ~HexToRgb(c) THEN "raised" ELSE "render"
  /\ IF phase' = "render" THEN Begin(content, height) ELSE UNCHANGED layoutVars
  /\ UNCHANGED report

(* The fonts are as large as the width divided says, rounded down.  For a  *)
(* block whose font has no size there is nothing to load: Pillow raises,   *)
(* whatever was drawn so far is lost.                                      *)
FontSize(b) == sides[1] \div FontDivs[b]
DrawBlock ==
  /\ phase = "render" /\ block \in 1..4 /\ FontSize(block) > 0
  /\ SetBlock \/ SetFooter
  /\ UNCHANGED cardVars
FontRaises ==
  /\ phase = "render" /\ block \in 1..4 /\ FontSize(block) = 0
  /\ phase' = "raised"
  /\ UNCHANGED <<color, sides, report, layoutVars>>

(* content_signature, and a Jaccard similarity above the limit of 4/5.     *)
Signature == UNION {UNION {ToSet(texts[b][i]) : i \in DOMAIN texts[b]} : b \in 1..4}
Similar(a, b) ==
  \/ a = {} /\ b = {}
  \/ 5 * Cardinality(a \cap b) > 4 * Cardinality(a \cup b)

(* check_card: a report with every check, whatever failed.                 *)
CheckCard(recent, legible) ==
  /\ phase = "render" /\ block = 5
  /\ phase' = "judged"
  /\ report' = [c \in Checks |->
       CASE c = "required_fields"    -> \A b \in 1..4 : ~Empty(texts[b])
         [] c = "text_overflow"      -> ~overflow
         [] c = "min_contrast"       -> legible
         [] c = "min_resolution"     -> Min(ToSet(sides)) >= MinSide
         [] c = "content_similarity" -> \A r \in recent : ~Similar(Signature, r)]
  /\ UNCHANGED <<color, sides, layoutVars>>

-----------------------------------------------------------------------------
(* The specs: one text may be long and the colour and the size are what    *)
(* they should be, or the texts are a word each and they are not.          *)
Word      == <<CHOOSE q \in Paragraphs : Len(q) = 1>>
Contents  ==
  {[b \in 1..4 |-> IF b # long THEN <<q>> ELSE IF b = 3 THEN <<p, q>> ELSE <<p>>] :
     long \in 1..4, p \in Paragraphs, q \in {r \in Paragraphs : Len(r) = 1}}
  \cup {[b \in 1..4 |-> IF b = 3 THEN body ELSE Word] : body \in {<<>>, <<<<>>>>}}
Words     == UNION {ToSet(p) : p \in Paragraphs} \cup {<<0>>}
Recents   == {{}} \cup {{r} : r \in SUBSET Words}
Expected  == <<MinSide, MinSide>>

CardNext ==
  \/ /\ phase = "spec"
     /\ \/ \E content \in Contents, height \in Heights :
             ParseCard(content, height, Plain, Expected)
        \/ \E c \in Colors :
             ParseCard([b \in 1..4 |-> Word], Max(Heights), c, Expected)
        \/ \E size \in Sides \X Sides :
             ParseCard([b \in 1..4 |-> Word], Max(Heights), Plain, size)
  \/ DrawBlock
  \/ FontRaises
  \/ /\ phase = "render"
     /\ \E recent \in Recents, legible \in BOOLEAN : CheckCard(recent, legible)

CardSpec == CardInit /\ [][CardNext]_<<layoutVars, cardVars>>

-----------------------------------------------------------------------------
(* Properties                                                              *)

CardTypeOK ==
  /\ LayoutTypeOK
  /\ phase \in Phases /\ color \in Colors \cup {Plain}
  /\ sides \in {<<0, 0>>, <<MinSide, MinSide>>} \cup (Sides \X Sides)
  /\ report = NoReport \/ report \in [Checks -> BOOLEAN]

(* The report tells what a reader of the card sees (gate.py:1-16): every   *)
(* field is called present exactly if it is drawn, a card said not to      *)
(* overflow has all its lines apart and inside the safe area, and what is  *)
(* judged was drawn in fonts that have a size.  The render of a spec that  *)
(* was admitted ends on a colour only if that has six characters, can be   *)
(* read as one number and is not six hex digits, and ends on a font only   *)
(* at a block that is too fine for the width, on a card that the gate      *)
(* would have found too small.                                             *)
Visible(b) == \E i \in DOMAIN drawn : drawn[i].block = b /\ drawn[i].words # <<>>
ReportTrue ==
  /\ phase = "judged" =>
       /\ report["required_fields"] <=> \A b \in 1..4 : Visible(b)
       /\ report["text_overflow"] => CleanUnlessOverflow
       /\ \A b \in 1..4 : FontSize(b) > 0
  /\ phase = "raised" =>
       \/ color # Plain /\ ValidHex(color)
       \/ block \in 1..4 /\ FontSize(block) = 0 /\ sides[1] < MinSide
=============================================================================
