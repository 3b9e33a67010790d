----------------------------- MODULE TextLayout -----------------------------
(***************************************************************************)
(* The layout of a card (render/card/renderer.py; the video renderer wraps *)
(* its slides with the same algorithm).  A text is a sequence of           *)
(* paragraphs, a paragraph one of words, a word one of the widths of its   *)
(* characters.  A line that was set is again a sequence of words.  Widths  *)
(* add up, a space is SpaceWidth wide: the kerning of a font is left out.  *)
(***************************************************************************)
EXTENDS Integers, Sequences, SequencesExt

CONSTANTS
  Paragraphs,   \* the paragraphs a card's texts are made of
  LineWidth,    \* right - left of the safe area
  SpaceWidth,   \* the width of a space
  Heights,      \* the heights of the safe area
  LineHeights,  \* the line heights of hook, title, body and footer, whose
                \* fonts have a size (CardQuality has those that have none)
  BlockGap      \* the gap after a block

ASSUME CharactersFit ==
  /\ LineWidth \in Nat
  /\ Paragraphs \subseteq Seq(Seq(1..LineWidth))
ASSUME HeightsAssumption ==
  /\ SpaceWidth \in Nat /\ BlockGap \in Nat /\ Heights \subseteq Int
  /\ \E tallest \in Heights : \A h \in Heights : h <= tallest
  /\ LineHeights \in [1..4 -> Nat \ {0}]

VARIABLES
  texts,     \* hook, title, body and footer
  bottom,    \* the lower edge of the safe area; its upper edge is 0
  block,     \* the block that is set next, 0 before a card, 5 after it
  nextTop,   \* where it begins
  drawn,     \* the lines drawn
  overflow   \* the verdict handed to the quality gate

layoutVars == <<texts, bottom, block, nextTop, drawn, overflow>>

-----------------------------------------------------------------------------
(* _wrap                                                                   *)

WordWidth(word) == FoldLeft(+, 0, word)
LineOf(words) ==
  FoldLeft(LAMBDA w, word : w + WordWidth(word), 0, words)
    + IF words = <<>> THEN 0 ELSE SpaceWidth * (Len(words) - 1)

(* A word wider than a line is cut into pieces of characters: the pieces   *)
(* that fill a line, and the rest that begins the next one.                *)
Cut(word) ==
  FoldLeft(LAMBDA acc, ch :
             IF acc.buf # <<>> /\ WordWidth(Append(acc.buf, ch)) > LineWidth
             THEN [full |-> Append(acc.full, <<acc.buf>>), buf |-> <<ch>>]
             ELSE [acc EXCEPT !.buf = Append(@, ch)],
           [full |-> <<>>, buf |-> <<>>], word)

(* Mutant: a long word is begun on the line under way.                     *)
PlaceForgets(acc, word) ==
  IF LineOf(Append(acc.line, word)) <= LineWidth
  THEN [acc EXCEPT !.line = Append(@, word)]
  ELSE IF WordWidth(word) <= LineWidth
       THEN [lines |-> IF acc.line = <<>> THEN acc.lines
                       ELSE Append(acc.lines, acc.line),
             line  |-> <<word>>]
       ELSE [lines |-> acc.lines \o Cut(word).full, line |-> <<Cut(word).buf>>]

(* One word after another: on the line if it fits, else on a new one.      *)
Place(acc, word) ==
  LET flushed == IF acc.line = <<>> THEN acc.lines ELSE Append(acc.lines, acc.line)
  IN  IF LineOf(Append(acc.line, word)) <= LineWidth
      THEN [acc EXCEPT !.line = Append(@, word)]
      ELSE IF WordWidth(word) <= LineWidth
           THEN [lines |-> flushed, line |-> <<word>>]
           ELSE [lines |-> flushed \o Cut(word).full, line |-> <<Cut(word).buf>>]

(* What is under way at its end is a line too, be it empty.                *)
WrapParagraph(p) ==
  LET end == FoldLeft(Place, [lines |-> <<>>, line |-> <<>>], p)
  IN  Append(end.lines, end.line)

Wrap(text) == FlattenSeq([i \in DOMAIN text |-> WrapParagraph(text[i])])

-----------------------------------------------------------------------------
(* render_card                                                             *)

LayoutInit ==
  /\ texts = << >> /\ bottom = 0
  /\ block = 0 /\ nextTop = 0
  /\ drawn = <<>>
  /\ overflow = FALSE

(* The texts of a spec on a canvas.                                        *)
Begin(content, height) ==
  /\ block = 0
  /\ texts' = content
  /\ bottom' = height
  /\ block' = 1
  /\ UNCHANGED <<nextTop, drawn, overflow>>

LinesFrom(b, top) ==
  LET lines == Wrap(texts[b]) IN
  [i \in 1..Len(lines) |->
     [block |-> b, words |-> lines[i],
      top |-> top + (i - 1) * LineHeights[b], end |-> top + i * LineHeights[b]]]

(* Hook, title and body are stacked from the top.                          *)
SetBlock ==
  LET lines == LinesFrom(block, nextTop) IN
  /\ block \in 1..3
  /\ drawn' = drawn \o lines
  /\ nextTop' = nextTop + Len(lines) * LineHeights[block] + BlockGap
  /\ block' = block + 1
  /\ UNCHANGED <<texts, bottom, overflow>>

FooterTop == bottom - Len(Wrap(texts[4])) * LineHeights[4]

(* Mutant: the stack is compared with the edge of the safe area.           *)
OverflowsEdge == nextTop > bottom
Overflows == nextTop > FooterTop

(* The footer stands on the lower edge.                                    *)
SetFooter ==
  /\ block = 4
  /\ overflow' = Overflows
  /\ drawn' = drawn \o LinesFrom(4, FooterTop)
  /\ block' = 5
  /\ UNCHANGED <<texts, bottom, nextTop>>

-----------------------------------------------------------------------------
(* Properties                                                              *)

LayoutTypeOK ==
  /\ block \in 0..5 /\ nextTop \in Nat /\ bottom \in Heights \cup {0}
  /\ overflow \in BOOLEAN
  /\ \A i \in DOMAIN drawn : drawn[i].block \in 1..4 /\ drawn[i].top \in Int

(* Wrapping loses nothing and wastes nothing (FR-Q1, renderer.py:58-59):   *)
(* the characters of a text come out in order, a word is cut only if it is *)
(* wider than a line, no line is wider than the safe area, and none could  *)
(* have taken the first word of the next.                                  *)
Fits(words) == LineOf(words) <= LineWidth
Faithful(p) ==
  LET lines == WrapParagraph(p) IN
  /\ FlattenSeq(FlattenSeq(lines)) = FlattenSeq(p)
  /\ \A i \in DOMAIN lines : Fits(lines[i])
  /\ (\A k \in DOMAIN p : Fits(<<p[k]>>)) =>
       /\ FlattenSeq(lines) = p
       /\ \A i \in 1..(Len(lines) - 1) : ~Fits(Append(lines[i], lines[i + 1][1]))
WrapFaithful ==
  \A b \in DOMAIN texts : \A i \in DOMAIN texts[b] : Faithful(texts[b][i])

(* A card that is not reported as overflowing has every line, the footer's *)
(* included, inside the safe area, and no two lines of it overlap (FR-Q1). *)
CleanUnlessOverflow ==
  (block = 5 /\ ~overflow) =>
    /\ \A i \in DOMAIN drawn : 0 <= drawn[i].top /\ drawn[i].end <= bottom
    /\ \A i, j \in DOMAIN drawn : i < j => drawn[i].end <= drawn[j].top
=============================================================================
