------------------------------ MODULE CardText ------------------------------
(***************************************************************************)
(* What a card shows and where (app/formatter/image.py): the wrapping of   *)
(* words into lines, and the four layouts.                                 *)
(*                                                                         *)
(* A text is the sequence of the widths of its words; a line is a sequence *)
(* of words.  Heights are in pixels from the top of the card, and a line   *)
(* of text is as high as its font and a fifth.  Colours, fonts and the     *)
(* horizontal position are left out.                                       *)
(*                                                                         *)
(* BreakUnnoticed and AlwaysFourLines are broken variants of the           *)
(* definition that follows each. The specification does not use them; each *)
(* shows that some property would notice the mistake it stands for.        *)
(***************************************************************************)
EXTENDS Integers, Sequences, SequencesExt

CardHeight == 630
Space == 1
EllipsisWidth == 1

Words(line) ==
  LET upTo[n \in 0..Len(line)] == IF n = 0 THEN 0 ELSE upTo[n - 1] + line[n]
  IN  upTo[Len(line)]
LineWidth(line) == IF line = << >> THEN 0 ELSE Words(line) + Space * (Len(line) - 1)

(* The loop of _wrap: a word joins the current line if it fits or is the   *)
(* first; else the line is full, and after max_lines of them it stops.     *)
NoLines == [full |-> << >>, current |-> << >>, stopped |-> FALSE]
PlaceWord(state, word, maxWidth, maxLines) ==
  LET trial == Append(state.current, word)
  IN  IF state.stopped THEN state
      ELSE IF state.current = << >> \/ LineWidth(trial) <= maxWidth
      THEN [state EXCEPT !.current = trial]
      ELSE [full |-> Append(state.full, state.current), current |-> <<word>>,
            stopped |-> Len(state.full) + 1 >= maxLines]

WrappedLines(words, maxWidth, maxLines) ==
  LET after[n \in 0..Len(words)] ==
        IF n = 0 THEN NoLines ELSE PlaceWord(after[n - 1], words[n], maxWidth, maxLines)
      end == after[Len(words)]
  IN  IF Len(end.full) < maxLines /\ end.current # << >>
      THEN Append(end.full, end.current) ELSE end.full

(* Words are missing: the last line gives way, character by character, to  *)
(* an ellipsis; blanks it would end with are not taken off here.           *)
BreakUnnoticed(words, lines) == FALSE
WordsLost(words, lines) == Len(FlattenSeq(lines)) < Len(words)
Trimmed(width, maxWidth) ==
  IF width + EllipsisWidth <= maxWidth THEN width
  ELSE IF maxWidth > EllipsisWidth THEN maxWidth - EllipsisWidth ELSE 0

Wrap(words, maxWidth, maxLines) ==
  LET lines == WrappedLines(words, maxWidth, maxLines)
      ellipsis == WordsLost(words, lines) /\ lines # << >>
  IN  [lines |-> lines, ellipsis |-> ellipsis,
       lastWidth |-> IF lines = << >> THEN 0
                     ELSE IF ellipsis THEN Trimmed(LineWidth(Last(lines)), maxWidth) + EllipsisWidth
                     ELSE LineWidth(Last(lines))]

-----------------------------------------------------------------------------
(* The variants: where a text begins and the size of its font; for the     *)
(* wrapped title and the lists, how far apart the lines are.  bar is the   *)
(* rule under the title, or without one the next text.                     *)
At(y, size) == [y |-> y, size |-> size, step |-> 0]
Lines(y, size, step) == [y |-> y, size |-> size, step |-> step]
SummaryStep == 28
RequirementStep == 30

DarkCommand ==
  [company |-> At(40, 20), title |-> Lines(78, 42, 52), bar |-> 196, pay |-> At(214, 32),
   summary |-> Lines(278, 18, SummaryStep), requirements |-> Lines(362, 17, RequirementStep),
   url |-> At(CardHeight - 58, 14)]
NavyPrecision ==
  [company |-> At(106, 22), title |-> Lines(150, 46, 54), bar |-> 276, pay |-> At(296, 30),
   summary |-> Lines(348, 17, SummaryStep), requirements |-> Lines(428, 16, RequirementStep),
   url |-> At(CardHeight - 56, 14)]
SplitPanel ==       \* the pay is on a panel of its own
  [company |-> At(50, 22), title |-> Lines(100, 40, 48), bar |-> 248, pay |-> At(248, 0),
   summary |-> Lines(248, 18, SummaryStep), requirements |-> Lines(360, 17, RequirementStep),
   url |-> At(CardHeight - 50, 14)]
EmeraldEdge ==
  [company |-> At(40, 20), title |-> Lines(84, 48, 58), bar |-> 228, pay |-> At(228, 30),
   summary |-> Lines(292, 17, SummaryStep), requirements |-> Lines(376, 17, RequirementStep),
   url |-> At(CardHeight - 58, 14)]
Variants == {DarkCommand, NavyPrecision, SplitPanel, EmeraldEdge}

Bottom(text, n) ==
  IF n = 0 THEN text.y ELSE text.y + (n - 1) * text.step + (6 * text.size) \div 5

(* _draw_info: two lines of summary above requirements, four without.      *)
TitleLines == 2
MaxListed == 3
AlwaysFourLines(requirements) == 4
SummaryLines(requirements) == IF requirements > 0 THEN 2 ELSE 4
Listed(requirements) == IF requirements < MaxListed THEN requirements ELSE MaxListed

(* Each text of a card with the one below it.                              *)
TextsApart(variant, titleLines, summaryLines, requirements) ==
  /\ Bottom(variant.company, 1) <= variant.title.y
  /\ Bottom(variant.title, titleLines) <= variant.bar
  /\ variant.bar <= variant.pay.y /\ Bottom(variant.pay, 1) <= variant.summary.y
  /\ Bottom(variant.summary, summaryLines) <=
       (IF requirements > 0 THEN variant.requirements.y ELSE variant.url.y)
  /\ Bottom(variant.requirements, Listed(requirements)) <= variant.url.y
  /\ Bottom(variant.url, 1) <= CardHeight
=============================================================================
