SPECIFICATION Spec
CONSTANTS
  MaxText = 5
  MaxLines = 4
  MaxWords = 7
  Fragment <- MCFragment
  Requirement <- MCRequirement
  Task <- MCTask
  Hint <- MCHint
  Width <- MCChars
  Inside <- MCInside
  Begins <- MCBegins
INVARIANTS CutIsExact LinkIsWhole EscapedReadsBack CaptionFits WrapKeepsTheWords NothingOverlaps SectionsFollowTheLoop
PROPERTY MoreTextKeepsRequirements
