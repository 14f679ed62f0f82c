------------------------------- MODULE Summary -------------------------------
(***************************************************************************)
(* What a post says of a job description: extract_smart_summary and its    *)
(* helpers in app/formatter/base.py.                                       *)
(*                                                                         *)
(* A description is the sequence of its lines, once tags and leading noise *)
(* are taken off.  A line is the header of a section, perhaps with items   *)
(* of its own after a colon, or text, and it is cut in two ways: into the  *)
(* pieces that may become items, and into the chunks between its full      *)
(* stops, of which the sentences are made.  A sentence may go on over many *)
(* lines.  The cleaning of a fragment keeps it or drops it; its wording is *)
(* left out.  A full stop is taken for the only end of a sentence, the cuts*)
(* at 160 and 400 characters fall between chunks, and a line that is left  *)
(* out as boilerplate counts with its chunks for the line next to it.      *)
(*                                                                         *)
(* CapturingToTheEnd and LastOf are broken variants of the definition that *)
(* follows each. The specification does not use them; each shows that some *)
(* property would notice the mistake it stands for.                        *)
(***************************************************************************)
EXTENDS Integers, SequencesExt

CONSTANTS Fragment,
          Requirement,  \* those that _clean_requirement keeps
          Task,         \* those that _clean_task keeps
          Hint,         \* those with one of _REQUIREMENT_HINT_WORDS
          Width,        \* their lengths
          Inside,       \* the pairs whose first is a part of the second
          Begins        \* the pairs whose first is how the second begins

ASSUME SummaryAssumption ==
  /\ Requirement \cup Task \cup Hint \subseteq Fragment
  /\ Width \in [Fragment -> 1..160]
  /\ Begins \subseteq Inside /\ Inside \subseteq Fragment \X Fragment
  /\ \A f \in Fragment : <<f, f>> \in Begins

MaxRequirements == 4
MaxTasks == 2
MaxFallback == 3
MinSummary == 30
MaxSummary == 160
FallbackText == 400

(* Of a chunk: a sentence ends with it; it is the title of a section, with *)
(* its colon; it is the word "responsibilities"; it is the beginning of a  *)
(* Headquarters, URL or About sentence; it has boilerplate in it.          *)
Mark == {"stop", "title", "responsibilities", "noise", "boilerplate"}
Chunk == [text: Fragment, marks: SUBSET Mark]

(* untitled is what _strip_header_prefix leaves of a line of text: the     *)
(* same pieces, unless it begins with the title of a section.              *)
Section == {"none", "requirements", "tasks"}
Line == [section: Section, colon: BOOLEAN,
         pieces: Seq(Fragment), untitled: Seq(Fragment), chunks: Seq(Chunk)]

-----------------------------------------------------------------------------
IsHeader(line) == line.section # "none"

(* Only the line right after a bare header is freed of a repeated title.   *)
Content(lines, i) ==
  IF IsHeader(lines[i]) THEN IF lines[i].colon THEN lines[i].pieces ELSE << >>
  ELSE IF i > 1 /\ IsHeader(lines[i - 1]) /\ ~lines[i - 1].colon
  THEN lines[i].untitled ELSE lines[i].pieces

(* The last header up to line i is one of the section.                     *)
CapturingToTheEnd(lines, i, section) ==
  \E k \in 1..i : lines[k].section = section
Capturing(lines, i, section) ==
  \E k \in 1..i : /\ lines[k].section = section
                  /\ \A m \in (k + 1)..i : ~IsHeader(lines[m])

FirstOf(items, n) == SubSeq(items, 1, IF Len(items) < n THEN Len(items) ELSE n)
Kept(items, S) ==
  FlattenSeq([k \in DOMAIN items |-> IF items[k] \in S THEN <<items[k]>> ELSE << >>])

SectionItems(lines, section) ==
  FlattenSeq([i \in DOMAIN lines |->
    IF Capturing(lines, i, section) THEN Content(lines, i) ELSE << >>])

ExtractItems(lines, section, clean, max) ==
  FirstOf(Kept(SectionItems(lines, section), clean), max)

-----------------------------------------------------------------------------
(* The text without its line ends, and the sentences of it: from one stop  *)
(* to the next, the last one perhaps without a stop.                       *)
Chunks(lines) == FlattenSeq([i \in DOMAIN lines |-> lines[i].chunks])

Stop(text, i) == "stop" \in text[i].marks
Sentences(text) ==
  {x \in (DOMAIN text) \X (DOMAIN text) :
     /\ x[1] <= x[2]
     /\ x[1] = 1 \/ Stop(text, x[1] - 1)
     /\ x[2] = Len(text) \/ Stop(text, x[2])
     /\ \A i \in x[1]..(x[2] - 1) : ~Stop(text, i)}

(* A sentence without the title of a section it begins with.               *)
Untitled(s) == IF "title" \in s[1].marks /\ Len(s) > 1 THEN Tail(s) ELSE s
Candidate(text, x) ==
  LET s == Untitled(SubSeq(text, x[1], x[2]))
  IN  IF "responsibilities" \in s[1].marks THEN Tail(s) ELSE s

IsMeaningful(s) ==
  /\ s # << >> /\ "noise" \notin s[1].marks
  /\ \A i \in DOMAIN s : "boilerplate" \notin s[i].marks

Characters(s) ==        \* with a blank between its chunks
  LET upTo[n \in 0..Len(s)] ==
        IF n = 0 THEN 0
        ELSE upTo[n - 1] + (IF n = 1 THEN 0 ELSE 1) + Width[s[n].text]
  IN  upTo[Len(s)]

Meaningful(text) == {x \in Sentences(text) : IsMeaningful(Candidate(text, x))}
Substantive(text) ==
  {x \in Meaningful(text) : Characters(Candidate(text, x)) >= MinSummary}

LastOf(sentences) == CHOOSE x \in sentences : \A y \in sentences : x[1] >= y[1]
FirstSentence(sentences) == CHOOSE x \in sentences : \A y \in sentences : x[1] <= y[1]

TruncateWords(s) ==
  SubSeq(s, 1, Max({i \in DOMAIN s : Characters(SubSeq(s, 1, i)) <= MaxSummary}))

(* The first sentence that is long enough, or else the first of them all,  *)
(* or nothing.                                                             *)
SummaryLine(text) ==
  IF Meaningful(text) = {} THEN << >>
  ELSE TruncateWords(Candidate(text, FirstSentence(
         IF Substantive(text) # {} THEN Substantive(text) ELSE Meaningful(text))))

(* What is said in a summary line, what it begins and what it is part of:  *)
(* a requirement is compared with one chunk at a time.                     *)
PartsOf(s) == {f \in Fragment : \E i \in DOMAIN s : <<f, s[i].text>> \in Inside}
BegunBy(s) == {f \in Fragment : Len(s) = 1 /\ <<s[1].text, f>> \in Begins}
Around(s) == {f \in Fragment : Len(s) = 1 /\ <<s[1].text, f>> \in Inside}

FallbackRequirements(text, summary) ==
  LET start == FlattenSeq([i \in DOMAIN text |->
        IF Characters(SubSeq(text, 1, i)) <= FallbackText /\ "boilerplate" \notin text[i].marks
        THEN <<text[i].text>> ELSE << >>])
  IN  FirstOf(Kept(start, (Hint \cap Requirement) \ (PartsOf(summary) \cup Around(summary))),
              MaxFallback)

(* The requirements of a section, or else chunks that read like one; then  *)
(* without those the summary line conveys.                                 *)
FoundRequirements(lines) ==
  ExtractItems(lines, "requirements", Requirement, MaxRequirements)
Requirements(lines) ==
  LET summary == SummaryLine(Chunks(lines))
      found == FoundRequirements(lines)
      items == IF found # << >> THEN found ELSE FallbackRequirements(Chunks(lines), summary)
  IN  Kept(items, Fragment \ (PartsOf(summary) \cup BegunBy(summary)))

WhatYouDo(lines) == ExtractItems(lines, "tasks", Task, MaxTasks)
==============================================================================
