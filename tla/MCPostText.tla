----------------------------- MODULE MCPostText -----------------------------
(***************************************************************************)
(* Every post of some lengths around the limits of the platforms, every    *)
(* short text to be escaped, every description of a few lines, and every   *)
(* card of a few words.  They have nothing to do with each other, so each  *)
(* is varied while the others stay as they were at first.                  *)
(***************************************************************************)
EXTENDS PostText, Summary, CardText

CONSTANTS MaxText, MaxLines, MaxWords

(* Titles of one character, which the ellipsis would make longer, are left *)
(* out.                                                                    *)
Titles == {2, 3, 4, 30, 99, 100, 101, 180}
Urls == {0, 20} \cup 90..215
Special == <<Backslash, "*", "-">>

XPosts ==
  {XLayout(pay, title, entry, url, tags) :
     pay \in {0, 6, 10}, title \in Titles, entry \in BOOLEAN, url \in Urls, tags \in {31, 67}}
LinkedInPosts ==
  {LinkedInLayout(pay, title, blurb, reqs, url, 33) :
     pay \in {0, 12}, title \in Titles, blurb \in {0, 160},
     reqs \in {<<18>>, <<90, 90, 90>>, <<120, 120, 120>>}, url \in Urls}

(* The most that the formatter and the summary leave of each text but the  *)
(* title, or next to nothing of it.  Of the title and the blurb any        *)
(* characters may be wide.                                                 *)
LongTitle == 465
Captions ==
  {c \in [title: {3, 120, LongTitle - 100, LongTitle, LongTitle + 1, 900},
          company: {0, 1, 40}, pay: {13, 25}, blurb: {0, 30, 160},
          requirements: {<<18>>, <<8, 60>>, <<60, 60, 60, 60>>}, url: {0, 30, 600},
          wide: {0, 1, 100, LongTitle}] : c.wide <= c.title + c.blurb}

(* Words of one letter, of half a line, and too wide for a line.           *)
MCWord == {1, 3, 7}
MCWidth == 6

(* The fragments, with their lengths: "We help small shops with their      *)
(* internet orders.", "Great job.", "Headquarters in Berlin and Paris.",   *)
(* "laptop and internet", "Must have laptop and internet", "internet", two *)
(* long requirements, "typing," (long enough for a task only), "hi"        *)
(* (dropped), what a board appends, with its boilerplate, and the titles of*)
(* sections.                                                               *)
MCChars == [intro |-> 47, great |-> 10, berlin |-> 33, laptop |-> 19, must |-> 29, internet |-> 8,
            degree |-> 41, fluent |-> 45, typing |-> 7, hi |-> 2, apply |-> 19,
            employer |-> 37, title |-> 13]
MCFragment == DOMAIN MCChars
MCTask == MCFragment \ {"hi", "employer", "title"}
MCRequirement == MCTask \ {"typing"}
MCHint == {"degree", "fluent"}
MCBegins == {<<f, f>> : f \in MCFragment}
MCInside == MCBegins \cup ({"internet"} \X {"intro", "laptop", "must"}) \cup {<<"laptop", "must">>}

Phrase(f) == [text |-> f, marks |-> {}]
Sentence(f) == [text |-> f, marks |-> {"stop"}]
Noise(f) == [text |-> f, marks |-> {"stop", "noise"}]
Title(marks) == [text |-> "title", marks |-> marks]
Header(section, colon, pieces, chunks) ==
  [section |-> section, colon |-> colon, pieces |-> pieces, untitled |-> pieces,
   chunks |-> chunks]
Text(pieces, untitled, chunks) ==
  [section |-> "none", colon |-> FALSE, pieces |-> pieces, untitled |-> untitled,
   chunks |-> chunks]
MCLine ==
  {Header("requirements", FALSE, << >>, <<Title({})>>),
   Header("requirements", TRUE, << >>, <<Title({"title"})>>),
   Header("requirements", TRUE, <<"laptop", "internet", "degree">>,
          <<Title({"title"}), Phrase("laptop"), Phrase("internet"), Phrase("degree")>>),
   Header("tasks", FALSE, << >>, <<Title({"responsibilities"})>>),
   Header("tasks", TRUE, <<"typing", "hi">>,
          <<Title({"title", "responsibilities"}), Phrase("typing"), Phrase("hi")>>),
   Text(<<"intro">>, <<"intro">>, <<Sentence("intro")>>),
   Text(<<"great">>, <<"great">>, <<Sentence("great")>>),
   Text(<<"berlin">>, <<"berlin">>, <<Noise("berlin")>>),
   Text(<<"degree", "fluent">>, <<"degree", "fluent">>, <<Sentence("degree"), Phrase("fluent")>>),
   Text(<<"laptop">>, <<"laptop">>, <<Phrase("laptop")>>),
   Text(<<"must">>, <<"laptop">>, <<Phrase("must")>>),
   Text(<<"internet">>, <<"internet">>, <<Phrase("internet")>>),
   Text(<<"apply">>, <<"apply">>, <<Phrase("apply")>>),
   Text(<<"apply">>, <<"apply">>,
        <<Phrase("apply"), [text |-> "employer", marks |-> {"stop", "boilerplate"}]>>)}

VARIABLES post, limit, blanks, text, desc, caption, card
vars == <<post, limit, blanks, text, desc, caption, card>>

FirstPost == XLayout(0, 2, FALSE, 0, 31)
FirstCaption == [title |-> 3, company |-> 0, pay |-> 13, blurb |-> 0,
                 requirements |-> <<18>>, url |-> 0, wide |-> 0]
NoWords == [words |-> << >>, requirements |-> 0]
First == post = FirstPost /\ text = << >> /\ desc = << >>
         /\ caption = FirstCaption /\ card = NoWords
Init == First /\ limit = MaxTweetLength /\ blanks = 0

NewPost ==
  /\ First
  /\ \/ post' \in XPosts /\ limit' = MaxTweetLength
     \/ post' \in LinkedInPosts /\ limit' = MaxLinkedInLength
  /\ blanks' \in 0..2
  /\ UNCHANGED <<text, desc, caption, card>>

NewCaption ==
  /\ First
  /\ caption' \in Captions
  /\ UNCHANGED <<post, limit, blanks, text, desc, card>>

Type ==
  /\ First \/ text # << >>
  /\ Len(text) < MaxText
  /\ \E char \in ToSet(Special) \cup {"x"} : text' = Append(text, char)
  /\ UNCHANGED <<post, limit, blanks, desc, caption, card>>

Describe ==
  /\ First
  /\ \E line \in MCLine : desc' = <<line>>
  /\ UNCHANGED <<post, limit, blanks, text, caption, card>>

AddLine ==
  /\ desc # << >> /\ Len(desc) < MaxLines
  /\ \E line \in MCLine : desc' = Append(desc, line)
  /\ UNCHANGED <<post, limit, blanks, text, caption, card>>

NewCard ==
  /\ First
  /\ \E w \in MCWord, n \in 0..MaxRequirements :
       card' = [words |-> <<w>>, requirements |-> n]
  /\ UNCHANGED <<post, limit, blanks, text, desc, caption>>

AddWord ==
  /\ card # NoWords /\ Len(card.words) < MaxWords
  /\ \E w \in MCWord : card' = [card EXCEPT !.words = Append(@, w)]
  /\ UNCHANGED <<post, limit, blanks, text, desc, caption>>

StartOver ==
  /\ \/ post # FirstPost \/ caption # FirstCaption
     \/ Len(text) = MaxText \/ Len(desc) = MaxLines \/ Len(card.words) = MaxWords
  /\ post' = FirstPost /\ limit' = MaxTweetLength /\ blanks' = 0
  /\ text' = << >> /\ desc' = << >> /\ caption' = FirstCaption /\ card' = NoWords

Next == NewPost \/ NewCaption \/ Type \/ Describe \/ AddLine \/ NewCard \/ AddWord \/ StartOver
Spec == Init /\ [][Next]_vars

-----------------------------------------------------------------------------
(* If a post of two characters of title fits, cutting the title is enough: *)
(* nothing else of the post is cut, and no more of the title than needed,  *)
(* but for blanks.                                                         *)
CutIsExact ==
  LET fits == Length([post EXCEPT !.title = 2]) <= limit
      built == Rebuilt(post, limit, blanks)
  IN  Length(post) > limit /\ fits =>
        Length(built) <= limit /\ Length(built) >= limit - blanks

(* The apply link is posted whole whenever there is room for it and two    *)
(* characters of title; the hashtags are what gives way.                   *)
LinkIsWhole ==
  LET built == Rebuilt(post, limit, blanks)
  IN  LinkEnd([post EXCEPT !.title = 2]) <= limit =>
        LinkEnd(built) <= ContentLength(post, limit, blanks)

(* A text reads on Telegram as it was, with no character taken for markup. *)
EscapedReadsBack ==
  LET sent == EscapeMarkdown(text, Special)
  IN  Unescaped(sent) = text /\ Markup(sent, Special) \subseteq
        {i \in DOMAIN sent : sent[i] = Backslash}

(* Telegram's limit on captions, which the formatter does not look at, can *)
(* only be passed by a long title, or a shorter one in a post with as many *)
(* wide characters as it lacks: the summary bounds everything else, but in *)
(* characters, and the address of the link does not count.                 *)
CaptionFits ==
  CaptionLength(caption) > MaxCaptionLength => caption.title + caption.wide > LongTitle

(* A wrapped text on a card is the words as far as they go: no line could  *)
(* take another word, words are left out only when all lines are full and  *)
(* never without an ellipsis, and only a single word sticks out.           *)
WrapKeepsTheWords ==
  \A maxLines \in {TitleLines, SummaryLines(0)} :
    LET w == Wrap(card.words, MCWidth, maxLines)
        complete == FlattenSeq(w.lines) = card.words
    IN  /\ IsPrefix(FlattenSeq(w.lines), card.words)
        /\ Len(w.lines) <= maxLines
        /\ w.ellipsis <=> ~complete
        /\ complete \/ Len(w.lines) = maxLines
        /\ \A i \in 1..(Len(w.lines) - 1) :
             /\ LineWidth(w.lines[i]) <= MCWidth \/ Len(w.lines[i]) = 1
             /\ ~(LineWidth(Append(w.lines[i], Head(w.lines[i + 1]))) <= MCWidth)
        /\ w.lastWidth <= MCWidth \/ (complete /\ Len(Last(w.lines)) = 1)

(* On no variant does a text run into the one below it, however long the   *)
(* title and the summary, with and without requirements.                   *)
NothingOverlaps ==
  \A variant \in Variants :
    TextsApart(variant,
               Len(Wrap(card.words, MCWidth, TitleLines).lines),
               Len(Wrap(card.words, MCWidth, SummaryLines(card.requirements)).lines),
               card.requirements)

-----------------------------------------------------------------------------
(* _extract_items as the source loops: over the lines with its two flags,  *)
(* then over the fragments of a line until there are enough items.         *)
Scan(lines, section) ==
  LET after[n \in 0..Len(lines)] ==
        IF n = 0 THEN [capturing |-> FALSE, start |-> FALSE, items |-> << >>]
        ELSE LET s == after[n - 1]
                 line == lines[n]
                 here == line.section = section
             IN  IF line.section # "none"
                 THEN [capturing |-> here, start |-> here /\ ~line.colon,
                       items |-> IF here /\ line.colon THEN s.items \o line.pieces ELSE s.items]
                 ELSE [capturing |-> s.capturing, start |-> FALSE,
                       items |-> IF ~s.capturing THEN s.items
                                 ELSE s.items \o (IF s.start THEN line.untitled ELSE line.pieces)]
  IN  after[Len(lines)].items

TakeUntil(pieces, clean, max) ==
  LET after[n \in 0..Len(pieces)] ==
        IF n = 0 THEN << >>
        ELSE IF pieces[n] \in clean /\ Len(after[n - 1]) < max
        THEN Append(after[n - 1], pieces[n]) ELSE after[n - 1]
  IN  after[Len(pieces)]

(* A section ends at the next header of either kind, its title is stripped *)
(* from its first line only, and its first items are the ones kept.        *)
SectionsFollowTheLoop ==
  /\ FoundRequirements(desc)
       = TakeUntil(Scan(desc, "requirements"), Requirement, MaxRequirements)
  /\ WhatYouDo(desc) = TakeUntil(Scan(desc, "tasks"), Task, MaxTasks)

(* Some sentence that is long enough for the summary line has ended.       *)
Settled(lines) ==
  LET whole == Chunks(lines) IN \E x \in Substantive(whole) : Stop(whole, x[2])

(* Once the summary line is settled, more text at the end of a description *)
(* takes back no requirement found in a section, nor changes the order of  *)
(* what a post shows: boards append their own sections to the employer's   *)
(* text.  Before, it may: after "Great job." and a section with "laptop    *)
(* and internet", "Apply today with us" makes the last two the summary     *)
(* line, and the requirement is dropped as said in it.                     *)
MoreTextKeepsRequirements ==
  [][desc # << >> /\ IsPrefix(desc, desc') /\ Settled(desc) /\ FoundRequirements(desc) # << >> =>
       IsPrefix(Requirements(desc), Requirements(desc'))]_vars
=============================================================================
