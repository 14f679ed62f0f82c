------------------------------ MODULE PostText ------------------------------
(***************************************************************************)
(* How a post is made to fit its platform (x_formatter.py and              *)
(* linkedin_formatter.py), and the escaping of Telegram's MarkdownV2.      *)
(*                                                                         *)
(* A post is the text before its title, the title, the text between the    *)
(* title and the end of the apply link, and the rest (the hashtags); only  *)
(* their lengths matter.  Blanks are the ones that rstrip would remove     *)
(* where the title is cut.                                                 *)
(*                                                                         *)
(* KeepTooMany, NotRebuilt, LinkSpelledOut and BackslashLast are broken    *)
(* variants of the definition that follows each. The specification does    *)
(* not use them; each shows that some property would notice the mistake it *)
(* stands for.                                                             *)
(***************************************************************************)
EXTENDS Integers, Sequences, SequencesExt

MaxTweetLength == 280
MaxLinkedInLength == 700

Layout == [before: Nat, title: Nat \ {0}, middle: Nat, rest: Nat]

LinkEnd(post) == post.before + post.title + post.middle
Length(post) == LinkEnd(post) + post.rest

LineLength(n) == 1 + n      \* a line after the first, with its "\n"
Blank == LineLength(0)
WhenAny(n, length) == IF n > 0 THEN length ELSE 0
Bullets(items) ==           \* the length of a list of them, each on a line
  LET upTo[n \in 0..Len(items)] ==
        IF n = 0 THEN 0 ELSE upTo[n - 1] + LineLength(2 + items[n])
  IN  upTo[Len(items)]

(* XFormatter._build: the header with or without pay, two or three fixed   *)
(* lines, the link, the hashtags.                                          *)
XLayout(pay, title, entryLevel, url, tags) ==
  [before |-> IF pay > 0 THEN 2 + pay + 3 ELSE 2,
   title  |-> title,
   middle |-> Blank + LineLength(25) + (IF entryLevel THEN LineLength(24) ELSE 0)
              + LineLength(20) + WhenAny(url, Blank + LineLength(8 + url)),
   rest   |-> Blank + LineLength(tags)]

(* LinkedInFormatter._build: the requirements, each on a line of its own,  *)
(* are a sequence of lengths.                                              *)
LinkedInLayout(pay, title, blurb, requirements, url, tags) ==
  [before |-> 20,
   title  |-> title,
   middle |-> Blank + WhenAny(pay, LineLength(2 + pay)) + LineLength(20)
              + WhenAny(blurb, Blank + LineLength(blurb)) + Blank + LineLength(13)
              + Bullets(requirements)
              + WhenAny(url, Blank + LineLength(7 + url)),
   rest   |-> Blank + LineLength(tags)]

(* TelegramFormatter.format as Telegram counts a caption: without the      *)
(* markup, in UTF-16 units.  The code counts characters: the lengths of    *)
(* the texts are in those, and wide is how many of them (emoji, bold       *)
(* letters) take two units.  The link is a text, its address does not      *)
(* count; nothing is shortened.                                            *)
MaxCaptionLength == 1024
LinkSpelledOut(url) == LineLength(13 + 3 + url)
LinkText(url) == LineLength(13)
CaptionLength(c) ==
  3 + c.title + WhenAny(c.company, LineLength(3 + c.company)) + Blank
  + LineLength(8 + c.pay) + LineLength(19)
  + WhenAny(c.blurb, Blank + LineLength(c.blurb)) + Blank + LineLength(15)
  + Bullets(c.requirements)
  + WhenAny(c.url, Blank + LinkText(c.url)) + Blank + LineLength(9)
  + c.wide

-----------------------------------------------------------------------------
(* _shorten_title: cut by the overflow and one more, for the ellipsis, but *)
(* never to nothing.                                                       *)
KeepTooMany(post, limit) ==
  LET room == post.title - (Length(post) - limit)
  IN  IF room < 1 THEN 1 ELSE room
Keep(post, limit) ==
  LET room == post.title - (Length(post) - limit) - 1
  IN  IF room < 1 THEN 1 ELSE room

(* The first character of a title is no blank, so one is always left.      *)
Stripped(n, blanks) == IF blanks < n THEN n - blanks ELSE 1

Shortened(post, limit, blanks) ==
  [post EXCEPT !.title = Stripped(Keep(post, limit), blanks) + 1]

(* format: shorten the title if the post is too long; if that is not       *)
(* enough, cut the post at the limit.                                      *)
NotRebuilt(post, limit, blanks) == post
Rebuilt(post, limit, blanks) ==
  IF Length(post) > limit THEN Shortened(post, limit, blanks) ELSE post

ContentLength(post, limit, blanks) ==
  LET n == Length(Rebuilt(post, limit, blanks)) IN IF n > limit THEN limit ELSE n

-----------------------------------------------------------------------------
(* escape_markdownv2 replaces one reserved character after the other in    *)
(* the whole text; the backslash has to come first.                        *)
Backslash == "\\"
Replaced(text, char) ==
  FlattenSeq([i \in DOMAIN text |-> IF text[i] = char THEN <<Backslash, char>> ELSE <<text[i]>>])
ReplacedInTurn(text, chars) ==
  LET after[n \in 0..Len(chars)] ==
        IF n = 0 THEN text ELSE Replaced(after[n - 1], chars[n])
  IN  after[Len(chars)]

BackslashLast(special) == Append(Tail(special), Head(special))
EscapeOrder(special) == special
EscapeMarkdown(text, special) == ReplacedInTurn(text, EscapeOrder(special))

(* What Telegram reads: a backslash makes the character after it literal.  *)
Literal(text) ==
  LET lit[i \in 0..Len(text)] == i > 1 /\ text[i - 1] = Backslash /\ ~lit[i - 1]
  IN  {i \in DOMAIN text : lit[i]}
Markup(text, special) == {i \in DOMAIN text \ Literal(text) : text[i] \in ToSet(special)}
Unescaped(text) ==
  FlattenSeq([i \in DOMAIN text |->
    IF i \in Literal(text) \/ text[i] # Backslash THEN <<text[i]>> ELSE << >>])
=============================================================================
