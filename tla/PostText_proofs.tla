---------------------------- MODULE PostText_proofs ----------------------------
(***************************************************************************)
(* Theorems about what is posted, over MCPostText: the lengths of posts    *)
(* and captions, the items of a description, the escaping of a text and    *)
(* the cards.  MCPostText bounds texts, lines and words by constants;      *)
(* nothing here depends on them.                                           *)
(***************************************************************************)
EXTENDS MCPostText, SequenceFacts

-----------------------------------------------------------------------------
(***************************************************************************)
(* Posts and captions.                                                     *)
(***************************************************************************)

(* A list on a post is as long as its items and what marks each of them.   *)
LEMMA BulletsLength ==
  ASSUME NEW items \in Seq(Nat)
  PROVE  /\ Bullets(items) \in Nat
         /\ \A most \in Nat : (\A k \in DOMAIN items : items[k] <= most) =>
              Bullets(items) <= (most + 3) * Len(items)
<1> DEFINE N == Len(items)
           eqn(f) == f = [n \in 0..N |-> IF n = 0 THEN 0 ELSE f[n - 1] + LineLength(2 + items[n])]
           h == CHOOSE f : eqn(f)
<1>0. N \in Nat /\ DOMAIN items = 1..N /\ \A n \in 1..N : items[n] \in Nat
  BY LenProperties, ElementOfSeq
<1>1. Bullets(items) = h[N]
  BY DEF Bullets
<1> HIDE DEF N
<1>2. \E f : eqn(f)
  <2> DEFINE step == [x \in (1..N) \X Nat |-> x[2] + LineLength(2 + items[x[1]])]
  <2>1. step \in [(1..N) \X Nat -> Nat]
    BY <1>0 DEF LineLength
  <2>2. \A n \in 1..N, v \in Nat : step[<<n, v>>] = v + LineLength(2 + items[n])
    OBVIOUS
  <2> HIDE DEF step
  <2>3. PICK f \in [0..N -> Nat] : FollowsFrom(f, N, 0, step)
    BY <1>0, <2>1, Recursion
  <2>4. \A n \in 0..N : f[n] = IF n = 0 THEN 0 ELSE f[n - 1] + LineLength(2 + items[n])
    <3>1. \A n \in 0..N : n # 0 => n \in 1..N /\ n - 1 \in 0..N
      BY <1>0
    <3> QED
      BY <2>2, <2>3, <3>1 DEF FollowsFrom
  <2>5. f = [n \in 0..N |-> f[n]]
    OBVIOUS
  <2> QED
    BY <2>4, <2>5
<1>3. eqn(h)
  BY <1>2
<1>4. h[0] = 0 /\ \A n \in 1..N : h[n] = h[n - 1] + LineLength(2 + items[n])
  <2>1. 0 \in 0..N /\ \A n \in 1..N : n \in 0..N /\ n # 0
    BY <1>0
  <2> HIDE DEF h
  <2> QED
    BY <1>3, <2>1
<1> HIDE DEF h
<1>5. h[N] \in Nat
  <2> DEFINE I == {n \in 0..N : h[n] \in Nat}
  <2>1. 0 \in I
    BY <1>0, <1>4
  <2>2. ASSUME NEW n \in 1..N, n - 1 \in I PROVE n \in I
    <3>1. h[n - 1] \in Nat /\ h[n] = h[n - 1] + LineLength(2 + items[n]) /\ items[n] \in Nat
      BY <1>0, <1>4, <2>2
    <3>2. n \in 0..N
      BY <1>0
    <3> QED
      BY <3>1, <3>2 DEF LineLength
  <2> HIDE DEF I
  <2>3. 0..N \subseteq I
    BY <1>0, <2>1, <2>2, Induction
  <2> QED
    BY <1>0, <2>3 DEF I
<1>6. ASSUME NEW most \in Nat, \A k \in DOMAIN items : items[k] <= most
      PROVE  h[N] <= (most + 3) * N
  <2> DEFINE I == {n \in 0..N : h[n] \in Nat /\ h[n] <= (most + 3) * n}
  <2>1. 0 \in I
    BY <1>0, <1>4
  <2>2. ASSUME NEW n \in 1..N, n - 1 \in I PROVE n \in I
    <3>1. h[n - 1] \in Nat /\ h[n - 1] <= (most + 3) * (n - 1)
      BY <2>2
    <3>2. h[n] = h[n - 1] + (1 + (2 + items[n])) /\ items[n] \in Nat /\ items[n] <= most
      <4>1. items[n] \in Nat /\ items[n] <= most
        BY <1>0, <1>6
      <4>2. h[n] = h[n - 1] + (1 + (2 + items[n]))
        BY <1>4 DEF LineLength
      <4> QED
        BY <4>1, <4>2
    <3>3. (most + 3) * n = (most + 3) * (n - 1) + (most + 3)
      BY <1>0
    <3>4. (most + 3) * (n - 1) \in Int /\ n \in 0..N
      BY <1>0
    <3> DEFINE x == (most + 3) * (n - 1)
    <3>5. x \in Int /\ h[n - 1] \in Nat /\ h[n - 1] <= x /\ (most + 3) * n = x + (most + 3)
      BY <3>1, <3>3, <3>4, Zenon
    <3> HIDE DEF x
    <3>6. h[n] \in Nat /\ h[n] <= x + (most + 3)
      <4>1. \A a, i \in Nat, y \in Int : a <= y /\ i <= most =>
              a + (1 + (2 + i)) \in Nat /\ a + (1 + (2 + i)) <= y + (most + 3)
        OBVIOUS
      <4> QED
        BY <3>2, <3>5, <4>1, Zenon
    <3> QED
      BY <3>4, <3>5, <3>6, Zenon
  <2> HIDE DEF I
  <2>3. 0..N \subseteq I
    BY <1>0, <2>1, <2>2, Induction
  <2> QED
    BY <1>0, <2>3 DEF I
<1> QED
  BY <1>1, <1>5, <1>6 DEF N

-----------------------------------------------------------------------------
IsPost == post \in Layout /\ limit \in Nat /\ blanks \in Nat

LEMMA PostsAreLayouts == XPosts \cup LinkedInPosts \subseteq Layout
<1>1. Titles \subseteq Nat \ {0} /\ Urls \subseteq Nat
  BY DEF Titles, Urls
<1>2. ASSUME NEW pay \in {0, 6, 10}, NEW title \in Titles, NEW entry \in BOOLEAN,
             NEW url \in Urls, NEW tags \in {31, 67}
      PROVE  XLayout(pay, title, entry, url, tags) \in Layout
  BY <1>1 DEF XLayout, Layout, LineLength, Blank, WhenAny
<1>3. ASSUME NEW pay \in {0, 12}, NEW title \in Titles, NEW blurb \in {0, 160},
             NEW reqs \in {<< 18 >>, <<90, 90, 90>>, <<120, 120, 120>>}, NEW url \in Urls
      PROVE  LinkedInLayout(pay, title, blurb, reqs, url, 33) \in Layout
  <2>1. reqs \in Seq(Nat)
    <3>1. << 18 >> \in Seq(Nat) /\ <<90, 90, 90>> \in Seq(Nat) /\ <<120, 120, 120>> \in Seq(Nat)
      OBVIOUS
    <3>2. \/ reqs = << 18 >>
          \/ reqs = <<90, 90, 90>>
          \/ reqs = <<120, 120, 120>>
      BY <1>3, Zenon
    <3>3. CASE reqs = << 18 >>
      BY ONLY <3>1, <3>3
    <3>4. CASE reqs = <<90, 90, 90>>
      BY ONLY <3>1, <3>4
    <3>5. CASE reqs = <<120, 120, 120>>
      BY ONLY <3>1, <3>5
    <3> QED
      BY <3>2, <3>3, <3>4, <3>5, Zenon
  <2>2. Bullets(reqs) \in Nat
    BY <2>1, BulletsLength
  <2> QED
    BY <1>1, <2>2 DEF LinkedInLayout, Layout, LineLength, Blank, WhenAny
<1>4. XPosts \subseteq Layout
  BY <1>2 DEF XPosts
<1>5. LinkedInPosts \subseteq Layout
  BY <1>3 DEF LinkedInPosts
<1> QED
  BY <1>4, <1>5

LEMMA PostInvariant == Spec => []IsPost
<1>1. FirstPost \in Layout /\ MaxTweetLength \in Nat /\ MaxLinkedInLength \in Nat /\ 0..2 \subseteq Nat
  BY DEF FirstPost, XLayout, Layout, LineLength, Blank, WhenAny, MaxTweetLength, MaxLinkedInLength
<1>2. Init => IsPost
  BY <1>1 DEF Init, First, IsPost
<1>3. IsPost /\ [Next]_vars => IsPost'
  BY <1>1, PostsAreLayouts DEF IsPost, Next, vars, NewPost, NewCaption, Type, Describe, AddLine,
     NewCard, AddWord, StartOver
<1> QED
  BY <1>2, <1>3, PTL DEF Spec

(* What shortening makes of a post of length more + title: the title fills *)
(* the room that is left, but for blanks and never below two characters.   *)
LEMMA TitleLength ==
  ASSUME IsPost, NEW m, m = post.before + post.middle + post.rest, Length(post) > limit
  PROVE  LET t == Rebuilt(post, limit, blanks).title
         IN  /\ m \in Nat /\ t \in Nat /\ 2 <= t
             /\ Rebuilt(post, limit, blanks) = [post EXCEPT !.title = t]
             /\ m + 2 <= limit => m + t <= limit /\ limit - blanks <= m + t
             /\ m + 2 > limit => t = 2
<1>1. /\ post.before \in Nat /\ post.title \in Nat /\ post.middle \in Nat /\ post.rest \in Nat
      /\ limit \in Nat /\ blanks \in Nat
  BY DEF IsPost, Layout
<1>2. Length(post) = m + post.title
  BY <1>1 DEF Length, LinkEnd
<1> DEFINE keep == Keep(post, limit)
           t == Stripped(keep, blanks) + 1
<1>3. keep = IF limit - m - 1 < 1 THEN 1 ELSE limit - m - 1
  BY <1>1, <1>2 DEF Keep
<1>4. Rebuilt(post, limit, blanks) = [post EXCEPT !.title = t]
  BY DEF Rebuilt, Shortened
<1>5. [post EXCEPT !.title = t].title = t
  BY DEF IsPost, Layout
<1> HIDE DEF keep
<1>6. /\ m \in Nat /\ t \in Nat /\ 2 <= t
      /\ m + 2 <= limit => m + t <= limit /\ limit - blanks <= m + t
      /\ m + 2 > limit => t = 2
  BY <1>1, <1>3 DEF Stripped
<1> HIDE DEF t
<1> QED
  BY <1>4, <1>5, <1>6

(* What a post is with a title of n characters.                            *)
LEMMA WithTitle ==
  ASSUME IsPost, NEW n \in Nat
  PROVE  /\ Length([post EXCEPT !.title = n]) = post.before + post.middle + post.rest + n
         /\ LinkEnd([post EXCEPT !.title = n]) = post.before + post.middle + n
         /\ Length(post) = post.before + post.middle + post.rest + post.title
         /\ LinkEnd(post) = post.before + post.middle + post.title
         /\ {post.before, post.middle, post.rest, post.title} \subseteq Nat
<1>1. /\ post.before \in Nat /\ post.title \in Nat /\ post.middle \in Nat /\ post.rest \in Nat
  BY DEF IsPost, Layout
<1>2. LET p == [post EXCEPT !.title = n]
      IN  p.before = post.before /\ p.title = n /\ p.middle = post.middle /\ p.rest = post.rest
  BY DEF IsPost, Layout
<1> QED
  BY <1>1, <1>2 DEF Length, LinkEnd

(* _shorten_title cuts no post shorter than it has to be, of any lengths.  *)
THEOREM TitleCutIsExact == ASSUME IsPost PROVE CutIsExact
<1> DEFINE m == post.before + post.middle + post.rest
           built == Rebuilt(post, limit, blanks)
           t == built.title
<1>0. m = post.before + post.middle + post.rest
  OBVIOUS
<1> SUFFICES ASSUME Length(post) > limit, Length([post EXCEPT !.title = 2]) <= limit
             PROVE  Length(built) <= limit /\ Length(built) >= limit - blanks
  BY DEF CutIsExact
<1>1. /\ m \in Nat /\ t \in Nat /\ built = [post EXCEPT !.title = t]
      /\ m + 2 <= limit => m + t <= limit /\ limit - blanks <= m + t
  BY TitleLength
<1>2. m + 2 <= limit
  BY <1>1, WithTitle
<1>3. Length(built) = m + t
  BY <1>1, WithTitle
<1>4. limit \in Nat /\ blanks \in Nat
  BY DEF IsPost
<1> HIDE DEF m, built, t
<1> QED
  BY <1>1, <1>2, <1>3, <1>4

(* The apply link of any post is whole whenever there is room for it: what *)
(* is cut at the limit comes after it.                                     *)
THEOREM LinkStaysWhole == ASSUME IsPost PROVE LinkIsWhole
<1> DEFINE m == post.before + post.middle + post.rest
           built == Rebuilt(post, limit, blanks)
           t == built.title
<1> SUFFICES ASSUME LinkEnd([post EXCEPT !.title = 2]) <= limit
             PROVE  LinkEnd(built) <= ContentLength(post, limit, blanks)
  BY DEF LinkIsWhole
<1>0. limit \in Nat /\ blanks \in Nat
  BY DEF IsPost
<1>1. CASE Length(post) > limit
  <2>1. /\ m \in Nat /\ t \in Nat /\ built = [post EXCEPT !.title = t]
        /\ m + 2 <= limit => m + t <= limit
        /\ m + 2 > limit => t = 2
    BY <1>1, TitleLength
  <2> HIDE DEF built, t
  <2>2. Length(built) = m + t /\ LinkEnd(built) = post.before + post.middle + t
    BY <2>1, WithTitle
  <2>3. post.before \in Nat /\ post.middle \in Nat /\ post.rest \in Nat
    BY WithTitle
  <2>4. post.before + post.middle + 2 <= limit
    BY WithTitle
  <2>5. LinkEnd(built) <= limit
    BY <1>0, <2>1, <2>2, <2>3, <2>4
  <2>6. LinkEnd(built) <= Length(built) /\ LinkEnd(built) \in Nat /\ Length(built) \in Nat
    BY <2>1, <2>2, <2>3
  <2>7. ContentLength(post, limit, blanks) =
          IF Length(built) > limit THEN limit ELSE Length(built)
    BY DEF ContentLength, built
  <2> QED
    BY <1>0, <2>5, <2>6, <2>7
<1>2. CASE ~(Length(post) > limit)
  <2>1. built = post
    BY <1>2 DEF Rebuilt
  <2>2. LinkEnd(post) <= Length(post) /\ LinkEnd(post) \in Nat /\ Length(post) \in Nat
    <3>1. /\ Length(post) = post.before + post.middle + post.rest + post.title
          /\ LinkEnd(post) = post.before + post.middle + post.title
          /\ {post.before, post.middle, post.rest, post.title} \subseteq Nat
      <4>1. 2 \in Nat
        OBVIOUS
      <4> QED
        BY <4>1, WithTitle
    <3>2. post.before \in Nat /\ post.middle \in Nat /\ post.rest \in Nat /\ post.title \in Nat
      BY <3>1
    <3> QED
      BY <3>1, <3>2
  <2> QED
    BY <1>0, <1>2, <2>1, <2>2 DEF ContentLength
<1> QED
  BY <1>1, <1>2

(* Both hold of every post the formatters may lay out.                     *)
THEOREM PostsFit == Spec => [](CutIsExact /\ LinkIsWhole)
<1>1. IsPost => CutIsExact /\ LinkIsWhole
  BY TitleCutIsExact, LinkStaysWhole
<1> QED
  BY <1>1, PostInvariant, PTL

-----------------------------------------------------------------------------
(* The texts of a caption but its title, as long as they get at the most.  *)
IsCaption ==
  /\ {caption.title, caption.company, caption.pay, caption.blurb, caption.url,
      caption.wide} \subseteq Nat
  /\ caption.company <= 40 /\ caption.pay <= 25 /\ caption.blurb <= 160
  /\ caption.requirements \in Seq(Nat) /\ Len(caption.requirements) <= 4
  /\ \A k \in DOMAIN caption.requirements : caption.requirements[k] <= 60

LEMMA CaptionInvariant == Spec => []IsCaption
<1> DEFINE Lists == {<< 18 >>, <<8, 60>>, <<60, 60, 60, 60>>}
<1>1. \A r \in Lists :
        r \in Seq(Nat) /\ Len(r) <= 4 /\ \A k \in DOMAIN r : r[k] <= 60
  <2>1. /\ << 18 >> \in Seq(Nat) /\ Len(<< 18 >>) <= 4
        /\ \A k \in DOMAIN << 18 >> : << 18 >>[k] <= 60
    OBVIOUS
  <2>2. /\ <<8, 60>> \in Seq(Nat) /\ Len(<<8, 60>>) <= 4
        /\ \A k \in DOMAIN <<8, 60>> : <<8, 60>>[k] <= 60
    OBVIOUS
  <2>3. /\ <<60, 60, 60, 60>> \in Seq(Nat) /\ Len(<<60, 60, 60, 60>>) <= 4
        /\ \A k \in DOMAIN <<60, 60, 60, 60>> : <<60, 60, 60, 60>>[k] <= 60
    OBVIOUS
  <2> QED
    BY <2>1, <2>2, <2>3
<1>2. ASSUME NEW c \in Captions
      PROVE  /\ {c.title, c.company, c.pay, c.blurb, c.url, c.wide} \subseteq Nat
             /\ c.company <= 40 /\ c.pay <= 25 /\ c.blurb <= 160
             /\ c.requirements \in Lists
  BY DEF Captions, LongTitle
<1>3. FirstCaption \in Captions
  BY DEF FirstCaption, Captions
<1> HIDE DEF Lists
<1>4. caption \in Captions => IsCaption
  <2> SUFFICES ASSUME caption \in Captions PROVE IsCaption
    OBVIOUS
  <2>1. /\ {caption.title, caption.company, caption.pay, caption.blurb, caption.url,
            caption.wide} \subseteq Nat
        /\ caption.company <= 40 /\ caption.pay <= 25 /\ caption.blurb <= 160
        /\ caption.requirements \in Lists
    BY <1>2
  <2>2. /\ caption.requirements \in Seq(Nat) /\ Len(caption.requirements) <= 4
        /\ \A k \in DOMAIN caption.requirements : caption.requirements[k] <= 60
    BY <1>1, <2>1, Zenon
  <2> QED
    BY <2>1, <2>2, Zenon DEF IsCaption
<1> DEFINE Given == caption \in Captions
<1>5. Init => Given
  BY <1>3 DEF Init, First
<1>6. Given /\ [Next]_vars => Given'
  BY <1>3 DEF Next, vars, NewPost, NewCaption, Type, Describe, AddLine,
     NewCard, AddWord, StartOver
<1>7. Given => IsCaption
  BY <1>4
<1> HIDE DEF Given
<1> QED
  BY <1>5, <1>6, <1>7, PTL DEF Spec

(* A caption of those texts passes Telegram's limit by its title and its   *)
(* wide characters alone, whatever the address of its link.                *)
LEMMA OnlyTheTitleIsLong == ASSUME IsCaption PROVE CaptionFits
<1> DEFINE bullets == Bullets(caption.requirements)
<1>1. bullets \in Nat /\ bullets <= 252
  <2>1. Len(caption.requirements) \in Nat /\ Len(caption.requirements) <= 4
    BY LenProperties DEF IsCaption
  <2>2. bullets \in Nat /\ bullets <= (60 + 3) * Len(caption.requirements)
    <3>1. 60 \in Nat
      OBVIOUS
    <3> QED
      BY <3>1, BulletsLength DEF IsCaption
  <2> HIDE DEF bullets
  <2> QED
    BY <2>1, <2>2
<1> DEFINE company == WhenAny(caption.company, LineLength(3 + caption.company))
           blurb == WhenAny(caption.blurb, Blank + LineLength(caption.blurb))
           url == WhenAny(caption.url, Blank + LinkText(caption.url))
<1>2. caption.title \in Nat /\ caption.wide \in Nat /\ caption.pay \in Nat /\ caption.pay <= 25
  BY DEF IsCaption
<1>3. company \in Nat /\ company <= 44
  <2>1. caption.company \in Nat /\ caption.company <= 40
    BY DEF IsCaption
  <2> QED
    BY <2>1 DEF WhenAny, LineLength
<1>4. blurb \in Nat /\ blurb <= 162
  <2>1. caption.blurb \in Nat /\ caption.blurb <= 160
    BY DEF IsCaption
  <2> QED
    BY <2>1 DEF WhenAny, LineLength, Blank
<1>5. url \in Nat /\ url <= 15
  BY DEF WhenAny, LineLength, Blank, LinkText
<1>6. CaptionLength(caption) =
        3 + caption.title + company + Blank + LineLength(8 + caption.pay) + LineLength(19)
        + blurb + Blank + LineLength(15) + bullets + url + Blank + LineLength(9) + caption.wide
  BY DEF CaptionLength
<1> HIDE DEF bullets, company, blurb, url
<1>7. CaptionLength(caption) \in Nat /\ CaptionLength(caption) <= 559 + caption.title + caption.wide
  BY <1>1, <1>2, <1>3, <1>4, <1>5, <1>6 DEF LineLength, Blank
<1> QED
  BY <1>2, <1>7 DEF CaptionFits, MaxCaptionLength, LongTitle

(* Of the captions that a post may get, only those are refused whose title *)
(* and wide characters come to far more than boards give: the summary      *)
(* bounds the rest.                                                        *)
THEOREM CaptionsFit == Spec => []CaptionFits
BY CaptionInvariant, OnlyTheTitleIsLong, PTL

-----------------------------------------------------------------------------
(***************************************************************************)
(* The items of a description: of the loops of _extract_items and of what  *)
(* comes out of them.                                                      *)
(***************************************************************************)

(* Keeping some of the items goes through one after the other.             *)
LEMMA KeptIs ==
  ASSUME NEW A, NEW S
  PROVE  /\ \A items \in Seq(A) : Kept(items, S) \in Seq(A)
         /\ \A items, more \in Seq(A) :
              Kept(items \o more, S) = Kept(items, S) \o Kept(more, S)
<1> DEFINE F == [x \in A |-> IF x \in S THEN <<x>> ELSE << >>]
<1>1. Spreads(F, A, A)
  BY DEF Spreads
<1>2. ASSUME NEW s \in Seq(A) PROVE Kept(s, S) = Spread(s, F)
  <2>1. \A k \in DOMAIN s : s[k] \in A
    OBVIOUS
  <2>2. [k \in DOMAIN s |-> F[s[k]]]
          = [k \in DOMAIN s |-> IF s[k] \in S THEN <<s[k]>> ELSE << >>]
    BY <2>1
  <2> QED
    BY <2>2 DEF Kept, Spread
<1> SUFFICES ASSUME NEW items, NEW more, items \in Seq(A), more \in Seq(A)
             PROVE  /\ Kept(items, S) \in Seq(A)
                    /\ Kept(items \o more, S) = Kept(items, S) \o Kept(more, S)
  OBVIOUS
<1>3. items \o more \in Seq(A)
  OBVIOUS
<1> HIDE DEF F
<1>4. /\ Spread(items, F) \in Seq(A)
      /\ Spread(Joined(items, more), F) = Joined(Spread(items, F), Spread(more, F))
  BY <1>1, SpreadJoined
<1> QED
  BY <1>2, <1>3, <1>4 DEF Joined

LEMMA KeptOne ==
  ASSUME NEW A, NEW S, NEW x \in A
  PROVE  Kept(<<x>>, S) = (IF x \in S THEN <<x>> ELSE << >>)
<1> DEFINE kept == IF x \in S THEN <<x>> ELSE << >>
<1>1. [k \in DOMAIN <<x>> |-> IF <<x>>[k] \in S THEN <<(<<x>>[k])>> ELSE << >>] = <<kept>>
  OBVIOUS
<1>2. kept \in Seq(A)
  OBVIOUS
<1> HIDE DEF kept
<1>3. FlattenSeq(<<kept>>) = kept
  BY <1>2, FlattenOne
<1> QED
  BY <1>1, <1>3 DEF Kept, kept

LEMMA KeptNothing ==
  ASSUME NEW S
  PROVE  Kept(<< >>, S) = << >>
<1>1. [k \in DOMAIN << >> |-> IF << >>[k] \in S THEN <<(<< >>[k])>> ELSE << >>] = << >>
  OBVIOUS
<1> QED
  BY <1>1, FlattenEmpty DEF Kept

(* One more item counts while there are too few of them.                   *)
LEMMA FirstOfAppend ==
  ASSUME NEW A, NEW s \in Seq(A), NEW x \in A, NEW n \in Nat
  PROVE  LET first == FirstOf(s, n)
         IN  /\ first \in Seq(A) /\ Len(first) <= n
             /\ FirstOf(Append(s, x), n) = IF Len(first) < n THEN Append(first, x) ELSE first
<1> DEFINE first == FirstOf(s, n)
           t == Append(s, x)
<1>1. Len(s) \in Nat /\ t \in Seq(A) /\ Len(t) = Len(s) + 1 /\ t[Len(s) + 1] = x
      /\ \A k \in 1..Len(s) : t[k] = s[k]
  BY AppendProperties, LenProperties
<1>2. CASE Len(s) < n
  <2>1. first = SubSeq(s, 1, Len(s)) /\ FirstOf(t, n) = SubSeq(t, 1, Len(t))
    <3>1. Len(t) < n \/ Len(t) = n
      BY <1>1, <1>2
    <3> QED
      BY <1>2, <3>1 DEF FirstOf
  <2>2. first = s /\ FirstOf(t, n) = t
    BY <1>1, <2>1
  <2> QED
    BY <1>1, <1>2, <2>2
<1>3. CASE ~(Len(s) < n)
  <2>1. first = SubSeq(s, 1, n) /\ FirstOf(t, n) = SubSeq(t, 1, n)
    <3>1. ~(Len(t) < n)
      BY <1>1, <1>3
    <3> QED
      BY <1>3, <3>1 DEF FirstOf
  <2> HIDE DEF t, first
  <2>2. n <= Len(s) /\ n <= Len(t) /\ \A k \in 1..n : k \in 1..Len(s)
    BY <1>1, <1>3
  <2>3. first \in Seq(A) /\ Len(first) = n /\ \A k \in 1..n : first[k] = s[k]
    BY <2>1, <2>2
  <2>4. /\ FirstOf(t, n) \in Seq(A) /\ Len(FirstOf(t, n)) = n
        /\ \A k \in 1..n : FirstOf(t, n)[k] = t[k]
    BY <1>1, <2>1, <2>2
  <2>5. FirstOf(t, n) = first
    BY <1>1, <2>2, <2>3, <2>4, SeqEqual
  <2> QED
    BY <2>3, <2>5 DEF first, t
<1> QED
  BY <1>1, <1>2, <1>3

(* A sequence and one that goes on where it ends.                          *)
Extended(s, t, A) == s \in Seq(A) /\ \E u \in Seq(A) : t = s \o u

(* Of a longer sequence, what is kept begins with what was kept before.    *)
LEMMA KeptExtended ==
  ASSUME NEW A, NEW S, NEW s, NEW t, Extended(s, t, A)
  PROVE  Extended(Kept(s, S), Kept(t, S), A)
<1>1. PICK u \in Seq(A) : s \in Seq(A) /\ t = s \o u
  BY DEF Extended
<1>2. /\ Kept(s, S) \in Seq(A) /\ Kept(u, S) \in Seq(A)
      /\ Kept(t, S) = Kept(s, S) \o Kept(u, S)
  BY <1>1, KeptIs
<1> QED
  BY <1>2 DEF Extended

(* What there was room for stays first when more comes after it.           *)
LEMMA FirstOfExtended ==
  ASSUME NEW A, NEW s, NEW all, Extended(s, all, A), NEW n \in Nat
  PROVE  Extended(FirstOf(s, n), FirstOf(all, n), A)
<1>0. PICK t \in Seq(A) : s \in Seq(A) /\ all = s \o t
  BY DEF Extended
<1> DEFINE first == FirstOf(s, n)
           some == FirstOf(all, n)
           M == Len(first)
           u == SubSeq(some, M + 1, Len(some))
<1>1. /\ Len(s) \in Nat /\ Len(t) \in Nat /\ all \in Seq(A) /\ Len(all) = Len(s) + Len(t)
      /\ \A k \in 1..Len(s) : all[k] = s[k]
  <2>1. /\ Len(s) \in Nat /\ Len(t) \in Nat /\ all \in Seq(A) /\ Len(all) = Len(s) + Len(t)
        /\ \A k \in 1..(Len(s) + Len(t)) : all[k] = IF k <= Len(s) THEN s[k] ELSE t[k - Len(s)]
    BY <1>0, ConcatProperties, LenProperties
  <2>2. \A k \in 1..Len(s) : k \in 1..(Len(s) + Len(t)) /\ k <= Len(s)
    BY <2>1
  <2> QED
    BY <2>1, <2>2
<1>2. ASSUME NEW v \in Seq(A)
      PROVE  \E m \in Nat : /\ m = (IF Len(v) < n THEN Len(v) ELSE n) /\ FirstOf(v, n) \in Seq(A)
                            /\ Len(FirstOf(v, n)) = m /\ \A k \in 1..m : FirstOf(v, n)[k] = v[k]
  <2> DEFINE m == IF Len(v) < n THEN Len(v) ELSE n
  <2>1. m \in Nat /\ m <= Len(v) /\ Len(v) \in Nat
    BY LenProperties
  <2>2. FirstOf(v, n) = SubSeq(v, 1, m)
    BY DEF FirstOf
  <2> HIDE DEF m
  <2>3. \A k \in 1..m : k \in 1..Len(v)
    BY <2>1
  <2>4. SubSeq(v, 1, m) \in Seq(A) /\ Len(SubSeq(v, 1, m)) = m
        /\ \A k \in 1..m : SubSeq(v, 1, m)[k] = v[k]
    BY <2>1, <2>3
  <2> QED
    BY <2>1, <2>2, <2>4 DEF m
<1> HIDE DEF first, some
<1>3. /\ first \in Seq(A) /\ M \in Nat /\ M <= Len(s) /\ \A k \in 1..M : first[k] = s[k]
      /\ M = IF Len(s) < n THEN Len(s) ELSE n
  <2>1. PICK m \in Nat : /\ m = (IF Len(s) < n THEN Len(s) ELSE n) /\ first \in Seq(A)
                         /\ Len(first) = m /\ \A k \in 1..m : first[k] = s[k]
    BY <1>0, <1>2 DEF first
  <2>2. m <= Len(s)
    BY <1>1, <2>1
  <2> QED
    BY <2>1, <2>2
<1>4. /\ some \in Seq(A) /\ Len(some) \in Nat /\ \A k \in 1..Len(some) : some[k] = all[k]
      /\ Len(some) = IF Len(all) < n THEN Len(all) ELSE n
  BY <1>1, <1>2 DEF some
<1>5. M <= Len(some)
  BY <1>1, <1>3, <1>4
<1> HIDE DEF M
<1>6. u \in Seq(A) /\ Len(u) = Len(some) - M /\ \A k \in 1..(Len(some) - M) : u[k] = some[M + k]
  <2>1. \A k \in (M + 1)..Len(some) : k \in 1..Len(some)
    BY <1>3, <1>4
  <2>2. u \in Seq(A) /\ Len(u) = Len(some) - M
        /\ \A k \in 1..(Len(some) - M) : u[k] = some[(M + 1) + k - 1]
    <3>1. some \in Seq(A) /\ M + 1 \in Int /\ Len(some) \in Int
      BY <1>3, <1>4
    <3>2. u \in Seq(A) /\ Len(u) = (IF M + 1 <= Len(some) THEN Len(some) - (M + 1) + 1 ELSE 0)
          /\ \A k \in 1..(Len(some) - (M + 1) + 1) : u[k] = some[(M + 1) + k - 1]
      BY <2>1, <3>1, SubSeqProperties
    <3>3. Len(some) - (M + 1) + 1 = Len(some) - M
          /\ (~(M + 1 <= Len(some)) => Len(some) - M = 0)
      BY <1>3, <1>4, <1>5
    <3> QED
      BY <3>2, <3>3
  <2>3. \A k \in 1..(Len(some) - M) : (M + 1) + k - 1 = M + k
    BY <1>3
  <2> QED
    BY <2>2, <2>3
<1> HIDE DEF u
<1>7. /\ first \o u \in Seq(A) /\ Len(first \o u) = Len(some)
      /\ \A k \in 1..Len(some) : (first \o u)[k] = IF k <= M THEN first[k] ELSE u[k - M]
  <2>1. /\ first \o u \in Seq(A) /\ Len(first \o u) = Len(first) + Len(u)
        /\ \A k \in 1..(Len(first) + Len(u)) :
             (first \o u)[k] = IF k <= Len(first) THEN first[k] ELSE u[k - Len(first)]
    <3>1. first \in Seq(A) /\ u \in Seq(A)
      BY <1>3, <1>6
    <3> QED
      BY <3>1, ConcatProperties
  <2>2. Len(first) + Len(u) = Len(some) /\ Len(first) = M
    BY <1>3, <1>4, <1>6 DEF M
  <2> QED
    BY <2>1, <2>2
<1>8. ASSUME NEW k \in 1..Len(some) PROVE some[k] = (first \o u)[k]
  <2>1. CASE k <= M
    <3>1. k \in 1..M /\ k \in 1..Len(s)
      BY <1>1, <1>3, <1>4, <2>1
    <3>2. some[k] = all[k] /\ all[k] = s[k] /\ first[k] = s[k]
      BY <1>1, <1>3, <1>4, <3>1
    <3> QED
      BY <1>7, <2>1, <3>2
  <2>2. CASE ~(k <= M)
    <3>1. k - M \in 1..(Len(some) - M) /\ M + (k - M) = k
      BY <1>3, <1>4, <2>2
    <3> QED
      BY <1>6, <1>7, <2>2, <3>1
  <2> QED
    BY <2>1, <2>2
<1>9. some = first \o u
  BY <1>4, <1>7, <1>8, SeqEqual
<1> QED
  BY <1>3, <1>6, <1>9 DEF Extended, first, some

-----------------------------------------------------------------------------
(* The loop over the fragments of a line: the first of those kept.         *)
LEMMA TakeUntilIs ==
  ASSUME NEW A, NEW pieces \in Seq(A), NEW clean, NEW max \in Nat
  PROVE  TakeUntil(pieces, clean, max) = FirstOf(Kept(pieces, clean), max)
<1> DEFINE N == Len(pieces)
           eqn(f) == f = [n \in 0..N |->
                           IF n = 0 THEN << >>
                           ELSE IF pieces[n] \in clean /\ Len(f[n - 1]) < max
                           THEN Append(f[n - 1], pieces[n]) ELSE f[n - 1]]
           h == CHOOSE f : eqn(f)
           taken(n) == FirstOf(Kept(SubSeq(pieces, 1, n), clean), max)
           I == {n \in 0..N : h[n] = taken(n)}
<1>0. N \in Nat /\ (\A n \in 1..N : pieces[n] \in A) /\ SubSeq(pieces, 1, N) = pieces
  BY LenProperties, ElementOfSeq
<1>1. TakeUntil(pieces, clean, max) = h[N]
  BY DEF TakeUntil
<1>2. ASSUME NEW n \in 1..N
      PROVE  SubSeq(pieces, 1, n) = SubSeq(pieces, 1, n - 1) \o <<pieces[n]>>
             /\ SubSeq(pieces, 1, n - 1) \in Seq(A)
  BY OneByOne DEF Joined
<1> HIDE DEF N
<1>3. \E f : eqn(f)
  <2> DEFINE step == [x \in (1..N) \X Seq(A) |->
                       IF pieces[x[1]] \in clean /\ Len(x[2]) < max
                       THEN Append(x[2], pieces[x[1]]) ELSE x[2]]
  <2>1. step \in [(1..N) \X Seq(A) -> Seq(A)]
    <3>1. ASSUME NEW x \in (1..N) \X Seq(A)
          PROVE  (IF pieces[x[1]] \in clean /\ Len(x[2]) < max
                  THEN Append(x[2], pieces[x[1]]) ELSE x[2]) \in Seq(A)
      <4>1. x[2] \in Seq(A) /\ pieces[x[1]] \in A
        BY <1>0
      <4> QED
        BY <4>1, AppendProperties
    <3> QED
      BY <3>1
  <2>2. \A n \in 1..N, v \in Seq(A) :
          step[<<n, v>>] = IF pieces[n] \in clean /\ Len(v) < max THEN Append(v, pieces[n]) ELSE v
    OBVIOUS
  <2>3. << >> \in Seq(A)
    OBVIOUS
  <2> HIDE DEF step
  <2>4. PICK f \in [0..N -> Seq(A)] : FollowsFrom(f, N, << >>, step)
    BY <1>0, <2>1, <2>3, Recursion
  <2>5. \A n \in 0..N : f[n] = IF n = 0 THEN << >>
                               ELSE IF pieces[n] \in clean /\ Len(f[n - 1]) < max
                               THEN Append(f[n - 1], pieces[n]) ELSE f[n - 1]
    <3>1. \A n \in 0..N : n # 0 => n \in 1..N /\ n - 1 \in 0..N
      BY <1>0
    <3>2. f[0] = << >>
      BY <2>4 DEF FollowsFrom
    <3>3. ASSUME NEW n \in 1..N, n - 1 \in 0..N
          PROVE  f[n] = IF pieces[n] \in clean /\ Len(f[n - 1]) < max
                        THEN Append(f[n - 1], pieces[n]) ELSE f[n - 1]
      <4>1. f[n] = step[<<n, f[n - 1]>>]
        BY <2>4 DEF FollowsFrom
      <4>2. f[n - 1] \in Seq(A)
        BY <2>4, <3>3
      <4> QED
        BY <2>2, <4>1, <4>2
    <3> QED
      BY <3>1, <3>2, <3>3
  <2>6. f = [n \in 0..N |-> f[n]]
    OBVIOUS
  <2> QED
    BY <2>5, <2>6
<1>4. eqn(h)
  BY <1>3
<1>5. h[0] = << >> /\ \A n \in 1..N :
        h[n] = IF pieces[n] \in clean /\ Len(h[n - 1]) < max
               THEN Append(h[n - 1], pieces[n]) ELSE h[n - 1]
  <2>1. 0 \in 0..N /\ \A n \in 1..N : n \in 0..N /\ n # 0
    BY <1>0
  <2> HIDE DEF h
  <2> QED
    BY <1>4, <2>1
<1> HIDE DEF h
<1>6. 0 \in I
  <2>1. SubSeq(pieces, 1, 0) = << >> /\ 0 \in 0..N
    BY <1>0, SubSeqEmpty
  <2>2. FirstOf(<< >>, max) = << >>
    BY SubSeqEmpty DEF FirstOf
  <2>3. taken(0) = << >>
    BY <2>1, <2>2, KeptNothing
  <2> QED
    BY <1>5, <2>1, <2>3
<1>7. ASSUME NEW n \in 1..N, n - 1 \in I PROVE n \in I
  <2> DEFINE before == SubSeq(pieces, 1, n - 1)
             x == pieces[n]
             kept == Kept(before, clean)
             one == <<x>>
  <2>1. before \in Seq(A) /\ x \in A /\ SubSeq(pieces, 1, n) = before \o one /\ n \in 0..N
    BY <1>0, <1>2
  <2>2. one \in Seq(A)
    BY <2>1
  <2>3. Kept(one, clean) = IF x \in clean THEN one ELSE << >>
    BY <2>1, KeptOne
  <2>4. h[n - 1] = FirstOf(kept, max)
    BY <1>7
  <2>20. taken(n) = FirstOf(Kept(before \o one, clean), max)
    BY <2>1
  <2> HIDE DEF before, one, taken
  <2>5. kept \in Seq(A) /\ Kept(before \o one, clean) = kept \o Kept(one, clean)
    <3>1. before \in Seq(A) /\ one \in Seq(A)
      BY <2>1, <2>2
    <3>2. Kept(before, clean) \in Seq(A)
             /\ Kept(before \o one, clean) = Kept(before, clean) \o Kept(one, clean)
      BY <3>1, KeptIs
    <3> QED
      BY <3>2
  <2> HIDE DEF kept, x
  <2>6. CASE x \in clean
    <3>1. Kept(before \o one, clean) = Append(kept, x)
      BY <2>1, <2>3, <2>5, <2>6, AppendIsConcat DEF one
    <3>2. taken(n) = IF Len(FirstOf(kept, max)) < max
                     THEN Append(FirstOf(kept, max), x) ELSE FirstOf(kept, max)
      BY <2>1, <2>20, <2>5, <3>1, FirstOfAppend
    <3>3. h[n] = taken(n)
      BY <1>5, <2>4, <2>6, <3>2 DEF x
    <3> QED
      BY <2>1, <3>3
  <2>7. CASE x \notin clean
    <3>1. kept \o << >> = kept
      BY <2>5
    <3>2. Kept(before \o one, clean) = kept
      BY <2>3, <2>5, <2>7, <3>1
    <3>3. h[n] = taken(n)
      BY <1>5, <2>4, <2>7, <2>20, <3>2 DEF x
    <3> QED
      BY <2>1, <3>3
  <2> QED
    BY <2>6, <2>7
<1> HIDE DEF I
<1>8. N \in I
  <2>1. 0..N \subseteq I
    BY <1>0, <1>6, <1>7, Induction
  <2> QED
    BY <1>0, <2>1
<1>9. h[N] = taken(N)
  BY <1>8 DEF I
<1>10. SubSeq(pieces, 1, N) = pieces
  BY <1>0
<1> HIDE DEF N
<1> QED
  BY <1>1, <1>9, <1>10

-----------------------------------------------------------------------------
ChunkOf(A) == [text : A, marks : SUBSET Mark]
LineOf(A) == [section : Section, colon : BOOLEAN,
              pieces : Seq(A), untitled : Seq(A), chunks : Seq(ChunkOf(A))]

(* Of a section, a line has what comes after the colon or is on it.        *)
Part(lines, n, section) ==
  IF Capturing(lines, n, section) THEN Content(lines, n) ELSE << >>

LEMMA PartType ==
  ASSUME NEW A, NEW lines \in Seq(LineOf(A)), NEW n \in 1..Len(lines), NEW section
  PROVE  Part(lines, n, section) \in Seq(A)
<1>1. lines[n] \in LineOf(A)
  BY ElementOfSeq
<1>2. lines[n].pieces \in Seq(A) /\ lines[n].untitled \in Seq(A) /\ << >> \in Seq(A)
  BY <1>1 DEF LineOf
<1>3. Content(lines, n) \in {lines[n].pieces, lines[n].untitled, << >>}
  BY DEF Content
<1> QED
  BY <1>2, <1>3 DEF Part

(* Lines that come later change nothing.                                   *)
LEMMA PartOfBefore ==
  ASSUME NEW lines, NEW others, NEW n \in Nat, NEW section,
         \A k \in 1..n : lines[k] = others[k]
  PROVE  /\ Capturing(lines, n, section) <=> Capturing(others, n, section)
         /\ n # 0 => Part(lines, n, section) = Part(others, n, section)
<1>1. Capturing(lines, n, section) <=> Capturing(others, n, section)
  <2>1. \A k \in 1..n : \A m \in (k + 1)..n : m \in 1..n
    OBVIOUS
  <2>2. \A k \in 1..n : /\ lines[k].section = others[k].section
                        /\ IsHeader(lines[k]) <=> IsHeader(others[k])
    OBVIOUS
  <2>3. ASSUME Capturing(lines, n, section) PROVE Capturing(others, n, section)
    <3>1. PICK k \in 1..n : /\ lines[k].section = section
                            /\ \A m \in (k + 1)..n : ~IsHeader(lines[m])
      BY <2>3 DEF Capturing
    <3>2. others[k].section = section /\ \A m \in (k + 1)..n : ~IsHeader(others[m])
      BY <2>1, <2>2, <3>1
    <3> QED
      BY <3>2 DEF Capturing
  <2>4. ASSUME Capturing(others, n, section) PROVE Capturing(lines, n, section)
    <3>1. PICK k \in 1..n : /\ others[k].section = section
                            /\ \A m \in (k + 1)..n : ~IsHeader(others[m])
      BY <2>4 DEF Capturing
    <3>2. lines[k].section = section /\ \A m \in (k + 1)..n : ~IsHeader(lines[m])
      BY <2>1, <2>2, <3>1
    <3> QED
      BY <3>2 DEF Capturing
  <2> QED
    BY <2>3, <2>4
<1>2. ASSUME n # 0 PROVE Content(lines, n) = Content(others, n)
  <2>1. n \in 1..n /\ (n > 1 => n - 1 \in 1..n)
    BY <1>2
  <2>2. lines[n] = others[n] /\ (n > 1 => lines[n - 1] = others[n - 1])
    BY <2>1
  <2> QED
    BY <2>2 DEF Content
<1> QED
  BY <1>1, <1>2 DEF Part

(* The items of a section, one line after the other.                       *)
LEMMA SectionItemsStep ==
  ASSUME NEW A, NEW lines \in Seq(LineOf(A)), NEW n \in 1..Len(lines), NEW section
  PROVE  LET upTo(k) == SubSeq(lines, 1, k)
         IN  /\ SectionItems(upTo(n), section)
                  = SectionItems(upTo(n - 1), section) \o Part(lines, n, section)
             /\ SectionItems(upTo(n - 1), section) \in Seq(A)
<1> DEFINE parts(k) == [i \in 1..k |-> Part(lines, i, section)]
<1>0. Len(lines) \in Nat /\ n \in Nat /\ n - 1 \in Nat /\ n <= Len(lines)
  BY LenProperties
<1>1. ASSUME NEW k \in Nat, k <= Len(lines)
      PROVE  /\ SectionItems(SubSeq(lines, 1, k), section) = FlattenSeq(parts(k))
             /\ parts(k) \in Seq(Seq(A)) /\ Len(parts(k)) = k
  <2> DEFINE first == SubSeq(lines, 1, k)
  <2>1. /\ first \in Seq(LineOf(A)) /\ Len(first) = k /\ DOMAIN first = 1..k
        /\ \A i \in 1..k : first[i] = lines[i]
    <3>1. \A i \in 1..k : lines[i] \in LineOf(A)
      BY <1>0, <1>1, ElementOfSeq
    <3> QED
      BY <1>1, <3>1, SubSeqProperties
  <2> HIDE DEF first
  <2>2. ASSUME NEW i \in 1..k PROVE Part(first, i, section) = Part(lines, i, section)
    <3>1. i \in Nat /\ i # 0 /\ \A j \in 1..i : j \in 1..k
      OBVIOUS
    <3>2. \A j \in 1..i : first[j] = lines[j]
      BY <2>1, <3>1
    <3> QED
      BY <3>1, <3>2, PartOfBefore
  <2>3. SectionItems(first, section) = FlattenSeq([i \in DOMAIN first |-> Part(first, i, section)])
    BY DEF SectionItems, Part
  <2>4. [i \in DOMAIN first |-> Part(first, i, section)] = parts(k)
    BY <2>1, <2>2
  <2>5. ASSUME NEW i \in 1..k PROVE Part(lines, i, section) \in Seq(A)
    <3>1. i \in 1..Len(lines)
      BY <1>0, <1>1
    <3> QED
      BY <3>1, PartType
  <2>6. parts(k) \in [1..k -> Seq(A)]
    BY <2>5
  <2>7. parts(k) \in Seq(Seq(A)) /\ Len(parts(k)) = k
    <3> DEFINE p == parts(k)
               S == Seq(A)
    <3>1. p \in [1..k -> S]
      BY <2>6
    <3> HIDE DEF p, S
    <3>2. p \in Seq(S) /\ Len(p) = k
      BY <1>1, <3>1
    <3> QED
      BY <3>2 DEF p, S
  <2>8. SectionItems(first, section) = FlattenSeq(parts(k))
    BY <2>3, <2>4
  <2> QED
    BY <2>7, <2>8 DEF first
<1>2. parts(n) = Append(parts(n - 1), Part(lines, n, section))
  <2> DEFINE S == Seq(A)
             x == Part(lines, n, section)
             a == Append(parts(n - 1), x)
             b == parts(n)
  <2>1. x \in S /\ parts(n - 1) \in Seq(S) /\ Len(parts(n - 1)) = n - 1 /\ b \in Seq(S) /\ Len(b) = n
    BY <1>0, <1>1, PartType
  <2>2. \A i \in 1..n : b[i] = Part(lines, i, section)
    OBVIOUS
  <2>3. \A i \in 1..(n - 1) : parts(n - 1)[i] = Part(lines, i, section)
    OBVIOUS
  <2> HIDE DEF S, b, parts
  <2>4. /\ a \in Seq(S) /\ Len(a) = n /\ a[n] = x
        /\ \A i \in 1..(n - 1) : a[i] = parts(n - 1)[i]
    <3>1. /\ a \in Seq(S) /\ Len(a) = (n - 1) + 1 /\ a[(n - 1) + 1] = x
          /\ \A i \in 1..(n - 1) : a[i] = parts(n - 1)[i]
      BY <2>1, AppendProperties
    <3> QED
      BY <1>0, <3>1
  <2> HIDE DEF a
  <2>5. \A i \in 1..n : a[i] = b[i]
    <3>1. \A i \in 1..n : i = n \/ i \in 1..(n - 1)
      BY <1>0
    <3> QED
      BY <2>2, <2>3, <2>4, <3>1
  <2>6. a = b
    BY <2>1, <2>4, <2>5, SeqEqual
  <2> QED
    BY <2>6 DEF a, b
<1> HIDE DEF parts
<1> DEFINE x == Part(lines, n, section)
           p == parts(n - 1)
<1>3. x \in Seq(A) /\ p \in Seq(Seq(A))
  BY <1>0, <1>1, PartType
<1> HIDE DEF x, p
<1>4. FlattenSeq(Append(p, x)) = FlattenSeq(p) \o x /\ FlattenSeq(p) \in Seq(A)
  BY <1>3, FlattenAppend, FlattenType
<1>5. n - 1 <= Len(lines)
  BY <1>0
<1>6. /\ SectionItems(SubSeq(lines, 1, n), section) = FlattenSeq(parts(n))
      /\ SectionItems(SubSeq(lines, 1, n - 1), section) = FlattenSeq(p)
  BY <1>0, <1>1, <1>5 DEF p
<1>7. parts(n) = Append(p, x)
  BY <1>2 DEF p, x
<1>8. /\ SectionItems(SubSeq(lines, 1, n), section)
           = SectionItems(SubSeq(lines, 1, n - 1), section) \o x
      /\ SectionItems(SubSeq(lines, 1, n - 1), section) \in Seq(A)
  BY <1>4, <1>6, <1>7
<1> QED
  BY <1>8 DEF x

LEMMA SectionItemsNone == ASSUME NEW section PROVE SectionItems(<< >>, section) = << >>
<1>1. [i \in DOMAIN << >> |->
         IF Capturing(<< >>, i, section) THEN Content(<< >>, i) ELSE << >>] = << >>
  OBVIOUS
<1> QED
  BY <1>1, FlattenEmpty DEF SectionItems

(* A section is being read at a line if the line is its header, or it was  *)
(* being read at the line before and this one is no header.                *)
LEMMA CapturingStep ==
  ASSUME NEW lines, NEW n \in Nat \ {0}, NEW section, section # "none"
  PROVE  Capturing(lines, n, section) <=>
           \/ lines[n].section = section
           \/ ~IsHeader(lines[n]) /\ Capturing(lines, n - 1, section)
<1>1. ASSUME lines[n].section = section PROVE Capturing(lines, n, section)
  <2>1. n \in 1..n /\ (n + 1)..n = {}
    OBVIOUS
  <2> QED
    BY <1>1, <2>1 DEF Capturing
<1>2. ASSUME ~IsHeader(lines[n]), Capturing(lines, n - 1, section)
      PROVE  Capturing(lines, n, section)
  <2>1. PICK k \in 1..(n - 1) : /\ lines[k].section = section
                                /\ \A m \in (k + 1)..(n - 1) : ~IsHeader(lines[m])
    BY <1>2 DEF Capturing
  <2>2. k \in 1..n /\ \A m \in (k + 1)..n : m = n \/ m \in (k + 1)..(n - 1)
    OBVIOUS
  <2>3. \A m \in (k + 1)..n : ~IsHeader(lines[m])
    BY <1>2, <2>1, <2>2
  <2> QED
    BY <2>1, <2>2, <2>3 DEF Capturing
<1>3. ASSUME Capturing(lines, n, section), lines[n].section # section
      PROVE  ~IsHeader(lines[n]) /\ Capturing(lines, n - 1, section)
  <2>1. PICK k \in 1..n : /\ lines[k].section = section
                          /\ \A m \in (k + 1)..n : ~IsHeader(lines[m])
    BY <1>3 DEF Capturing
  <2>2. k # n
    BY <1>3, <2>1
  <2>3. k \in 1..(n - 1) /\ n \in (k + 1)..n /\ \A m \in (k + 1)..(n - 1) : m \in (k + 1)..n
    BY <2>2
  <2> QED
    BY <2>1, <2>3 DEF Capturing
<1> QED
  BY <1>1, <1>2, <1>3

(* What the loop over the lines has after n of them.                       *)
Scanned(st, lines, n, section) ==
  /\ st.capturing <=> Capturing(lines, n, section)
  /\ st.start <=> n > 0 /\ lines[n].section = section /\ ~lines[n].colon
  /\ st.items = SectionItems(SubSeq(lines, 1, n), section)

(* One line of it.                                                         *)
ScanLine(s, line, section) ==
  LET here == line.section = section
  IN  IF line.section # "none"
      THEN [capturing |-> here, start |-> here /\ ~line.colon,
            items |-> IF here /\ line.colon THEN s.items \o line.pieces ELSE s.items]
      ELSE [capturing |-> s.capturing, start |-> FALSE,
            items |-> IF ~s.capturing THEN s.items
                      ELSE s.items \o (IF s.start THEN line.untitled ELSE line.pieces)]

ScanState(A) == [capturing : BOOLEAN, start : BOOLEAN, items : Seq(A)]

LEMMA ScanLineType ==
  ASSUME NEW A, NEW s \in ScanState(A), NEW line \in LineOf(A), NEW section
  PROVE  ScanLine(s, line, section) \in ScanState(A)
<1> DEFINE here == line.section = section
           p == s.items \o line.pieces
           u == s.items \o line.untitled
<1>1. /\ s.items \in Seq(A) /\ line.pieces \in Seq(A) /\ line.untitled \in Seq(A)
      /\ s.capturing \in BOOLEAN /\ s.start \in BOOLEAN /\ line.colon \in BOOLEAN
  BY DEF ScanState, LineOf
<1>2. p \in Seq(A) /\ u \in Seq(A)
  BY <1>1
<1> HIDE DEF p, u
<1> DEFINE more == IF s.start THEN u ELSE p
<1>3. s.items \o (IF s.start THEN line.untitled ELSE line.pieces) = more
  BY <1>1 DEF p, u
<1>4. ScanLine(s, line, section) =
        IF line.section # "none"
        THEN [capturing |-> here, start |-> here /\ ~line.colon,
              items |-> IF here /\ line.colon THEN p ELSE s.items]
        ELSE [capturing |-> s.capturing, start |-> FALSE,
              items |-> IF ~s.capturing THEN s.items ELSE more]
  BY <1>3 DEF ScanLine, p
<1>5. here \in BOOLEAN /\ (here /\ ~line.colon) \in BOOLEAN /\ more \in Seq(A)
  BY <1>1, <1>2
<1> HIDE DEF here, more
<1>6. CASE line.section # "none"
  BY <1>1, <1>2, <1>4, <1>5, <1>6 DEF ScanState
<1>7. CASE line.section = "none"
  BY <1>1, <1>4, <1>5, <1>7 DEF ScanState
<1> QED
  BY <1>6, <1>7

LEMMA ScanStep ==
  ASSUME NEW A, NEW lines, lines \in Seq(LineOf(A)), NEW n \in 1..Len(lines),
         NEW section, section # "none",
         NEW s, s \in ScanState(A), Scanned(s, lines, n - 1, section)
  PROVE  Scanned(ScanLine(s, lines[n], section), lines, n, section)
<1> DEFINE line == lines[n]
           next == ScanLine(s, line, section)
           before == SectionItems(SubSeq(lines, 1, n - 1), section)
           part == Part(lines, n, section)
<1>0. /\ line \in LineOf(A) /\ n \in Nat \ {0} /\ n > 0 /\ n - 1 \in Nat
      /\ (n > 1 <=> n - 1 > 0)
  BY ElementOfSeq, LenProperties
<1>1. /\ SectionItems(SubSeq(lines, 1, n), section) = before \o part
      /\ before \in Seq(A)
  BY SectionItemsStep
<1>2. before \o << >> = before
  BY <1>1
<1>3. /\ s.capturing <=> Capturing(lines, n - 1, section)
      /\ s.start <=> n - 1 > 0 /\ lines[n - 1].section = section /\ ~lines[n - 1].colon
      /\ s.items = before
  BY DEF Scanned
<1>4. Capturing(lines, n, section) <=>
        line.section = section \/ (~IsHeader(line) /\ Capturing(lines, n - 1, section))
  BY <1>0, CapturingStep
<1>5. n - 1 > 0 => (Capturing(lines, n - 1, section) <=>
        \/ lines[n - 1].section = section
        \/ ~IsHeader(lines[n - 1]) /\ Capturing(lines, (n - 1) - 1, section))
  <2>1. n - 1 > 0 => n - 1 \in Nat \ {0}
    BY <1>0
  <2> QED
    BY <2>1, CapturingStep
<1> HIDE DEF before, part
<1>6. CASE line.section # "none"
  <2>1. /\ next.capturing = (line.section = section)
        /\ next.start = (line.section = section /\ ~line.colon)
        /\ next.items = IF line.section = section /\ line.colon
                        THEN s.items \o line.pieces ELSE s.items
    BY <1>6 DEF ScanLine
  <2>2. part = IF line.section = section /\ line.colon THEN line.pieces ELSE << >>
    BY <1>4, <1>6 DEF part, Part, Content, IsHeader
  <2>3. next.items = before \o part
    BY <1>2, <1>3, <2>1, <2>2
  <2>4. next.capturing <=> Capturing(lines, n, section)
    BY <1>4, <1>6, <2>1 DEF IsHeader
  <2>5. next.start <=> n > 0 /\ line.section = section /\ ~line.colon
    BY <1>0, <2>1
  <2> HIDE DEF next
  <2> QED
    BY <1>1, <2>3, <2>4, <2>5 DEF Scanned, next, line
<1>7. CASE line.section = "none"
  <2>1. /\ next.capturing = s.capturing /\ ~next.start
        /\ next.items = IF ~s.capturing THEN s.items
                        ELSE s.items \o (IF s.start THEN line.untitled ELSE line.pieces)
    BY <1>7 DEF ScanLine
  <2>2. Capturing(lines, n, section) <=> Capturing(lines, n - 1, section)
    BY <1>4, <1>7 DEF IsHeader
  <2>3. CASE ~s.capturing
    <3>1. part = << >>
      BY <1>3, <2>2, <2>3 DEF part, Part
    <3>2. next.items = before \o part
      BY <1>2, <1>3, <2>1, <2>3, <3>1
    <3> QED
      BY <1>1, <1>3, <1>7, <2>1, <2>2, <2>3, <3>2 DEF Scanned
  <2>4. CASE s.capturing
    <3>1. part = Content(lines, n)
      BY <1>3, <2>2, <2>4 DEF part, Part
    <3>2. s.start <=> n > 1 /\ IsHeader(lines[n - 1]) /\ ~lines[n - 1].colon
      <4>1. CASE ~(n > 1)
        BY <1>0, <1>3, <4>1
      <4>2. CASE n > 1
        <5>1. IsHeader(lines[n - 1]) <=> lines[n - 1].section = section
          BY <1>0, <1>3, <1>5, <2>4, <4>2 DEF IsHeader
        <5> QED
          BY <1>0, <1>3, <4>2, <5>1
      <4> QED
        BY <4>1, <4>2
    <3>3. part = IF s.start THEN line.untitled ELSE line.pieces
      BY <1>7, <3>1, <3>2 DEF Content, IsHeader
    <3>4. next.items = before \o part
      BY <1>3, <2>1, <2>4, <3>3
    <3> QED
      BY <1>1, <1>3, <1>7, <2>1, <2>2, <2>4, <3>4 DEF Scanned
  <2> QED
    BY <2>3, <2>4
<1> QED
  BY <1>6, <1>7

(* The loop over the lines: all there is of a section.                     *)
LEMMA ScanIs ==
  ASSUME NEW A, NEW lines, lines \in Seq(LineOf(A)), NEW section, section # "none"
  PROVE  Scan(lines, section) = SectionItems(lines, section)
<1> DEFINE N == Len(lines)
           first == [capturing |-> FALSE, start |-> FALSE, items |-> << >>]
           eqn(f) == f = [n \in 0..N |->
                           IF n = 0 THEN first ELSE ScanLine(f[n - 1], lines[n], section)]
           h == CHOOSE f : eqn(f)
           V == ScanState(A)
           I == {n \in 0..N : h[n] \in V /\ Scanned(h[n], lines, n, section)}
<1>0. N \in Nat /\ (\A n \in 1..N : lines[n] \in LineOf(A)) /\ SubSeq(lines, 1, N) = lines
  BY LenProperties, ElementOfSeq
<1>1. Scan(lines, section) = h[N].items
  BY DEF Scan, ScanLine
<1>2. first \in V
  BY DEF ScanState
<1> HIDE DEF N, V
<1>3. \E f : eqn(f)
  <2> DEFINE step == [x \in (1..N) \X V |-> ScanLine(x[2], lines[x[1]], section)]
  <2>1. step \in [(1..N) \X V -> V]
    <3>1. ASSUME NEW x \in (1..N) \X V PROVE ScanLine(x[2], lines[x[1]], section) \in V
      <4>1. x[2] \in V /\ lines[x[1]] \in LineOf(A)
        BY <1>0
      <4> QED
        BY <4>1, ScanLineType DEF V
    <3> QED
      BY <3>1
  <2>2. \A n \in 1..N, v \in V : step[<<n, v>>] = ScanLine(v, lines[n], section)
    OBVIOUS
  <2> HIDE DEF step, first
  <2>4. PICK f \in [0..N -> V] : FollowsFrom(f, N, first, step)
    BY <1>0, <1>2, <2>1, Recursion
  <2>5. \A n \in 0..N : f[n] = IF n = 0 THEN first ELSE ScanLine(f[n - 1], lines[n], section)
    <3>1. \A n \in 0..N : n # 0 => n \in 1..N /\ n - 1 \in 0..N
      BY <1>0
    <3> QED
      BY <2>2, <2>4, <3>1 DEF FollowsFrom
  <2>6. f = [n \in 0..N |-> f[n]]
    OBVIOUS
  <2> QED
    BY <2>5, <2>6
<1>4. eqn(h)
  BY <1>3
<1>5. h[0] = first /\ \A n \in 1..N : h[n] = ScanLine(h[n - 1], lines[n], section)
  <2>1. 0 \in 0..N /\ \A n \in 1..N : n \in 0..N /\ n # 0
    BY <1>0
  <2> HIDE DEF h, first
  <2> QED
    BY <1>4, <2>1
<1> HIDE DEF h
<1>6. 0 \in I
  <2>1. SubSeq(lines, 1, 0) = << >> /\ 0 \in 0..N /\ ~(0 > 0)
    BY <1>0, SubSeqEmpty
  <2>2. ~Capturing(lines, 0, section)
    BY DEF Capturing
  <2>3. ~first.capturing /\ ~first.start /\ first.items = << >>
    OBVIOUS
  <2> HIDE DEF first
  <2>4. Scanned(first, lines, 0, section)
    BY <2>1, <2>2, <2>3, SectionItemsNone DEF Scanned
  <2> QED
    BY <1>2, <1>5, <2>1, <2>4
<1>7. ASSUME NEW n \in 1..N, n - 1 \in I PROVE n \in I
  <2> DEFINE s == h[n - 1]
  <2>1. s \in V /\ Scanned(s, lines, n - 1, section)
    BY <1>7
  <2>2. h[n] = ScanLine(s, lines[n], section) /\ n \in 0..N
    BY <1>0, <1>5
  <2> HIDE DEF s
  <2>3. ScanLine(s, lines[n], section) \in V
    BY <1>0, <2>1, ScanLineType DEF V
  <2>4. Scanned(ScanLine(s, lines[n], section), lines, n, section)
    BY <2>1, ScanStep DEF V, N
  <2> QED
    BY <2>2, <2>3, <2>4
<1> HIDE DEF I
<1>8. N \in I
  <2>1. 0..N \subseteq I
    BY <1>0, <1>6, <1>7, Induction
  <2> QED
    BY <1>0, <2>1
<1>9. h[N].items = SectionItems(SubSeq(lines, 1, N), section)
  BY <1>8 DEF I, Scanned
<1> QED
  BY <1>0, <1>1, <1>9

LEMMA SectionItemsType ==
  ASSUME NEW A, NEW lines, lines \in Seq(LineOf(A)), NEW section
  PROVE  SectionItems(lines, section) \in Seq(A)
<1>0. Len(lines) \in Nat /\ SubSeq(lines, 1, Len(lines)) = lines
  BY LenProperties
<1>1. CASE Len(lines) = 0
  <2>1. lines = << >>
    BY <1>1, EmptySeq
  <2>2. << >> \in Seq(A)
    OBVIOUS
  <2> QED
    BY <2>1, <2>2, SectionItemsNone
<1>2. CASE Len(lines) # 0
  <2> DEFINE n == Len(lines)
             before == SectionItems(SubSeq(lines, 1, n - 1), section)
             part == Part(lines, n, section)
  <2>1. n \in 1..Len(lines)
    BY <1>0, <1>2
  <2>2. SectionItems(SubSeq(lines, 1, n), section) = before \o part /\ before \in Seq(A)
    BY <2>1, SectionItemsStep
  <2>3. part \in Seq(A)
    BY <2>1, PartType
  <2> HIDE DEF before, part
  <2>4. before \o part \in Seq(A)
    BY <2>2, <2>3, ConcatProperties
  <2> QED
    BY <1>0, <2>2, <2>4
<1> QED
  BY <1>1, <1>2

-----------------------------------------------------------------------------
(* A description has lines, of any number.                                 *)
IsDescription == desc \in Seq(LineOf(MCFragment))

LEMMA LinesAreLines == MCLine \subseteq LineOf(MCFragment)
<1> DEFINE A == MCFragment
           C == ChunkOf(A)
<1>1. A = {"intro", "great", "berlin", "laptop", "must", "internet", "degree", "fluent", "typing",
           "hi", "apply", "employer", "title"}
  BY DEF MCFragment, MCChars
<1>2. /\ << >> \in Seq(A) /\ <<"laptop", "internet", "degree">> \in Seq(A)
      /\ <<"typing", "hi">> \in Seq(A) /\ <<"degree", "fluent">> \in Seq(A)
      /\ <<"intro">> \in Seq(A) /\ <<"great">> \in Seq(A) /\ <<"laptop">> \in Seq(A)
      /\ <<"must">> \in Seq(A) /\ <<"internet">> \in Seq(A) /\ <<"apply">> \in Seq(A)
      /\ <<"berlin">> \in Seq(A)
  BY <1>1
<1>3. /\ \A m \in SUBSET Mark : Title(m) \in C
      /\ \A f \in A : Phrase(f) \in C /\ Sentence(f) \in C /\ Noise(f) \in C
      /\ [text |-> "employer", marks |-> {"stop", "boilerplate"}] \in C
  BY <1>1 DEF Title, Phrase, Sentence, Noise, ChunkOf, Mark
<1>4. {} \in SUBSET Mark /\ {"title"} \in SUBSET Mark /\ {"responsibilities"} \in SUBSET Mark
      /\ {"title", "responsibilities"} \in SUBSET Mark
  BY DEF Mark
<1>5. /\ "intro" \in A /\ "great" \in A /\ "laptop" \in A /\ "must" \in A /\ "internet" \in A
      /\ "degree" \in A /\ "fluent" \in A /\ "typing" \in A /\ "hi" \in A /\ "apply" \in A
      /\ "berlin" \in A
  BY <1>1
<1> HIDE DEF A, C
<1>6. ASSUME NEW section \in Section, NEW colon \in BOOLEAN, NEW p \in Seq(A), NEW c \in Seq(C)
      PROVE  Header(section, colon, p, c) \in LineOf(A)
  BY DEF Header, LineOf, C
<1>7. ASSUME NEW p \in Seq(A), NEW u \in Seq(A), NEW c \in Seq(C) PROVE Text(p, u, c) \in LineOf(A)
  BY DEF Text, LineOf, Section, C
<1>8. \A x \in C : <<x>> \in Seq(C)
  OBVIOUS
<1>9. \A x, y \in C : <<x, y>> \in Seq(C)
  OBVIOUS
<1>10. \A x, y, z \in C : <<x, y, z>> \in Seq(C)
  OBVIOUS
<1>11. \A w, x, y, z \in C : <<w, x, y, z>> \in Seq(C)
  OBVIOUS
<1>12. "requirements" \in Section /\ "tasks" \in Section
  BY DEF Section
<1>13. /\ Title({}) \in C /\ Title({"title"}) \in C /\ Title({"responsibilities"}) \in C
       /\ Title({"title", "responsibilities"}) \in C
       /\ \A f \in {"laptop", "internet", "degree", "typing", "hi", "fluent", "must", "apply"} :
            Phrase(f) \in C
       /\ \A f \in {"intro", "great", "degree"} : Sentence(f) \in C
       /\ Noise("berlin") \in C
  BY <1>3, <1>4, <1>5
<1>14. /\ Header("requirements", FALSE, << >>, <<Title({})>>) \in LineOf(A)
       /\ Header("requirements", TRUE, << >>, <<Title({"title"})>>) \in LineOf(A)
       /\ Header("requirements", TRUE, <<"laptop", "internet", "degree">>,
            <<Title({"title"}), Phrase("laptop"), Phrase("internet"), Phrase("degree")>>) \in LineOf(A)
       /\ Header("tasks", FALSE, << >>, <<Title({"responsibilities"})>>) \in LineOf(A)
       /\ Header("tasks", TRUE, <<"typing", "hi">>,
            <<Title({"title", "responsibilities"}), Phrase("typing"), Phrase("hi")>>) \in LineOf(A)
  BY <1>2, <1>6, <1>8, <1>10, <1>11, <1>12, <1>13
<1>15. /\ Text(<<"intro">>, <<"intro">>, <<Sentence("intro")>>) \in LineOf(A)
       /\ Text(<<"great">>, <<"great">>, <<Sentence("great")>>) \in LineOf(A)
       /\ Text(<<"berlin">>, <<"berlin">>, <<Noise("berlin")>>) \in LineOf(A)
       /\ Text(<<"degree", "fluent">>, <<"degree", "fluent">>,
            <<Sentence("degree"), Phrase("fluent")>>) \in LineOf(A)
       /\ Text(<<"laptop">>, <<"laptop">>, <<Phrase("laptop")>>) \in LineOf(A)
       /\ Text(<<"must">>, <<"laptop">>, <<Phrase("must")>>) \in LineOf(A)
       /\ Text(<<"internet">>, <<"internet">>, <<Phrase("internet")>>) \in LineOf(A)
       /\ Text(<<"apply">>, <<"apply">>, <<Phrase("apply")>>) \in LineOf(A)
       /\ Text(<<"apply">>, <<"apply">>, <<Phrase("apply"),
            [text |-> "employer", marks |-> {"stop", "boilerplate"}]>>) \in LineOf(A)
  BY <1>2, <1>3, <1>7, <1>8, <1>9, <1>13
<1> QED
  BY <1>14, <1>15 DEF MCLine, A

LEMMA DescriptionInvariant == Spec => []IsDescription
<1> DEFINE L == LineOf(MCFragment)
<1>1. << >> \in Seq(L)
  OBVIOUS
<1>2. MCLine \subseteq L
  BY LinesAreLines
<1> HIDE DEF L
<1>3. Init => desc \in Seq(L)
  BY <1>1 DEF Init, First
<1>4. desc \in Seq(L) /\ [Next]_vars => (desc \in Seq(L))'
  <2> SUFFICES ASSUME desc \in Seq(L), [Next]_vars PROVE desc' \in Seq(L)
    OBVIOUS
  <2>1. CASE Describe
    <3>1. PICK line \in MCLine : desc' = <<line>>
      BY <2>1 DEF Describe
    <3> QED
      BY <1>2, <3>1
  <2>2. CASE AddLine
    <3>1. PICK line \in MCLine : desc' = Append(desc, line)
      BY <2>2 DEF AddLine
    <3> QED
      BY <1>2, <3>1, AppendProperties
  <2>3. CASE StartOver
    BY <1>1, <2>3 DEF StartOver
  <2>4. [Next]_vars => Describe \/ AddLine \/ StartOver \/ UNCHANGED desc
    BY DEF Next, vars, NewPost, NewCaption, Type, NewCard, AddWord
  <2> QED
    BY <2>1, <2>2, <2>3, <2>4
<1> QED
  BY <1>3, <1>4, PTL DEF Spec, IsDescription, L

(* _extract_items collects what the model says it does: its two loops, over*)
(* lines with two flags and over fragments up to a limit, leave the first  *)
(* clean items of the section, for any number of lines.                    *)
THEOREM SectionsAreTheLoops == Spec => []SectionsFollowTheLoop
<1>1. IsDescription => SectionsFollowTheLoop
  <2> SUFFICES ASSUME IsDescription PROVE SectionsFollowTheLoop
    OBVIOUS
  <2>1. desc \in Seq(LineOf(MCFragment))
    BY DEF IsDescription
  <2>2. ASSUME NEW section, section # "none", NEW clean, NEW max \in Nat
        PROVE  ExtractItems(desc, section, clean, max)
                 = TakeUntil(Scan(desc, section), clean, max)
    <3>1. Scan(desc, section) = SectionItems(desc, section)
      BY <2>1, <2>2, ScanIs
    <3>2. SectionItems(desc, section) \in Seq(MCFragment)
      BY <2>1, SectionItemsType
    <3>3. TakeUntil(SectionItems(desc, section), clean, max)
            = FirstOf(Kept(SectionItems(desc, section), clean), max)
      BY <3>2, TakeUntilIs
    <3> QED
      BY <3>1, <3>3 DEF ExtractItems
  <2>3. MaxRequirements \in Nat /\ MaxTasks \in Nat
    BY DEF MaxRequirements, MaxTasks
  <2> QED
    BY <2>2, <2>3 DEF SectionsFollowTheLoop, FoundRequirements, WhatYouDo
<1> QED
  BY <1>1, DescriptionInvariant, PTL

-----------------------------------------------------------------------------
(* Going on where a sequence ends is to begin with it.                     *)
LEMMA ExtendedIsPrefix ==
  ASSUME NEW A, NEW s, NEW t, Extended(s, t, A)
  PROVE  IsPrefix(s, t)
<1>0. PICK u \in Seq(A) : s \in Seq(A) /\ t = s \o u
  BY DEF Extended
<1>1. /\ t \in Seq(A) /\ Len(t) = Len(s) + Len(u) /\ Len(s) \in Nat /\ Len(u) \in Nat
      /\ \A k \in 1..(Len(s) + Len(u)) : t[k] = IF k <= Len(s) THEN s[k] ELSE u[k - Len(s)]
  BY <1>0, ConcatProperties, LenProperties
<1> DEFINE N == Len(s)
           a == SubSeq(s, 1, N)
           b == SubSeq(t, 1, N)
<1>2. \A k \in 1..N : k \in 1..(Len(s) + Len(u)) /\ t[k] = s[k] /\ t[k] \in A /\ s[k] \in A
  <2>1. \A k \in 1..N : k \in 1..(Len(s) + Len(u)) /\ k <= Len(s) /\ k \in 1..Len(s)
    BY <1>1
  <2>2. \A k \in 1..N : t[k] = s[k] /\ s[k] \in A
    BY <1>0, <1>1, <2>1, ElementOfSeq
  <2> QED
    BY <2>1, <2>2
<1>3. /\ a \in Seq(A) /\ Len(a) = N /\ \A k \in 1..N : a[k] = s[k]
      /\ b \in Seq(A) /\ Len(b) = N /\ \A k \in 1..N : b[k] = t[k]
  BY <1>0, <1>1, <1>2
<1> HIDE DEF a, b, N
<1>4. a = b
  BY <1>2, <1>3, SeqEqual
<1>5. N <= Len(t)
  BY <1>1 DEF N
<1> QED
  BY <1>4, <1>5 DEF IsPrefix, a, b, N

(* A line at the end leaves what was found before it, and its order.       *)
LEMMA SectionItemsGrow ==
  ASSUME NEW A, NEW lines, NEW line, lines \in Seq(LineOf(A)), line \in LineOf(A), NEW section
  PROVE  Extended(SectionItems(lines, section), SectionItems(Append(lines, line), section), A)
<1> DEFINE L == LineOf(A)
           more == Append(lines, line)
           n == Len(more)
           part == Part(more, n, section)
<1>1. /\ more \in Seq(L) /\ n = Len(lines) + 1 /\ Len(lines) \in Nat
      /\ \A k \in 1..Len(lines) : more[k] = lines[k]
  BY AppendProperties, LenProperties
<1>2. n \in 1..Len(more) /\ n - 1 = Len(lines) /\ n \in Nat
  BY <1>1
<1> HIDE DEF more
<1>3. /\ SectionItems(SubSeq(more, 1, n), section)
           = SectionItems(SubSeq(more, 1, n - 1), section) \o part
      /\ part \in Seq(A) /\ SectionItems(SubSeq(more, 1, n - 1), section) \in Seq(A)
  BY <1>1, <1>2, SectionItemsStep, PartType
<1>4. SubSeq(more, 1, n) = more
  BY <1>1
<1>5. SubSeq(more, 1, n - 1) = lines
  <2> DEFINE before == SubSeq(more, 1, n - 1)
  <2>1. \A k \in 1..(n - 1) : more[k] \in L /\ more[k] = lines[k]
    <3>1. \A k \in 1..(n - 1) : k \in 1..Len(lines) /\ k \in 1..Len(more)
      BY <1>1, <1>2
    <3> QED
      BY <1>1, <3>1, ElementOfSeq
  <2>2. before \in Seq(L) /\ Len(before) = n - 1 /\ \A k \in 1..(n - 1) : before[k] = more[k]
    BY <1>1, <1>2, <2>1
  <2> HIDE DEF before
  <2>3. before = lines
    BY <1>2, <2>1, <2>2, SeqEqual
  <2> QED
    BY <2>3 DEF before
<1> HIDE DEF part, n
<1> QED
  BY <1>3, <1>4, <1>5 DEF Extended, more

(* Whatever a description says in a section already, a line at its end     *)
(* takes nothing of it back.                                               *)
LEMMA LineAtTheEnd ==
  ASSUME NEW A, NEW lines, NEW line, lines \in Seq(LineOf(A)), line \in LineOf(A),
         NEW section, NEW clean, NEW max \in Nat
  PROVE  Extended(ExtractItems(lines, section, clean, max),
                  ExtractItems(Append(lines, line), section, clean, max), A)
<1>1. Extended(SectionItems(lines, section), SectionItems(Append(lines, line), section), A)
  BY SectionItemsGrow
<1>2. Extended(Kept(SectionItems(lines, section), clean),
               Kept(SectionItems(Append(lines, line), section), clean), A)
  BY <1>1, KeptExtended
<1> QED
  BY <1>2, FirstOfExtended DEF ExtractItems

-----------------------------------------------------------------------------
(* The text of a longer description begins with the text of the shorter.   *)
LEMMA ChunksGrow ==
  ASSUME NEW A, NEW lines, NEW line, lines \in Seq(LineOf(A)), line \in LineOf(A)
  PROVE  Extended(Chunks(lines), Chunks(Append(lines, line)), ChunkOf(A))
<1> DEFINE C == ChunkOf(A)
           L == LineOf(A)
           more == Append(lines, line)
           before == [i \in DOMAIN lines |-> lines[i].chunks]
           after == [i \in DOMAIN more |-> more[i].chunks]
           last == line.chunks
           N == Len(lines)
<1>1. \A l \in L : l.chunks \in Seq(C)
  BY DEF LineOf
<1>2. /\ more \in Seq(L) /\ Len(more) = N + 1 /\ N \in Nat
      /\ \A k \in 1..N : more[k] = lines[k]
      /\ more[N + 1] = line
  BY AppendProperties, LenProperties
<1> HIDE DEF more, C, L
<1>3. lines \in Seq(L) /\ line \in L /\ DOMAIN lines = 1..N /\ DOMAIN more = 1..(N + 1)
  BY <1>2, LenProperties DEF L
<1>4. before \in Seq(Seq(C)) /\ Len(before) = N /\ \A k \in 1..N : before[k] = lines[k].chunks
  <2>1. \A k \in 1..N : lines[k].chunks \in Seq(C)
    BY <1>1, <1>3
  <2> QED
    BY <1>2, <1>3, <2>1
<1>5. after \in Seq(Seq(C)) /\ Len(after) = N + 1 /\ \A k \in 1..(N + 1) : after[k] = more[k].chunks
  <2>1. \A k \in 1..(N + 1) : more[k].chunks \in Seq(C)
    BY <1>1, <1>2, <1>3
  <2> QED
    BY <1>2, <1>3, <2>1
<1>6. last \in Seq(C)
  BY <1>1, <1>3
<1> HIDE DEF before, after, last, N
<1>7. /\ Append(before, last) \in Seq(Seq(C)) /\ Len(Append(before, last)) = N + 1
      /\ \A k \in 1..N : Append(before, last)[k] = before[k]
      /\ Append(before, last)[N + 1] = last
  <2> DEFINE D == Seq(C)
  <2>1. before \in Seq(D) /\ last \in D /\ Len(before) = N
    BY <1>4, <1>6
  <2> HIDE DEF D
  <2>2. /\ Append(before, last) \in Seq(D) /\ Len(Append(before, last)) = N + 1
        /\ \A k \in 1..N : Append(before, last)[k] = before[k]
        /\ Append(before, last)[N + 1] = last
    BY <2>1, AppendProperties
  <2> QED
    BY <2>2 DEF D
<1>8. ASSUME NEW k \in 1..(N + 1) PROVE after[k] = Append(before, last)[k]
  <2>1. CASE k = N + 1
    BY <1>2, <1>5, <1>7, <2>1 DEF last
  <2>2. CASE k # N + 1
    <3>1. k \in 1..N
      BY <1>2, <2>2
    <3> QED
      BY <1>2, <1>4, <1>5, <1>7, <3>1
  <2> QED
    BY <2>1, <2>2
<1>9. after = Append(before, last)
  BY <1>2, <1>5, <1>7, <1>8, SeqEqual
<1>10. FlattenSeq(after) = FlattenSeq(before) \o last /\ FlattenSeq(before) \in Seq(C)
  BY <1>4, <1>6, <1>9, FlattenAppend, FlattenType
<1>11. Chunks(lines) = FlattenSeq(before) /\ Chunks(more) = FlattenSeq(after)
  BY DEF Chunks, before, after
<1> QED
  BY <1>6, <1>10, <1>11 DEF Extended, more, C

(* Two sentences are the same, or one ends before the other begins.        *)
LEMMA SentencesApart ==
  ASSUME NEW C, NEW whole, whole \in Seq(C), NEW x, NEW y,
         x \in Sentences(whole), y \in Sentences(whole)
  PROVE  /\ {x[1], x[2], y[1], y[2]} \subseteq 1..Len(whole)
         /\ Len(whole) \in Nat /\ DOMAIN whole = 1..Len(whole)
         /\ x[1] = y[1] => x = y
         /\ x[1] < y[1] => x[2] < y[1]
<1> DEFINE N == Len(whole)
<1>1. N \in Nat /\ DOMAIN whole = 1..N
  BY LenProperties
<1> HIDE DEF N
<1>2. ASSUME NEW z, z \in Sentences(whole)
      PROVE  /\ z \in (1..N) \X (1..N) /\ z[1] \in 1..N /\ z[2] \in 1..N /\ z[1] <= z[2]
             /\ z[1] = 1 \/ Stop(whole, z[1] - 1)
             /\ z[2] = N \/ Stop(whole, z[2])
             /\ \A i \in z[1]..(z[2] - 1) : ~Stop(whole, i)
  BY <1>1, <1>2 DEF Sentences, N
<1>3. ASSUME x[1] = y[1] PROVE x = y
  <2>1. ~(x[2] < y[2])
    <3> SUFFICES ASSUME x[2] < y[2] PROVE FALSE
      OBVIOUS
    <3>1. x[2] \in y[1]..(y[2] - 1) /\ x[2] # N
      BY <1>1, <1>2, <1>3
    <3> QED
      BY <1>2, <3>1
  <2>2. ~(y[2] < x[2])
    <3> SUFFICES ASSUME y[2] < x[2] PROVE FALSE
      OBVIOUS
    <3>1. y[2] \in x[1]..(x[2] - 1) /\ y[2] # N
      BY <1>1, <1>2, <1>3
    <3> QED
      BY <1>2, <3>1
  <2>3. x[2] = y[2]
    BY <1>1, <1>2, <2>1, <2>2
  <2>4. x = <<x[1], x[2]>> /\ y = <<y[1], y[2]>>
    BY <1>2
  <2> QED
    BY <1>3, <2>3, <2>4
<1>4. ASSUME x[1] < y[1] PROVE x[2] < y[1]
  <2> SUFFICES ASSUME ~(x[2] < y[1]) PROVE FALSE
    OBVIOUS
  <2>1. y[1] - 1 \in x[1]..(x[2] - 1) /\ y[1] # 1
    BY <1>1, <1>2, <1>4
  <2> QED
    BY <1>2, <2>1
<1> QED
  BY <1>1, <1>2, <1>3, <1>4 DEF N

LEMMA FirstSentenceIs ==
  ASSUME NEW C, NEW whole, whole \in Seq(C), NEW S, S \subseteq Sentences(whole), S # {}
  PROVE  FirstSentence(S) \in S /\ \A y \in S : FirstSentence(S)[1] <= y[1]
<1> DEFINE T == {x[1] : x \in S}
<1>1. T \subseteq Nat /\ T # {}
  <2>1. \A x \in S : x[1] \in Nat
    BY SentencesApart
  <2> QED
    BY <2>1
<1>2. PICK n \in T : \A m \in T : n <= m
  BY <1>1, Least
<1>3. PICK x \in S : x[1] = n
  BY <1>2
<1>4. \A y \in S : x[1] <= y[1]
  BY <1>2, <1>3
<1> QED
  BY <1>4 DEF FirstSentence

(* Of a longer text, the sentences that ended in the shorter one are the   *)
(* same, and those of the longer one before them as well.                  *)
LEMMA SentencesStay ==
  ASSUME NEW C, NEW whole, NEW longer, Extended(whole, longer, C),
         NEW x, x \in (DOMAIN whole) \X (DOMAIN whole), Stop(whole, x[2])
  PROVE  /\ x \in Sentences(whole) <=> x \in Sentences(longer)
         /\ x[1] <= x[2] => Candidate(whole, x) = Candidate(longer, x)
         /\ Stop(longer, x[2])
<1>0. PICK u \in Seq(C) : whole \in Seq(C) /\ longer = whole \o u
  BY DEF Extended
<1> DEFINE N == Len(whole)
           M == Len(longer)
<1>1. /\ N \in Nat /\ M \in Nat /\ N <= M /\ longer \in Seq(C)
      /\ DOMAIN whole = 1..N /\ DOMAIN longer = 1..M
      /\ \A i \in 1..N : longer[i] = whole[i]
  <2>1. /\ Len(whole) \in Nat /\ Len(u) \in Nat /\ longer \in Seq(C) /\ M = Len(whole) + Len(u)
        /\ \A k \in 1..(Len(whole) + Len(u)) :
             longer[k] = IF k <= Len(whole) THEN whole[k] ELSE u[k - Len(whole)]
    BY <1>0, ConcatProperties, LenProperties
  <2>2. DOMAIN whole = 1..N /\ DOMAIN longer = 1..M
    BY <1>0, <2>1, LenProperties
  <2>3. \A k \in 1..N : k \in 1..(Len(whole) + Len(u)) /\ k <= Len(whole)
    BY <2>1
  <2> QED
    BY <2>1, <2>2, <2>3
<1> HIDE DEF N, M
<1>2. x[1] \in 1..N /\ x[2] \in 1..N /\ x \in (1..M) \X (1..M)
  BY <1>1
<1>3. \A i \in 1..N : Stop(whole, i) <=> Stop(longer, i)
  BY <1>1 DEF Stop
<1>4. Stop(longer, x[2])
  BY <1>2, <1>3
<1>5. (x[1] = 1 \/ Stop(whole, x[1] - 1)) <=> (x[1] = 1 \/ Stop(longer, x[1] - 1))
  <2>1. x[1] = 1 \/ x[1] - 1 \in 1..N
    BY <1>1, <1>2
  <2> QED
    BY <1>3, <2>1
<1>6. (\A i \in x[1]..(x[2] - 1) : ~Stop(whole, i)) <=> (\A i \in x[1]..(x[2] - 1) : ~Stop(longer, i))
  <2>1. \A i \in x[1]..(x[2] - 1) : i \in 1..N
    BY <1>1, <1>2
  <2> QED
    BY <1>3, <2>1
<1>7. x \in Sentences(whole) <=> x \in Sentences(longer)
  BY <1>1, <1>2, <1>4, <1>5, <1>6 DEF Sentences
<1>8. ASSUME x[1] <= x[2] PROVE Candidate(whole, x) = Candidate(longer, x)
  <2> DEFINE m == x[1]
             n == x[2]
             a == SubSeq(whole, m, n)
             b == SubSeq(longer, m, n)
             K == n - m + 1
  <2>1. m \in Int /\ n \in Int /\ m <= n /\ m \in 1..N /\ n \in 1..N
    BY <1>1, <1>2, <1>8
  <2>2. \A i \in m..n : i \in 1..N /\ i \in 1..M
    BY <1>1, <2>1
  <2>3. \A i \in m..n : whole[i] \in C /\ longer[i] \in C /\ longer[i] = whole[i]
    <3>1. \A i \in 1..N : whole[i] \in C
      BY <1>0, ElementOfSeq DEF N
    <3> QED
      BY <1>1, <2>2, <3>1
  <2> HIDE DEF m, n
  <2>4. /\ a \in Seq(C) /\ Len(a) = K /\ \A k \in 1..K : a[k] = whole[m + k - 1]
    BY <2>1, <2>3, SubSeqProperties
  <2>5. /\ b \in Seq(C) /\ Len(b) = K /\ \A k \in 1..K : b[k] = longer[m + k - 1]
    BY <2>1, <2>3, SubSeqProperties
  <2>6. \A k \in 1..K : m + k - 1 \in m..n
    BY <2>1
  <2> HIDE DEF a, b, K
  <2>7. \A k \in 1..K : a[k] = b[k]
    BY <2>3, <2>4, <2>5, <2>6
  <2>8. a = b
    BY <2>4, <2>5, <2>7, SeqEqual
  <2> QED
    BY <2>8 DEF Candidate, a, b, m, n
<1> QED
  BY <1>4, <1>7, <1>8

(* A sentence that is long enough and has ended settles the summary line:  *)
(* the first such sentence has ended as well, and stays the first.         *)
LEMMA SummaryStays ==
  ASSUME NEW C, NEW whole, NEW longer, Extended(whole, longer, C),
         \E x \in Substantive(whole) : Stop(whole, x[2])
  PROVE  SummaryLine(longer) = SummaryLine(whole)
<1>0. PICK p \in Substantive(whole) : Stop(whole, p[2])
  OBVIOUS
<1> DEFINE f == FirstSentence(Substantive(whole))
           g == FirstSentence(Substantive(longer))
           N == Len(whole)
<1>1. /\ whole \in Seq(C) /\ longer \in Seq(C)
      /\ Len(whole) \in Nat /\ DOMAIN whole = 1..Len(whole)
  BY ConcatProperties, LenProperties DEF Extended
<1>2. /\ \A t : Substantive(t) \subseteq Meaningful(t) /\ Meaningful(t) \subseteq Sentences(t)
      /\ \A t : \A x \in Sentences(t) :
           x \in Substantive(t) <=> /\ IsMeaningful(Candidate(t, x))
                                    /\ Characters(Candidate(t, x)) >= MinSummary
  BY DEF Substantive, Meaningful
<1>3. f \in Substantive(whole) /\ f[1] <= p[1] /\ f \in Sentences(whole)
  BY <1>0, <1>1, <1>2, FirstSentenceIs
<1>4. p \in Sentences(whole)
  BY <1>0, <1>2
<1> HIDE DEF f, g, N
<1>5. f[1] \in 1..N /\ f[2] \in 1..N /\ f[1] <= f[2] /\ f \in (DOMAIN whole) \X (DOMAIN whole)
      /\ N \in Nat
  BY <1>1, <1>3 DEF Sentences, N
<1>6. Stop(whole, f[2])
  <2>1. p[1] \in 1..N
    BY <1>1, <1>4, SentencesApart DEF N
  <2>2. CASE f[1] = p[1]
    <3>1. f = p
      BY <1>1, <1>3, <1>4, <2>2, SentencesApart
    <3> QED
      BY <1>0, <3>1
  <2>3. CASE f[1] # p[1]
    <3>1. f[1] < p[1]
      BY <1>3, <1>5, <2>1, <2>3
    <3>2. f[2] < p[1]
      BY <1>1, <1>3, <1>4, <3>1, SentencesApart
    <3>3. f[2] # N
      BY <1>5, <2>1, <3>2
    <3> QED
      BY <1>3, <3>3 DEF Sentences, N
  <2> QED
    BY <2>2, <2>3
<1>7. f \in Sentences(longer) /\ Candidate(longer, f) = Candidate(whole, f)
  BY <1>3, <1>5, <1>6, SentencesStay
<1>8. f \in Substantive(longer)
  BY <1>2, <1>3, <1>7, Zenon
<1>9. g \in Substantive(longer) /\ g[1] <= f[1] /\ g \in Sentences(longer)
  BY <1>1, <1>2, <1>8, FirstSentenceIs DEF g
<1>10. g = f
  <2>1. {g[1], g[2], f[1], f[2]} \subseteq 1..Len(longer) /\ Len(longer) \in Nat
    BY <1>1, <1>7, <1>9, SentencesApart
  <2>2. CASE g[1] = f[1]
    BY <1>1, <1>7, <1>9, <2>2, SentencesApart
  <2>3. CASE g[1] # f[1]
    <3>1. g[1] < f[1]
      BY <1>9, <2>1, <2>3
    <3>2. g[2] < f[1]
      BY <1>1, <1>7, <1>9, <3>1, SentencesApart
    <3>3. g[1] <= g[2] /\ g \in (DOMAIN longer) \X (DOMAIN longer) /\ g = <<g[1], g[2]>>
          /\ (g[2] = Len(longer) \/ Stop(longer, g[2]))
      BY <1>9 DEF Sentences
    <3>4. g[1] \in 1..N /\ g[2] \in 1..N /\ g[2] # Len(longer)
      BY <1>5, <2>1, <3>1, <3>2
    <3>5. g \in (DOMAIN whole) \X (DOMAIN whole)
      BY <1>1, <3>3, <3>4 DEF N
    <3>6. Stop(whole, g[2])
      <4>1. Stop(longer, g[2])
        BY <3>3, <3>4
      <4>2. longer[g[2]] = whole[g[2]]
        <5>1. PICK u \in Seq(C) : whole \in Seq(C) /\ longer = whole \o u
          BY DEF Extended
        <5>2. \A k \in 1..(Len(whole) + Len(u)) :
                 longer[k] = IF k <= Len(whole) THEN whole[k] ELSE u[k - Len(whole)]
          BY <5>1, ConcatProperties
        <5>3. Len(u) \in Nat
          BY <5>1, LenProperties
        <5>4. g[2] \in 1..(Len(whole) + Len(u)) /\ g[2] <= Len(whole)
          BY <1>1, <3>4, <5>3 DEF N
        <5> QED
          BY <5>2, <5>4
      <4> QED
        BY <4>1, <4>2 DEF Stop
    <3>7. g \in Sentences(whole) /\ Candidate(longer, g) = Candidate(whole, g)
      BY <1>9, <3>3, <3>5, <3>6, SentencesStay
    <3>8. g \in Substantive(whole)
      BY <1>2, <1>9, <3>7, Zenon
    <3>9. f[1] <= g[1]
      BY <1>1, <1>2, <3>8, FirstSentenceIs DEF f
    <3> QED
      BY <1>5, <3>1, <3>4, <3>9
  <2> QED
    BY <2>2, <2>3
<1>11. /\ Substantive(whole) # {} /\ Meaningful(whole) # {}
       /\ Substantive(longer) # {} /\ Meaningful(longer) # {}
  BY <1>2, <1>3, <1>8
<1>12. /\ SummaryLine(whole) = TruncateWords(Candidate(whole, f))
       /\ SummaryLine(longer) = TruncateWords(Candidate(longer, g))
  BY <1>11 DEF SummaryLine, f, g
<1> QED
  BY <1>7, <1>10, <1>12

(* Once a sentence long enough for the summary line has ended, a line at   *)
(* the end of a description, of whatever kind, takes back no requirement   *)
(* found in a section, nor changes their order: the summary line, which may*)
(* hide them, is the same.                                                 *)
THEOREM RequirementsStay == Spec => MoreTextKeepsRequirements
<1> DEFINE Kind == desc # << >> /\ IsPrefix(desc, desc') /\ Settled(desc)
                   /\ FoundRequirements(desc) # << >>
           Stays == Kind => IsPrefix(Requirements(desc), Requirements(desc'))
<1>1. IsDescription /\ AddLine => Stays
  <2> SUFFICES ASSUME IsDescription, AddLine, Kind
               PROVE  IsPrefix(Requirements(desc), Requirements(desc'))
    OBVIOUS
  <2> DEFINE A == MCFragment
             found == FoundRequirements(desc)
             later == FoundRequirements(desc')
             summary == SummaryLine(Chunks(desc))
             S == Fragment \ (PartsOf(summary) \cup BegunBy(summary))
  <2>1. PICK line \in MCLine : desc' = Append(desc, line)
    BY DEF AddLine
  <2>2. desc \in Seq(LineOf(A)) /\ line \in LineOf(A) /\ MaxRequirements \in Nat
    BY LinesAreLines DEF IsDescription, MaxRequirements
  <2>3. Extended(found, later, A)
    BY <2>1, <2>2, LineAtTheEnd DEF FoundRequirements
  <2>4. SummaryLine(Chunks(desc')) = summary
    <3>1. Extended(Chunks(desc), Chunks(desc'), ChunkOf(A))
      BY <2>1, <2>2, ChunksGrow
    <3>2. \E x \in Substantive(Chunks(desc)) : Stop(Chunks(desc), x[2])
      BY DEF Settled
    <3> QED
      BY <3>1, <3>2, SummaryStays
  <2>5. found # << >>
    OBVIOUS
  <2> HIDE DEF A, found, later
  <2>6. later # << >>
    BY <2>3, <2>5 DEF Extended
  <2>7. Requirements(desc) = Kept(found, S) /\ Requirements(desc') = Kept(later, S)
    BY <2>4, <2>5, <2>6 DEF Requirements, found, later
  <2> HIDE DEF S
  <2>8. Extended(Kept(found, S), Kept(later, S), A)
    BY <2>3, KeptExtended
  <2> QED
    BY <2>7, <2>8, ExtendedIsPrefix
<1>2. Describe => Stays
  <2> SUFFICES ASSUME Describe, Kind PROVE FALSE
    OBVIOUS
  <2> QED
    BY DEF Describe, First
<1>3. StartOver /\ IsDescription => Stays
  <2> SUFFICES ASSUME StartOver, IsDescription, Kind PROVE FALSE
    OBVIOUS
  <2>1. desc' = << >> /\ IsPrefix(desc, desc') /\ desc # << >>
    BY DEF StartOver
  <2>2. Len(desc) <= Len(<< >>)
    BY <2>1 DEF IsPrefix
  <2>3. Len(desc) \in Nat /\ Len(<< >>) = 0
    BY LenProperties DEF IsDescription
  <2>4. Len(desc) = 0
    BY <2>2, <2>3
  <2> QED
    BY <2>1, <2>4, EmptySeq DEF IsDescription
<1>4. UNCHANGED desc => Stays
  <2> SUFFICES ASSUME UNCHANGED desc
               PROVE  IsPrefix(Requirements(desc), Requirements(desc'))
    OBVIOUS
  <2>1. Requirements(desc') = Requirements(desc)
    OBVIOUS
  <2>2. ASSUME NEW s PROVE IsPrefix(s, s)
    BY DEF IsPrefix
  <2> QED
    BY <2>1, <2>2
<1>5. [Next]_vars => Describe \/ AddLine \/ StartOver \/ UNCHANGED desc
  BY DEF Next, vars, NewPost, NewCaption, Type, NewCard, AddWord
<1>6. IsDescription /\ [Next]_vars => [Stays]_vars
  <2> HIDE DEF Stays
  <2> QED
    BY <1>1, <1>2, <1>3, <1>4, <1>5
<1> QED
  BY <1>6, DescriptionInvariant, PTL DEF Spec, MoreTextKeepsRequirements

-----------------------------------------------------------------------------
(***************************************************************************)
(* The escaping of a text for Telegram, and how Telegram reads it.         *)
(***************************************************************************)

(* Escaping a text: a backslash before each character of S.                *)
Escape(C, S) == [c \in C |-> IF c \in S THEN <<Backslash, c>> ELSE <<c>>]

LEMMA EscapeSpreads ==
  ASSUME NEW C, NEW S, Backslash \in C
  PROVE  Spreads(Escape(C, S), C, C)
<1>1. ASSUME NEW c \in C PROVE (IF c \in S THEN <<Backslash, c>> ELSE <<c>>) \in Seq(C)
  OBVIOUS
<1> QED
  BY <1>1 DEF Spreads, Escape

LEMMA ReplacedIs ==
  ASSUME NEW C, NEW s, s \in Seq(C), NEW char
  PROVE  Replaced(s, char) = Spread(s, Escape(C, {char}))
<1>1. \A i \in DOMAIN s : s[i] \in C
  OBVIOUS
<1>2. [i \in DOMAIN s |-> IF s[i] = char THEN <<Backslash, char>> ELSE <<s[i]>>]
        = [i \in DOMAIN s |-> Escape(C, {char})[s[i]]]
  BY <1>1 DEF Escape
<1> QED
  BY <1>2 DEF Replaced, Spread

LEMMA NothingEscaped ==
  ASSUME NEW C, NEW s, s \in Seq(C), Backslash \in C
  PROVE  Spread(s, Escape(C, {})) = s
<1> DEFINE F == Escape(C, {})
           N == Len(s)
           upTo(n) == SubSeq(s, 1, n)
           I == {n \in 0..N : Spread(upTo(n), F) = upTo(n)}
<1>0. N \in Nat /\ (\A n \in 1..N : s[n] \in C) /\ upTo(N) = s /\ upTo(0) = << >>
  BY LenProperties, ElementOfSeq, SubSeqEmpty
<1>1. ASSUME NEW n \in 1..N
      PROVE  upTo(n) = Joined(upTo(n - 1), <<s[n]>>) /\ upTo(n - 1) \in Seq(C)
  BY OneByOne
<1>2. Spreads(F, C, C) /\ \A x \in C : F[x] = <<x>>
  <2>1. Spreads(F, C, C)
    BY EscapeSpreads
  <2>2. \A x \in C : F[x] = <<x>>
    BY DEF Escape
  <2> QED
    BY <2>1, <2>2
<1> HIDE DEF N, upTo, F
<1>3. 0 \in I
  BY <1>0, SpreadNothing
<1>4. ASSUME NEW n \in 1..N, n - 1 \in I PROVE n \in I
  <2> DEFINE t == upTo(n - 1)
             x == s[n]
             one == <<x>>
  <2>1. t \in Seq(C) /\ x \in C /\ upTo(n) = Joined(t, one) /\ n \in 0..N
    BY <1>0, <1>1
  <2>2. one \in Seq(C)
    BY <2>1
  <2>3. Spread(one, F) = one
    BY <1>2, <2>1, SpreadOne
  <2>4. Spread(t, F) = t
    BY <1>4
  <2> HIDE DEF t, one, x
  <2>5. Spread(Joined(t, one), F) = Joined(Spread(t, F), Spread(one, F))
    BY <1>2, <2>1, <2>2, SpreadJoined
  <2> QED
    BY <2>1, <2>3, <2>4, <2>5
<1> HIDE DEF I
<1>5. N \in I
  <2>1. 0..N \subseteq I
    BY <1>0, <1>3, <1>4, Induction
  <2> QED
    BY <1>0, <2>1
<1> QED
  BY <1>0, <1>5 DEF I, F

(* A list of characters to escape, the backslash first and none of them    *)
(* twice.                                                                  *)
IsEscapeOrder(special, C) ==
  /\ special \in Seq(C) /\ special # << >> /\ special[1] = Backslash
  /\ \A i, j \in DOMAIN special : special[i] = special[j] => i = j

(* One character more of it.                                               *)
LEMMA EscapeMore ==
  ASSUME NEW C, NEW special, IsEscapeOrder(special, C), NEW n \in 1..Len(special),
         NEW s, s \in Seq(C)
  PROVE  LET done(k) == {special[i] : i \in 1..k}
         IN  Replaced(Spread(s, Escape(C, done(n - 1))), special[n])
               = Spread(s, Escape(C, done(n)))
<1> DEFINE done(k) == {special[i] : i \in 1..k}
           char == special[n]
           F == Escape(C, done(n - 1))
           G == Escape(C, {char})
           H == Escape(C, done(n))
<1>0. /\ Backslash \in C /\ char \in C /\ Len(special) \in Nat /\ DOMAIN special = 1..Len(special)
      /\ 1 \in DOMAIN special
  BY LenProperties, ElementOfSeq, EmptySeq DEF IsEscapeOrder
<1>1. done(n) = done(n - 1) \cup {char}
  <2>1. 1..n = (1..(n - 1)) \cup {n}
    OBVIOUS
  <2> QED
    BY <2>1
<1>2. char \notin done(n - 1)
  <2>1. \A i \in 1..(n - 1) : i \in DOMAIN special /\ i # n
    BY <1>0
  <2>2. n \in DOMAIN special
    BY <1>0
  <2> QED
    BY <2>1, <2>2 DEF IsEscapeOrder
<1>3. done(n - 1) # {} => char # Backslash
  <2>1. n - 1 # 0 => n # 1 /\ n \in DOMAIN special
    BY <1>0
  <2>2. 1..0 = {}
    OBVIOUS
  <2>3. n - 1 # 0 => char # Backslash
    BY <1>0, <2>1 DEF IsEscapeOrder
  <2>4. n - 1 = 0 => done(n - 1) = {}
    BY <2>2
  <2> QED
    BY <2>3, <2>4
<1>4. Spreads(F, C, C) /\ Spreads(G, C, C) /\ Spreads(H, C, C)
  BY <1>0, EscapeSpreads
<1> HIDE DEF done
<1>5. ASSUME NEW c \in C PROVE H[c] = Spread(F[c], G)
  <2>0. Spread(<<c>>, G) = G[c] /\ Spread(<<Backslash>>, G) = G[Backslash]
    <3> HIDE DEF G
    <3> QED
      BY <1>0, <1>4, SpreadOne
  <2>1. CASE c \in done(n - 1)
    <3> DEFINE b == <<Backslash>>
               o == <<c>>
    <3>1. F[c] = Joined(b, o) /\ H[c] = Joined(b, o)
      <4>1. Joined(<<Backslash>>, <<c>>) = <<Backslash, c>>
        BY <1>0, PairJoined
      <4> QED
        BY <1>1, <2>1, <4>1 DEF Escape
    <3>2. G[c] = o /\ G[Backslash] = b
      BY <1>0, <1>2, <1>3, <2>1 DEF Escape
    <3>3. b \in Seq(C) /\ o \in Seq(C)
      BY <1>0
    <3>4. Spread(o, G) = o /\ Spread(b, G) = b
      BY <2>0, <3>2
    <3> HIDE DEF b, o, F, G, H
    <3>5. Spread(Joined(b, o), G) = Joined(Spread(b, G), Spread(o, G))
      BY <1>4, <3>3, SpreadJoined
    <3> QED
      BY <3>1, <3>4, <3>5
  <2>2. CASE c \notin done(n - 1)
    <3>1. F[c] = <<c>> /\ H[c] = G[c]
      BY <1>1, <2>2 DEF Escape
    <3> HIDE DEF F, G, H
    <3> QED
      BY <2>0, <3>1
  <2> QED
    BY <2>1, <2>2
<1>6. Spread(Spread(s, F), G) = Spread(s, H)
  <2> HIDE DEF F, G, H
  <2> QED
    BY <1>4, <1>5, SpreadSpread
<1>7. Spread(s, F) \in Seq(C)
  <2> HIDE DEF F
  <2> QED
    BY <1>4, SpreadJoined
<1>8. Replaced(Spread(s, F), char) = Spread(Spread(s, F), G)
  <2> HIDE DEF F
  <2> QED
    BY <1>7, ReplacedIs
<1> QED
  BY <1>6, <1>8 DEF done

LEMMA EscapeMarkdownIs ==
  ASSUME NEW C, NEW special, IsEscapeOrder(special, C), NEW s, s \in Seq(C)
  PROVE  EscapeMarkdown(s, special) = Spread(s, Escape(C, ToSet(special)))
<1> DEFINE N == Len(special)
           eqn(f) == f = [n \in 0..N |-> IF n = 0 THEN s ELSE Replaced(f[n - 1], special[n])]
           h == CHOOSE f : eqn(f)
           done(k) == {special[i] : i \in 1..k}
           I == {n \in 0..N : h[n] = Spread(s, Escape(C, done(n)))}
<1>0. N \in Nat /\ Backslash \in C /\ (\A n \in 1..N : special[n] \in C) /\ DOMAIN special = 1..N
  <2>1. 1 \in DOMAIN special
    BY EmptySeq, LenProperties DEF IsEscapeOrder
  <2> QED
    BY <2>1, LenProperties, ElementOfSeq DEF IsEscapeOrder
<1>1. EscapeMarkdown(s, special) = h[N]
  BY DEF EscapeMarkdown, EscapeOrder, ReplacedInTurn
<1>2. ASSUME NEW v \in Seq(C), NEW char PROVE Replaced(v, char) \in Seq(C)
  <2>1. Spreads(Escape(C, {char}), C, C)
    BY <1>0, EscapeSpreads
  <2>2. Replaced(v, char) = Spread(v, Escape(C, {char}))
    BY <1>2, ReplacedIs
  <2> QED
    BY <1>2, <2>1, <2>2, SpreadJoined
<1>3. done(N) = ToSet(special)
  BY <1>0 DEF ToSet
<1>20. ASSUME NEW n \in 1..N
      PROVE  Replaced(Spread(s, Escape(C, done(n - 1))), special[n]) = Spread(s, Escape(C, done(n)))
  BY EscapeMore
<1> HIDE DEF N
<1>4. \E f : eqn(f)
  <2> DEFINE step == [x \in (1..N) \X Seq(C) |-> Replaced(x[2], special[x[1]])]
  <2>1. step \in [(1..N) \X Seq(C) -> Seq(C)]
    <3>1. ASSUME NEW x \in (1..N) \X Seq(C) PROVE Replaced(x[2], special[x[1]]) \in Seq(C)
      <4>1. x[2] \in Seq(C)
        OBVIOUS
      <4> QED
        BY <1>2, <4>1
    <3> QED
      BY <3>1
  <2>2. \A n \in 1..N, v \in Seq(C) : step[<<n, v>>] = Replaced(v, special[n])
    OBVIOUS
  <2> HIDE DEF step
  <2>3. PICK f \in [0..N -> Seq(C)] : FollowsFrom(f, N, s, step)
    BY <1>0, <2>1, Recursion
  <2>4. \A n \in 0..N : f[n] = IF n = 0 THEN s ELSE Replaced(f[n - 1], special[n])
    <3>1. \A n \in 0..N : n # 0 => n \in 1..N /\ n - 1 \in 0..N
      BY <1>0
    <3> QED
      BY <2>2, <2>3, <3>1 DEF FollowsFrom
  <2>5. f = [n \in 0..N |-> f[n]]
    OBVIOUS
  <2> QED
    BY <2>4, <2>5
<1>5. eqn(h)
  BY <1>4
<1>6. h[0] = s /\ \A n \in 1..N : h[n] = Replaced(h[n - 1], special[n])
  <2>1. 0 \in 0..N /\ \A n \in 1..N : n \in 0..N /\ n # 0
    BY <1>0
  <2> HIDE DEF h
  <2> QED
    BY <1>5, <2>1
<1> HIDE DEF h
<1>7. 0 \in I
  <2>1. done(0) = {} /\ 0 \in 0..N
    BY <1>0
  <2> QED
    BY <1>0, <1>6, <2>1, NothingEscaped
<1>8. ASSUME NEW n \in 1..N, n - 1 \in I PROVE n \in I
  <2>1. n \in 0..N /\ h[n - 1] = Spread(s, Escape(C, done(n - 1)))
    BY <1>0, <1>8
  <2> HIDE DEF done
  <2> QED
    BY <1>6, <1>20, <2>1
<1> HIDE DEF I
<1>9. N \in I
  <2>1. 0..N \subseteq I
    BY <1>0, <1>7, <1>8, Induction
  <2> QED
    BY <1>0, <2>1
<1> QED
  BY <1>1, <1>3, <1>9 DEF I

-----------------------------------------------------------------------------
(* A character is literal after a backslash that is not.                   *)
LEMMA LiteralIs ==
  ASSUME NEW s, Len(s) \in Nat, DOMAIN s = 1..Len(s)
  PROVE  /\ Literal(s) \subseteq DOMAIN s
         /\ \A i \in DOMAIN s : i \in Literal(s) <=>
              i > 1 /\ s[i - 1] = Backslash /\ i - 1 \notin Literal(s)
<1> DEFINE N == Len(s)
           eqn(f) == f = [i \in 0..N |-> i > 1 /\ s[i - 1] = Backslash /\ ~f[i - 1]]
           h == CHOOSE f : eqn(f)
<1>1. Literal(s) = {i \in DOMAIN s : h[i]}
  BY DEF Literal
<1>0. N \in Nat /\ DOMAIN s = 1..N
  OBVIOUS
<1> HIDE DEF N
<1>2. \E f : eqn(f)
  <2> DEFINE step == [x \in (1..N) \X BOOLEAN |->
                       (x[1] > 1 /\ s[x[1] - 1] = Backslash /\ ~x[2])]
  <2>1. step \in [(1..N) \X BOOLEAN -> BOOLEAN]
    OBVIOUS
  <2>2. \A n \in 1..N, v \in BOOLEAN :
          step[<<n, v>>] = (n > 1 /\ s[n - 1] = Backslash /\ ~v)
    OBVIOUS
  <2> HIDE DEF step
  <2>3. FALSE \in BOOLEAN
    OBVIOUS
  <2>4. PICK f \in [0..N -> BOOLEAN] : FollowsFrom(f, N, FALSE, step)
    BY <1>0, <2>1, <2>3, Recursion
  <2>5. ASSUME NEW n \in 0..N
        PROVE  f[n] = (n > 1 /\ s[n - 1] = Backslash /\ ~f[n - 1])
    <3>1. CASE n = 0
      <4>1. f[0] = FALSE
        BY <2>4 DEF FollowsFrom
      <4>2. ~(n > 1)
        BY <3>1
      <4> QED
        BY <3>1, <4>1, <4>2, Zenon
    <3>2. CASE n # 0
      <4>1. n \in 1..N /\ n - 1 \in 0..N
        BY <1>0, <3>2
      <4>2. f[n] = step[<<n, f[n - 1]>>] /\ f[n - 1] \in BOOLEAN
        BY <2>4, <4>1 DEF FollowsFrom
      <4> QED
        BY <2>2, <4>1, <4>2, Zenon
    <3> QED
      BY <3>1, <3>2
  <2>6. f = [n \in 0..N |-> f[n]]
    OBVIOUS
  <2>7. f = [n \in 0..N |-> (n > 1 /\ s[n - 1] = Backslash /\ ~f[n - 1])]
    BY <2>5, <2>6, Zenon
  <2> QED
    BY <2>7, Zenon
<1>3. eqn(h)
  BY <1>2, Zenon
<1>4. \A n \in 0..N : h[n] = (n > 1 /\ s[n - 1] = Backslash /\ ~h[n - 1])
  <2> HIDE DEF h
  <2> QED
    BY <1>3, Zenon
<1> HIDE DEF h
<1>5. Literal(s) \subseteq DOMAIN s
  BY <1>1
<1>6. ASSUME NEW i \in DOMAIN s
      PROVE  i \in Literal(s) <=> i > 1 /\ s[i - 1] = Backslash /\ i - 1 \notin Literal(s)
  <2>1. i \in 0..N
    BY <1>0
  <2>2. i \in Literal(s) <=> i > 1 /\ s[i - 1] = Backslash /\ ~h[i - 1]
    BY <1>1, <1>4, <2>1, Zenon
  <2>3. i > 1 => i - 1 \in DOMAIN s
    BY <1>0
  <2>4. i > 1 => (i - 1 \in Literal(s) <=> h[i - 1])
    BY <1>1, <2>3, Zenon
  <2> QED
    BY <2>2, <2>4, Zenon
<1> QED
  BY <1>5, <1>6

(* The text ends with a backslash that makes the next character literal.   *)
Pending(s) == s # << >> /\ s[Len(s)] = Backslash /\ Len(s) \notin Literal(s)

LEMMA LiteralAppend ==
  ASSUME NEW C, NEW s, s \in Seq(C), NEW y \in C
  PROVE  LET t == Append(s, y)
         IN  /\ \A i \in 1..Len(s) : i \in Literal(t) <=> i \in Literal(s)
             /\ Len(t) \in Literal(t) <=> Pending(s)
             /\ Pending(t) <=> y = Backslash /\ ~Pending(s)
<1> DEFINE t == Append(s, y)
           N == Len(s)
           I == {i \in 0..N : i = 0 \/ (i \in Literal(t) <=> i \in Literal(s))}
<1>1. /\ N \in Nat /\ DOMAIN s = 1..N /\ Len(t) = N + 1 /\ DOMAIN t = 1..(N + 1)
      /\ t[N + 1] = y /\ \A i \in 1..N : t[i] = s[i]
  BY AppendProperties, LenProperties
<1> HIDE DEF t
<1>2. \A i \in 1..N : i \in Literal(s) <=>
        i > 1 /\ s[i - 1] = Backslash /\ i - 1 \notin Literal(s)
  BY <1>1, LiteralIs DEF N
<1>3. \A i \in 1..(N + 1) : i \in Literal(t) <=>
        i > 1 /\ t[i - 1] = Backslash /\ i - 1 \notin Literal(t)
  <2>1. Len(t) \in Nat /\ DOMAIN t = 1..Len(t)
    BY <1>1
  <2> QED
    BY <1>1, <2>1, LiteralIs
<1>20. N = 0 <=> s = << >>
  BY EmptySeq
<1>21. Len(s) = N
  OBVIOUS
<1> HIDE DEF N
<1>4. 0 \in I
  BY <1>1
<1>5. ASSUME NEW i \in 1..N, i - 1 \in I PROVE i \in I
  <2>1. i \in 0..N /\ i \in 1..(N + 1) /\ (i > 1 => i - 1 \in 1..N /\ i - 1 # 0)
    BY <1>1
  <2>2. i > 1 => t[i - 1] = s[i - 1] /\ (i - 1 \in Literal(t) <=> i - 1 \in Literal(s))
    BY <1>1, <1>5, <2>1
  <2> QED
    BY <1>2, <1>3, <2>1, <2>2
<1>6. \A i \in 1..N : i \in Literal(t) <=> i \in Literal(s)
  <2> HIDE DEF I
  <2>1. 0..N \subseteq I
    BY <1>1, <1>4, <1>5, Induction
  <2>2. \A i \in 1..N : i \in 0..N /\ i # 0
    BY <1>1
  <2> QED
    BY <2>1, <2>2 DEF I
<1>7. N + 1 \in Literal(t) <=> Pending(s)
  <2>1. N + 1 \in 1..(N + 1) /\ (N + 1) - 1 = N /\ (N + 1 > 1 <=> N # 0)
    BY <1>1
  <2>2. N # 0 => N \in 1..N
    BY <1>1
  <2>3. N + 1 \in Literal(t) <=> N # 0 /\ t[N] = Backslash /\ N \notin Literal(t)
    BY <1>3, <2>1
  <2>4. N # 0 => t[N] = s[N] /\ (N \in Literal(t) <=> N \in Literal(s))
    BY <1>1, <1>6, <2>2
  <2>5. Pending(s) <=> N # 0 /\ s[N] = Backslash /\ N \notin Literal(s)
    BY <1>20, <1>21 DEF Pending
  <2> QED
    BY <2>3, <2>4, <2>5
<1>8. Pending(t) <=> y = Backslash /\ ~Pending(s)
  <2>1. t # << >>
    <3>1. N + 1 # 0 /\ Len(<< >>) = 0
      BY <1>1
    <3> QED
      BY <1>1, <3>1
  <2> QED
    BY <1>1, <1>7, <2>1 DEF Pending
<1> QED
  BY <1>1, <1>6, <1>7, <1>8, <1>21 DEF t

LEMMA UnescapedAppend ==
  ASSUME NEW C, NEW s, s \in Seq(C), NEW y \in C
  PROVE  /\ Unescaped(s) \in Seq(C)
         /\ Unescaped(Append(s, y)) =
              IF Pending(s) \/ y # Backslash THEN Append(Unescaped(s), y) ELSE Unescaped(s)
<1> DEFINE t == Append(s, y)
           N == Len(s)
           shown(u, i) == IF i \in Literal(u) \/ u[i] # Backslash THEN <<u[i]>> ELSE << >>
           a == [i \in DOMAIN s |-> shown(s, i)]
           b == [i \in DOMAIN t |-> shown(t, i)]
           last == IF Pending(s) \/ y # Backslash THEN <<y>> ELSE << >>
           S == Seq(C)
<1>1. /\ N \in Nat /\ DOMAIN s = 1..N /\ Len(t) = N + 1 /\ DOMAIN t = 1..(N + 1)
      /\ t[N + 1] = y /\ \A i \in 1..N : t[i] = s[i] /\ s[i] \in C
  BY AppendProperties, LenProperties, ElementOfSeq
<1>2. /\ \A i \in 1..N : i \in Literal(t) <=> i \in Literal(s)
      /\ N + 1 \in Literal(t) <=> Pending(s)
  BY <1>1, LiteralAppend
<1>3. Unescaped(s) = FlattenSeq(a) /\ Unescaped(t) = FlattenSeq(b)
  BY DEF Unescaped
<1> HIDE DEF t, N
<1>4. \A i \in 1..N : shown(s, i) \in S /\ shown(t, i) = shown(s, i)
  BY <1>1, <1>2
<1>5. shown(t, N + 1) = last /\ last \in S
  BY <1>1, <1>2
<1> HIDE DEF shown, S, last
<1>6. a \in Seq(S) /\ Len(a) = N /\ \A i \in 1..N : a[i] = shown(s, i)
  <2>1. a \in [1..N -> S]
    BY <1>1, <1>4
  <2> QED
    BY <1>1, <2>1
<1>7. b \in Seq(S) /\ Len(b) = N + 1 /\ (\A i \in 1..N : b[i] = shown(s, i)) /\ b[N + 1] = last
  <2>1. \A i \in 1..(N + 1) : i = N + 1 \/ i \in 1..N
    BY <1>1
  <2>2. \A i \in 1..(N + 1) : shown(t, i) \in S
    BY <1>4, <1>5, <2>1
  <2>3. b \in [1..(N + 1) -> S]
    BY <1>1, <2>2
  <2>4. \A i \in 1..N : i \in 1..(N + 1)
    BY <1>1
  <2> QED
    BY <1>1, <1>4, <1>5, <2>3, <2>4
<1> HIDE DEF a, b
<1>8. b = Append(a, last)
  <2> DEFINE c == Append(a, last)
  <2>1. c \in Seq(S) /\ Len(c) = N + 1 /\ c[N + 1] = last /\ \A i \in 1..N : c[i] = a[i]
    BY <1>5, <1>6, AppendProperties
  <2> HIDE DEF c
  <2>2. \A i \in 1..(N + 1) : i = N + 1 \/ i \in 1..N
    BY <1>1
  <2>3. \A i \in 1..(N + 1) : b[i] = c[i]
    BY <1>6, <1>7, <2>1, <2>2
  <2>4. b = c
    BY <1>7, <2>1, <2>3, SeqEqual
  <2> QED
    BY <2>4 DEF c
<1>9. FlattenSeq(b) = FlattenSeq(a) \o last /\ FlattenSeq(a) \in Seq(C)
  BY <1>5, <1>6, <1>8, FlattenAppend, FlattenType DEF S
<1> DEFINE e == FlattenSeq(a)
<1>10. e \in Seq(C) /\ FlattenSeq(b) = e \o last
  BY <1>9
<1> HIDE DEF e
<1>11. /\ e \o << >> = e /\ e \o <<y>> = Append(e, y)
  BY <1>10, AppendIsConcat
<1>12. FlattenSeq(b) = IF Pending(s) \/ y # Backslash THEN Append(e, y) ELSE e
  BY <1>10, <1>11 DEF last
<1> QED
  BY <1>3, <1>10, <1>12 DEF e, t

-----------------------------------------------------------------------------
(* A text that reads as it should: nothing pending, no character of S      *)
(* taken for markup.                                                       *)
ReadsAs(sent, plain, S) ==
  /\ Unescaped(sent) = plain /\ ~Pending(sent)
  /\ \A i \in DOMAIN sent \ Literal(sent) : sent[i] \in S => sent[i] = Backslash

LEMMA PlainCharacter ==
  ASSUME NEW C, NEW sent, sent \in Seq(C), NEW plain, NEW S, ReadsAs(sent, plain, S),
         NEW c \in C, c \notin S, c # Backslash
  PROVE  ReadsAs(Append(sent, c), Append(plain, c), S)
<1> DEFINE t == Append(sent, c)
           N == Len(sent)
<1>1. /\ N \in Nat /\ DOMAIN sent = 1..N /\ Len(t) = N + 1 /\ DOMAIN t = 1..(N + 1)
      /\ t[N + 1] = c /\ \A i \in 1..N : t[i] = sent[i]
  BY AppendProperties, LenProperties
<1>2. /\ \A i \in 1..N : i \in Literal(t) <=> i \in Literal(sent)
      /\ Pending(t) <=> c = Backslash /\ ~Pending(sent)
  BY LiteralAppend
<1>3. Unescaped(t) = Append(Unescaped(sent), c)
  BY UnescapedAppend
<1> HIDE DEF t, N
<1>4. ASSUME NEW i \in DOMAIN t \ Literal(t), t[i] \in S PROVE t[i] = Backslash
  <2>1. i # N + 1
    BY <1>1, <1>4
  <2>2. i \in 1..N
    BY <1>1, <2>1
  <2> QED
    BY <1>1, <1>2, <1>4, <2>2 DEF ReadsAs
<1> QED
  BY <1>2, <1>3, <1>4 DEF ReadsAs, t

LEMMA EscapedCharacter ==
  ASSUME NEW C, NEW sent, sent \in Seq(C), NEW plain, NEW S, ReadsAs(sent, plain, S),
         NEW c \in C, Backslash \in C
  PROVE  ReadsAs(Append(Append(sent, Backslash), c), Append(plain, c), S)
<1> DEFINE u == Append(sent, Backslash)
           t == Append(u, c)
           N == Len(sent)
<1>1. /\ N \in Nat /\ DOMAIN sent = 1..N /\ u \in Seq(C) /\ Len(u) = N + 1
      /\ u[N + 1] = Backslash /\ \A i \in 1..N : u[i] = sent[i]
  BY AppendProperties, LenProperties
<1>2. /\ \A i \in 1..N : i \in Literal(u) <=> i \in Literal(sent)
      /\ Pending(u)
  BY LiteralAppend DEF ReadsAs
<1>3. Unescaped(u) = Unescaped(sent)
  BY UnescapedAppend DEF ReadsAs
<1> HIDE DEF u, N
<1>4. /\ Len(t) = N + 2 /\ DOMAIN t = 1..(N + 2) /\ t[N + 2] = c
      /\ \A i \in 1..(N + 1) : t[i] = u[i]
  <2>1. /\ Len(t) = (N + 1) + 1 /\ DOMAIN t = 1..((N + 1) + 1) /\ t[(N + 1) + 1] = c
        /\ \A i \in 1..(N + 1) : t[i] = u[i]
    BY <1>1, AppendProperties
  <2> QED
    BY <1>1, <2>1
<1>5. /\ \A i \in 1..(N + 1) : i \in Literal(t) <=> i \in Literal(u)
      /\ N + 2 \in Literal(t) /\ ~Pending(t)
  <2>1. /\ \A i \in 1..Len(u) : i \in Literal(t) <=> i \in Literal(u)
        /\ Len(t) \in Literal(t) <=> Pending(u)
        /\ Pending(t) <=> c = Backslash /\ ~Pending(u)
    BY <1>1, LiteralAppend
  <2> QED
    BY <1>1, <1>2, <1>4, <2>1
<1>6. Unescaped(t) = Append(Unescaped(sent), c)
  BY <1>1, <1>2, <1>3, UnescapedAppend
<1> HIDE DEF t
<1>7. ASSUME NEW i \in DOMAIN t \ Literal(t), t[i] \in S PROVE t[i] = Backslash
  <2>1. i \in 1..(N + 1)
    BY <1>1, <1>4, <1>5
  <2>2. CASE i = N + 1
    BY <1>1, <1>4, <2>1, <2>2
  <2>3. CASE i # N + 1
    <3>1. i \in 1..N
      BY <1>1, <2>1, <2>3
    <3> QED
      BY <1>1, <1>2, <1>4, <1>5, <1>7, <2>1, <3>1 DEF ReadsAs
  <2> QED
    BY <2>2, <2>3
<1> QED
  BY <1>5, <1>6, <1>7 DEF ReadsAs, t, u

(* Whatever the characters and the text, if the backslash is escaped first *)
(* a text reads as it was.                                                 *)
THEOREM EscapingIsUndone ==
  ASSUME NEW C, NEW special, IsEscapeOrder(special, C), NEW s, s \in Seq(C)
  PROVE  ReadsAs(EscapeMarkdown(s, special), s, ToSet(special))
<1> DEFINE S == ToSet(special)
           F == Escape(C, S)
           N == Len(s)
           upTo(n) == SubSeq(s, 1, n)
           I == {n \in 0..N : ReadsAs(Spread(upTo(n), F), upTo(n), S)}
<1>0. N \in Nat /\ upTo(N) = s /\ upTo(0) = << >>
  BY LenProperties, SubSeqEmpty
<1>1. Backslash \in C /\ Backslash \in S
  <2>1. 1 \in DOMAIN special /\ Len(special) \in Nat /\ DOMAIN special = 1..Len(special)
    BY EmptySeq, LenProperties DEF IsEscapeOrder
  <2>2. special[1] \in C /\ special[1] \in S
    BY <2>1, ElementOfSeq DEF IsEscapeOrder, ToSet
  <2> QED
    BY <2>2 DEF IsEscapeOrder
<1>2. Spreads(F, C, C)
  BY <1>1, EscapeSpreads
<1>3. ASSUME NEW n \in 1..N
      PROVE  /\ upTo(n) = Joined(upTo(n - 1), <<s[n]>>)
             /\ upTo(n - 1) \in Seq(C) /\ s[n] \in C /\ <<s[n]>> \in Seq(C)
  BY OneByOne
<1>4. \A c \in C : F[c] = IF c \in S THEN <<Backslash, c>> ELSE <<c>>
  BY DEF Escape
<1>5. EscapeMarkdown(s, special) = Spread(s, F)
  BY EscapeMarkdownIs
<1> HIDE DEF N, upTo, F, S
<1>6. 0 \in I
  <2>1. Spread(upTo(0), F) = << >>
    BY <1>0, SpreadNothing
  <2>2. Len(<< >>) = 0 /\ DOMAIN << >> = {} /\ ~Pending(<< >>)
    BY DEF Pending
  <2>3. Unescaped(<< >>) = << >>
    <3>1. [i \in DOMAIN << >> |-> IF i \in Literal(<< >>) \/ << >>[i] # Backslash
                                  THEN <<(<< >>[i])>> ELSE << >>] = << >>
      OBVIOUS
    <3> QED
      BY <3>1, FlattenEmpty DEF Unescaped
  <2>4. ReadsAs(<< >>, << >>, S)
    BY <2>2, <2>3 DEF ReadsAs
  <2> QED
    BY <1>0, <2>1, <2>4
<1>7. ASSUME NEW n \in 1..N, n - 1 \in I PROVE n \in I
  <2> DEFINE t == upTo(n - 1)
             c == s[n]
             one == <<c>>
             sent == Spread(t, F)
  <2>1. /\ t \in Seq(C) /\ c \in C /\ one \in Seq(C) /\ upTo(n) = Joined(t, one) /\ n \in 0..N
        /\ ReadsAs(sent, t, S)
    BY <1>0, <1>3, <1>7
  <2>2. Spread(one, F) = F[c]
    BY <1>2, <2>1, SpreadOne
  <2> HIDE DEF t, c
  <2>3. Joined(t, one) = Append(t, c)
    BY <2>1, AppendIsConcat DEF Joined
  <2> HIDE DEF one
  <2>4. Spread(Joined(t, one), F) = Joined(sent, F[c]) /\ sent \in Seq(C)
    <3>1. t \in Seq(C) /\ one \in Seq(C)
      BY <2>1
    <3>2. Spread(Joined(t, one), F) = Joined(Spread(t, F), Spread(one, F)) /\ Spread(t, F) \in Seq(C)
      BY <1>2, <3>1, SpreadJoined
    <3> QED
      BY <2>2, <3>2
  <2> HIDE DEF sent
  <2>5. CASE c \in S
    <3>1. Joined(sent, <<Backslash, c>>) = Append(Append(sent, Backslash), c)
      <4> DEFINE bs == Backslash
      <4>1. bs \in C
        BY <1>1
      <4> HIDE DEF bs
      <4>2. sent \o <<bs, c>> = Append(Append(sent, bs), c)
        BY <2>1, <2>4, <4>1
      <4> QED
        BY <4>2 DEF bs, Joined
    <3>2. ReadsAs(Append(Append(sent, Backslash), c), Append(t, c), S)
      BY <1>1, <2>1, <2>4, EscapedCharacter
    <3> QED
      BY <1>4, <2>1, <2>3, <2>4, <2>5, <3>1, <3>2
  <2>6. CASE c \notin S
    <3>1. Joined(sent, <<c>>) = Append(sent, c)
      BY <2>1, <2>4, AppendIsConcat DEF Joined
    <3>2. c # Backslash
      BY <1>1, <2>6
    <3>3. ReadsAs(Append(sent, c), Append(t, c), S)
      BY <2>1, <2>4, <2>6, <3>2, PlainCharacter
    <3> QED
      BY <1>4, <2>1, <2>3, <2>4, <2>6, <3>1, <3>3
  <2> QED
    BY <2>5, <2>6
<1> HIDE DEF I
<1>8. N \in I
  <2>1. 0..N \subseteq I
    BY <1>0, <1>6, <1>7, Induction
  <2> QED
    BY <1>0, <2>1
<1> QED
  BY <1>0, <1>5, <1>8 DEF I, S

IsText == text \in Seq(ToSet(Special) \cup {"x"})

LEMMA TextInvariant == Spec => []IsText
<1> DEFINE C == ToSet(Special) \cup {"x"}
<1>0. << >> \in Seq(C)
  OBVIOUS
<1>1. Init => IsText
  BY DEF Init, First, IsText
<1>2. IsText /\ [Next]_vars => IsText'
  <2> SUFFICES ASSUME IsText, [Next]_vars PROVE IsText'
    OBVIOUS
  <2>1. CASE Type
    <3>1. PICK char \in C : text' = Append(text, char)
      BY <2>1 DEF Type
    <3>2. text \in Seq(C)
      BY DEF IsText
    <3> HIDE DEF C
    <3>3. Append(text, char) \in Seq(C)
      BY <3>1, <3>2, AppendProperties
    <3> QED
      BY <3>1, <3>3 DEF IsText, C
  <2>2. CASE StartOver
    BY <2>2 DEF StartOver, IsText
  <2>3. CASE UNCHANGED text
    BY <2>3 DEF IsText
  <2>4. [Next]_vars => Type \/ StartOver \/ UNCHANGED text
    BY DEF Next, vars, NewPost, NewCaption, Describe, AddLine, NewCard, AddWord
  <2> QED
    BY <2>1, <2>2, <2>3, <2>4
<1> QED
  BY <1>1, <1>2, PTL DEF Spec

(* So it is for the characters of the runs.                                *)
THEOREM TextsReadBack == Spec => []EscapedReadsBack
<1> DEFINE C == ToSet(Special) \cup {"x"}
<1>1. IsEscapeOrder(Special, C)
  <2>1. Len(Special) = 3 /\ DOMAIN Special = 1..3
        /\ Special[1] = "\\" /\ Special[2] = "*" /\ Special[3] = "-"
    BY DEF Special, Backslash
  <2>2. \A i \in DOMAIN Special : Special[i] \in C
    BY DEF ToSet
  <2>3. Special \in Seq(C) /\ Special # << >>
    <3> DEFINE a == Special[1]
               b == Special[2]
               c == Special[3]
    <3>1. a \in C /\ b \in C /\ c \in C
      BY <2>1, <2>2
    <3>2. Special = <<a, b, c>>
      BY <2>1 DEF Special, Backslash
    <3> HIDE DEF a, b, c, C
    <3>3. <<a, b, c>> \in Seq(C) /\ <<a, b, c>> # << >>
      BY <3>1
    <3> QED
      BY <3>2, <3>3
  <2>4. \A i, j \in DOMAIN Special : Special[i] = Special[j] => i = j
    BY <2>1
  <2> QED
    BY <2>1, <2>3, <2>4 DEF IsEscapeOrder, Backslash
<1>2. IsText => EscapedReadsBack
  <2> SUFFICES ASSUME IsText PROVE EscapedReadsBack
    OBVIOUS
  <2>1. text \in Seq(C)
    BY DEF IsText
  <2> HIDE DEF C
  <2>2. ReadsAs(EscapeMarkdown(text, Special), text, ToSet(Special))
    BY <1>1, <2>1, EscapingIsUndone
  <2> QED
    BY <2>2 DEF EscapedReadsBack, ReadsAs, Markup
<1> QED
  BY <1>2, TextInvariant, PTL

-----------------------------------------------------------------------------
(***************************************************************************)
(* The cards.                                                              *)
(***************************************************************************)

(* Lines that hold what fits on them: a word of its own may stick out, and *)
(* no line could take the first word of the next.                          *)
Fitting(lines, width) ==
  /\ \A i \in DOMAIN lines :
       lines[i] # << >> /\ (LineWidth(lines[i]) <= width \/ Len(lines[i]) = 1)
  /\ \A i \in 1..(Len(lines) - 1) :
       ~(LineWidth(Append(lines[i], Head(lines[i + 1]))) <= width)

(* What the loop of _wrap has after n of the words: all of them placed    *)
(* or, once it has stopped, the lines full and a word lost.                *)
Placed(st, words, n, T, width, max) ==
  /\ st.full \in Seq(Seq(T)) /\ st.current \in Seq(T)
  /\ IF st.stopped
     THEN /\ Len(st.full) = max /\ Fitting(st.full, width)
          /\ \E m \in 0..(n - 1) : FlattenSeq(st.full) = SubSeq(words, 1, m)
     ELSE IF st.current = << >> THEN n = 0 /\ st.full = << >>
     ELSE /\ Len(st.full) < max /\ Fitting(Append(st.full, st.current), width)
          /\ FlattenSeq(Append(st.full, st.current)) = SubSeq(words, 1, n)

LEMMA LineGrows ==
  ASSUME NEW T, NEW full \in Seq(Seq(T)), NEW current \in Seq(T), current # << >>,
         NEW word \in T, NEW width, Fitting(Append(full, current), width),
         LineWidth(Append(current, word)) <= width
  PROVE  Fitting(Append(full, Append(current, word)), width)
<1> DEFINE L == Append(full, current)
           trial == Append(current, word)
           M == Append(full, trial)
           N == Len(full)
<1>1. trial \in Seq(T) /\ trial # << >> /\ Head(trial) = Head(current)
  <2>1. /\ trial \in Seq(T) /\ Len(trial) = Len(current) + 1 /\ Len(current) \in Nat
        /\ \A i \in 1..Len(current) : trial[i] = current[i]
    BY AppendProperties, LenProperties
  <2>2. 1 \in 1..Len(current) /\ Head(current) = current[1] /\ Head(trial) = trial[1]
    BY EmptySeq
  <2> QED
    BY <2>1, <2>2
<1>2. /\ N \in Nat /\ Len(L) = N + 1 /\ Len(M) = N + 1
      /\ DOMAIN L = 1..(N + 1) /\ DOMAIN M = 1..(N + 1)
      /\ L[N + 1] = current /\ M[N + 1] = trial /\ \A i \in 1..N : L[i] = M[i]
  BY <1>1, AppendProperties, LenProperties
<1>3. Fitting(L, width) /\ LineWidth(trial) <= width
  OBVIOUS
<1> HIDE DEF L, M, N, trial
<1>4. \A i \in DOMAIN M : M[i] # << >> /\ (LineWidth(M[i]) <= width \/ Len(M[i]) = 1)
  <2>1. \A i \in 1..(N + 1) : i = N + 1 \/ i \in 1..N
    BY <1>2
  <2> QED
    BY <1>1, <1>2, <1>3, <2>1 DEF Fitting
<1>5. ASSUME NEW i \in 1..(Len(M) - 1)
      PROVE  ~(LineWidth(Append(M[i], Head(M[i + 1]))) <= width)
  <2>1. i \in 1..N /\ i \in 1..(Len(L) - 1) /\ (i + 1 = N + 1 \/ i + 1 \in 1..N)
    BY <1>2
  <2>2. M[i] = L[i] /\ Head(M[i + 1]) = Head(L[i + 1])
    BY <1>1, <1>2, <2>1
  <2> QED
    BY <1>3, <2>1, <2>2 DEF Fitting
<1> QED
  BY <1>4, <1>5 DEF Fitting, M, trial

LEMMA LongerLine ==
  ASSUME NEW T, NEW full, NEW current, NEW word,
         full \in Seq(Seq(T)), current \in Seq(T), word \in T
  PROVE  FlattenSeq(Append(full, Append(current, word)))
           = FlattenSeq(Append(full, current)) \o <<word>>
<1> DEFINE head == FlattenSeq(full)
           one == <<word>>
           trial == Append(current, word)
<1>1. head \in Seq(T) /\ one \in Seq(T) /\ trial \in Seq(T) /\ trial = current \o one
  BY FlattenType, AppendProperties, AppendIsConcat
<1> HIDE DEF one, trial
<1>2. FlattenSeq(Append(full, trial)) = head \o trial
  BY <1>1, FlattenAppend
<1>3. FlattenSeq(Append(full, current)) = head \o current
  BY FlattenAppend
<1> HIDE DEF head
<1>4. head \o trial = (head \o current) \o one
  <2>1. head \in Seq(T) /\ current \in Seq(T) /\ one \in Seq(T)
    BY <1>1
  <2>2. (head \o current) \o one = head \o (current \o one)
    BY <2>1, ConcatAssociative
  <2> QED
    BY <1>1, <2>2
<1> QED
  BY <1>2, <1>3, <1>4 DEF one, trial

LEMMA NextLine ==
  ASSUME NEW T, NEW lines \in Seq(Seq(T)), lines # << >>, NEW word \in T, NEW width,
         Fitting(lines, width), ~(LineWidth(Append(lines[Len(lines)], word)) <= width)
  PROVE  Fitting(Append(lines, <<word>>), width)
<1> DEFINE one == <<word>>
           M == Append(lines, one)
           N == Len(lines)
<1>1. one \in Seq(T) /\ one # << >> /\ Head(one) = word /\ Len(one) = 1
  OBVIOUS
<1>2. /\ N \in Nat /\ N # 0 /\ Len(M) = N + 1 /\ DOMAIN M = 1..(N + 1) /\ DOMAIN lines = 1..N
      /\ M[N + 1] = one /\ \A i \in 1..N : M[i] = lines[i]
  BY <1>1, AppendProperties, LenProperties, EmptySeq
<1> HIDE DEF M, N, one
<1>3. \A i \in DOMAIN M : M[i] # << >> /\ (LineWidth(M[i]) <= width \/ Len(M[i]) = 1)
  <2>1. \A i \in 1..(N + 1) : i = N + 1 \/ i \in 1..N
    BY <1>2
  <2> QED
    BY <1>1, <1>2, <2>1 DEF Fitting
<1>4. ASSUME NEW i \in 1..(Len(M) - 1)
      PROVE  ~(LineWidth(Append(M[i], Head(M[i + 1]))) <= width)
  <2>1. i \in 1..N /\ (i = N \/ (i \in 1..(N - 1) /\ i + 1 \in 1..N))
    BY <1>2
  <2>2. CASE i = N
    BY <1>1, <1>2, <2>1, <2>2 DEF N
  <2>3. CASE i \in 1..(N - 1) /\ i + 1 \in 1..N
    BY <1>2, <2>1, <2>3 DEF Fitting, N
  <2> QED
    BY <2>1, <2>2, <2>3
<1> QED
  BY <1>3, <1>4 DEF Fitting, M, one

LEMMA OneLineFits ==
  ASSUME NEW T, NEW word \in T, NEW width
  PROVE  /\ Fitting(Append(<< >>, <<word>>), width)
         /\ FlattenSeq(Append(<< >>, <<word>>)) = <<word>>
         /\ << >> \in Seq(Seq(T)) /\ <<word>> \in Seq(T)
<1> DEFINE one == <<word>>
           none == << >>
           L == Append(none, one)
<1>1. one \in Seq(T) /\ one # << >> /\ Len(one) = 1 /\ none \in Seq(Seq(T)) /\ << >> \o one = one
  OBVIOUS
<1> HIDE DEF one
<1>2. Len(L) = 1 /\ DOMAIN L = {1} /\ L[1] = one
  OBVIOUS
<1> HIDE DEF none
<1>3. FlattenSeq(L) = FlattenSeq(none) \o one
  BY <1>1, FlattenAppend
<1> HIDE DEF L
<1>4. Fitting(L, width)
  BY <1>1, <1>2 DEF Fitting
<1> QED
  BY <1>1, <1>3, <1>4, FlattenEmpty DEF L, one, none

-----------------------------------------------------------------------------
LEMMA PlaceWordStep ==
  ASSUME NEW T, NEW words \in Seq(T), NEW n \in 1..Len(words), NEW width,
         NEW max \in Nat \ {0}, NEW st, Placed(st, words, n - 1, T, width, max),
         st \in [full : Seq(Seq(T)), current : Seq(T), stopped : BOOLEAN]
  PROVE  Placed(PlaceWord(st, words[n], width, max), words, n, T, width, max)
<1> DEFINE word == words[n]
           trial == Append(st.current, word)
           next == PlaceWord(st, word, width, max)
<1>0. /\ Len(words) \in Nat /\ n \in Nat /\ word \in T
      /\ SubSeq(words, 1, n) = SubSeq(words, 1, n - 1) \o <<word>>
  <2>1. Len(words) \in Nat /\ n \in Nat /\ word \in T /\ 1 \in 1..Len(words) /\ n \in 1..Len(words)
    BY LenProperties, ElementOfSeq
  <2> QED
    BY <2>1, SubSeqRecursiveSecond
<1> HIDE DEF word
<1>1. CASE st.stopped
  <2>1. next = st
    BY <1>1 DEF PlaceWord
  <2>2. \A m \in 0..((n - 1) - 1) : m \in 0..(n - 1)
    BY <1>0
  <2> QED
    BY <1>1, <2>1, <2>2 DEF Placed, word
<1>2. CASE ~st.stopped /\ st.current = << >>
  <2>1. n = 1 /\ st.full = << >>
    BY <1>0, <1>2 DEF Placed
  <2>2. trial = <<word>>
    BY <1>0, <1>2
  <2>3. next = [st EXCEPT !.current = trial]
    BY <1>2 DEF PlaceWord
  <2>4. next.full = << >> /\ next.current = <<word>> /\ ~next.stopped
    BY <1>2, <2>1, <2>2, <2>3
  <2>5. SubSeq(words, 1, n) = <<word>>
    <3>1. SubSeq(words, 1, 0) = << >> /\ n - 1 = 0
      BY <2>1, SubSeqEmpty
    <3>2. << >> \o <<word>> = <<word>>
      BY <1>0
    <3> QED
      BY <1>0, <3>1, <3>2
  <2> HIDE DEF next
  <2>6. /\ Fitting(Append(next.full, next.current), width)
        /\ FlattenSeq(Append(next.full, next.current)) = <<word>>
        /\ next.full \in Seq(Seq(T)) /\ next.current \in Seq(T)
    BY <1>0, <2>4, OneLineFits
  <2>7. Len(next.full) < max /\ next.current # << >>
    <3>1. Len(next.full) = 0
      BY <2>4
    <3> QED
      BY <2>4, <3>1
  <2>8. FlattenSeq(Append(next.full, next.current)) = SubSeq(words, 1, n)
    BY <2>5, <2>6
  <2>9. Placed(next, words, n, T, width, max)
    BY <2>4, <2>6, <2>7, <2>8 DEF Placed
  <2> QED
    BY <2>9 DEF next, word
<1>3. CASE ~st.stopped /\ st.current # << >>
  <2>0. /\ st.full \in Seq(Seq(T)) /\ st.current \in Seq(T)
        /\ Len(st.full) < max /\ Len(st.full) \in Nat
        /\ Fitting(Append(st.full, st.current), width)
        /\ FlattenSeq(Append(st.full, st.current)) = SubSeq(words, 1, n - 1)
    BY <1>3, LenProperties DEF Placed
  <2>1. CASE LineWidth(trial) <= width
    <3>1. next = [st EXCEPT !.current = trial]
      BY <1>3, <2>1 DEF PlaceWord
    <3>2. next.full = st.full /\ next.current = trial /\ ~next.stopped
      BY <1>3, <3>1
    <3>3. trial \in Seq(T) /\ trial # << >> /\ trial = st.current \o <<word>>
      BY <1>0, <2>0, AppendProperties, AppendIsConcat
    <3>4. Fitting(Append(st.full, trial), width)
      BY <1>0, <1>3, <2>0, <2>1, LineGrows
    <3>9. FlattenSeq(Append(st.full, trial)) = SubSeq(words, 1, n)
      <4> DEFINE f == st.full
                 c == st.current
      <4>1. f \in Seq(Seq(T)) /\ c \in Seq(T) /\ word \in T
        BY <1>0, <2>0
      <4>2. FlattenSeq(Append(f, c)) = SubSeq(words, 1, n - 1)
        BY <2>0
      <4> HIDE DEF f, c
      <4>3. FlattenSeq(Append(f, Append(c, word))) = FlattenSeq(Append(f, c)) \o <<word>>
        BY <4>1, LongerLine
      <4>4. FlattenSeq(Append(f, Append(c, word))) = SubSeq(words, 1, n)
        BY <1>0, <4>2, <4>3
      <4> QED
        BY <4>4 DEF f, c
    <3> HIDE DEF next, trial
    <3>10. Placed(next, words, n, T, width, max)
      BY <2>0, <3>2, <3>3, <3>4, <3>9 DEF Placed
    <3> QED
      BY <3>10 DEF next, word
  <2>2. CASE ~(LineWidth(trial) <= width)
    <3> DEFINE lines == Append(st.full, st.current)
    <3>1. next = [full |-> lines, current |-> <<word>>, stopped |-> Len(st.full) + 1 >= max]
      BY <1>3, <2>2 DEF PlaceWord
    <3>2. next.full = lines /\ next.current = <<word>>
      BY <3>1
    <3>20. IF Len(st.full) + 1 >= max THEN next.stopped ELSE ~next.stopped
      <4>1. next.stopped = (Len(st.full) + 1 >= max)
        BY <3>1
      <4> HIDE DEF next
      <4> QED
        BY <4>1, Zenon
    <3>3. /\ lines \in Seq(Seq(T)) /\ Len(lines) = Len(st.full) + 1 /\ lines[Len(lines)] = st.current
          /\ lines # << >>
      <4> DEFINE S == Seq(T)
                 c == st.current
      <4>1. st.full \in Seq(S) /\ c \in S /\ Len(st.full) \in Nat
        BY <2>0
      <4> HIDE DEF S, c
      <4>2. /\ Append(st.full, c) \in Seq(S) /\ Len(Append(st.full, c)) = Len(st.full) + 1
            /\ Append(st.full, c)[Len(st.full) + 1] = c /\ Append(st.full, c) # << >>
        BY <4>1, AppendProperties
      <4> QED
        BY <4>2 DEF S, c
    <3>4. Fitting(lines, width) /\ FlattenSeq(lines) = SubSeq(words, 1, n - 1)
      BY <2>0
    <3> HIDE DEF lines, next
    <3> DEFINE one == <<word>>
    <3>5. one \in Seq(T) /\ one # << >>
      BY <1>0
    <3>6. Fitting(Append(lines, one), width)
      BY <1>0, <2>2, <3>3, <3>4, NextLine
    <3>7. FlattenSeq(Append(lines, one)) = SubSeq(words, 1, n)
      <4>1. FlattenSeq(Append(lines, one)) = FlattenSeq(lines) \o one
        BY <3>3, <3>5, FlattenAppend
      <4> QED
        BY <1>0, <3>4, <4>1
    <3> HIDE DEF one
    <3>8. CASE Len(st.full) + 1 >= max
      <4>1. Len(lines) = max
        BY <2>0, <3>3, <3>8
      <4>2. n - 1 \in 0..(n - 1)
        BY <1>0
      <4> QED
        BY <3>2, <3>20, <3>3, <3>4, <3>5, <3>8, <4>1, <4>2 DEF Placed, one, next, word
    <3>9. CASE ~(Len(st.full) + 1 >= max)
      <4>1. Len(lines) < max
        BY <2>0, <3>3, <3>9
      <4> QED
        BY <3>2, <3>20, <3>3, <3>5, <3>6, <3>7, <3>9, <4>1 DEF Placed, one, next, word
    <3> QED
      BY <3>8, <3>9
  <2> QED
    BY <2>1, <2>2
<1> QED
  BY <1>1, <1>2, <1>3

(* Every text of any words on lines of any width: what _wrap returns is    *)
(* the beginning of the text, all of it unless the lines are full.         *)
LEMMA WrappedLinesHold ==
  ASSUME NEW T, NEW words \in Seq(T), NEW width, NEW max \in Nat \ {0}
  PROVE  LET lines == WrappedLines(words, width, max)
         IN  /\ lines \in Seq(Seq(T)) /\ Fitting(lines, width) /\ Len(lines) <= max
             /\ \E m \in 0..Len(words) :
                  /\ FlattenSeq(lines) = SubSeq(words, 1, m)
                  /\ m < Len(words) => Len(lines) = max
<1> DEFINE N == Len(words)
           eqn(f) == f = [n \in 0..N |->
                           IF n = 0 THEN NoLines ELSE PlaceWord(f[n - 1], words[n], width, max)]
           h == CHOOSE f : eqn(f)
           end == h[N]
           State == [full : Seq(Seq(T)), current : Seq(T), stopped : BOOLEAN]
<1>0. N \in Nat /\ DOMAIN words = 1..N /\ \A n \in 1..N : words[n] \in T
  BY LenProperties, ElementOfSeq
<1>1. WrappedLines(words, width, max) =
        IF Len(end.full) < max /\ end.current # << >> THEN Append(end.full, end.current)
                                                      ELSE end.full
  BY DEF WrappedLines
<1> HIDE DEF N
<1>2. ASSUME NEW st \in State, NEW word \in T PROVE PlaceWord(st, word, width, max) \in State
  <2> DEFINE trial == Append(st.current, word)
             one == <<word>>
             lines == Append(st.full, st.current)
  <2>1. st.full \in Seq(Seq(T)) /\ st.current \in Seq(T)
    OBVIOUS
  <2>2. trial \in Seq(T) /\ one \in Seq(T)
    BY <2>1, AppendProperties
  <2>3. lines \in Seq(Seq(T))
    BY <2>1, AppendProperties
  <2>4. PlaceWord(st, word, width, max) =
          IF st.stopped THEN st
          ELSE IF st.current = << >> \/ LineWidth(trial) <= width
          THEN [st EXCEPT !.current = trial]
          ELSE [full |-> lines, current |-> one, stopped |-> Len(st.full) + 1 >= max]
    BY DEF PlaceWord
  <2> HIDE DEF trial, one, lines
  <2>5. [st EXCEPT !.current = trial] \in State
    BY <2>2
  <2>6. [full |-> lines, current |-> one, stopped |-> Len(st.full) + 1 >= max] \in State
    BY <2>2, <2>3
  <2> HIDE DEF State
  <2> QED
    BY <2>4, <2>5, <2>6
<1>3. NoLines \in State
  BY DEF NoLines
<1> HIDE DEF State
<1>4. \E f : eqn(f)
  <2> DEFINE step == [x \in (1..N) \X State |-> PlaceWord(x[2], words[x[1]], width, max)]
  <2>1. step \in [(1..N) \X State -> State]
    BY <1>0, <1>2
  <2>2. \A n \in 1..N, v \in State : step[<<n, v>>] = PlaceWord(v, words[n], width, max)
    OBVIOUS
  <2> HIDE DEF step
  <2>3. PICK f \in [0..N -> State] : FollowsFrom(f, N, NoLines, step)
    BY <1>0, <1>3, <2>1, Recursion
  <2>4. \A n \in 0..N :
          f[n] = IF n = 0 THEN NoLines ELSE PlaceWord(f[n - 1], words[n], width, max)
    <3>1. \A n \in 0..N : n # 0 => n \in 1..N /\ n - 1 \in 0..N
      BY <1>0
    <3> QED
      BY <2>2, <2>3, <3>1 DEF FollowsFrom
  <2>5. f = [n \in 0..N |-> f[n]]
    OBVIOUS
  <2> QED
    BY <2>4, <2>5
<1>5. eqn(h)
  BY <1>4
<1>6. h[0] = NoLines /\ \A n \in 1..N : h[n] = PlaceWord(h[n - 1], words[n], width, max)
  <2>1. 0 \in 0..N /\ \A n \in 1..N : n \in 0..N /\ n # 0
    BY <1>0
  <2> HIDE DEF h
  <2> QED
    BY <1>5, <2>1
<1> HIDE DEF h
<1> DEFINE I == {n \in 0..N : h[n] \in State /\ Placed(h[n], words, n, T, width, max)}
<1>7. 0 \in I
  <2>1. NoLines.full = << >> /\ NoLines.current = << >> /\ ~NoLines.stopped
        /\ << >> \in Seq(Seq(T)) /\ << >> \in Seq(T)
    BY DEF NoLines
  <2>2. Placed(NoLines, words, 0, T, width, max)
    BY <2>1 DEF Placed
  <2> QED
    BY <1>0, <1>3, <1>6, <2>2
<1>8. ASSUME NEW n \in 1..N, n - 1 \in I PROVE n \in I
  <2> DEFINE st == h[n - 1]
  <2>1. st \in State /\ Placed(st, words, n - 1, T, width, max)
    BY <1>8
  <2>2. h[n] = PlaceWord(st, words[n], width, max) /\ n \in 0..N
    BY <1>0, <1>6
  <2> HIDE DEF st
  <2>3. Placed(PlaceWord(st, words[n], width, max), words, n, T, width, max)
    BY <2>1, PlaceWordStep DEF State, N
  <2> QED
    BY <1>0, <1>2, <2>1, <2>2, <2>3
<1> HIDE DEF I
<1>9. end \in State /\ Placed(end, words, N, T, width, max)
  <2>1. 0..N \subseteq I
    BY <1>0, <1>7, <1>8, Induction
  <2> QED
    BY <1>0, <2>1 DEF I
<1> HIDE DEF end
<1> DEFINE lines == WrappedLines(words, width, max)
<1>10. CASE end.stopped
  <2>1. /\ end.full \in Seq(Seq(T)) /\ Len(end.full) = max /\ Fitting(end.full, width)
        /\ \E m \in 0..(N - 1) : FlattenSeq(end.full) = SubSeq(words, 1, m)
    BY <1>9, <1>10 DEF Placed
  <2>2. lines = end.full
    BY <1>1, <2>1
  <2>3. \A m \in 0..(N - 1) : m \in 0..N
    BY <1>0
  <2> HIDE DEF lines
  <2> QED
    BY <2>1, <2>2, <2>3 DEF lines, N
<1>11. CASE ~end.stopped /\ end.current = << >>
  <2>1. N = 0 /\ end.full = << >>
    BY <1>9, <1>11 DEF Placed
  <2>2. lines = << >>
    BY <1>1, <1>11, <2>1
  <2>3. Len(<< >>) = 0 /\ << >> \in Seq(Seq(T)) /\ Fitting(<< >>, width)
    BY DEF Fitting
  <2>4. 0 \in 0..N /\ ~(0 < N) /\ 0 <= max
    BY <2>1
  <2>5. FlattenSeq(<< >>) = SubSeq(words, 1, 0)
    <3>1. SubSeq(words, 1, 0) = << >>
      BY SubSeqEmpty
    <3> QED
      BY <3>1, FlattenEmpty
  <2> HIDE DEF lines
  <2> QED
    BY <2>2, <2>3, <2>4, <2>5 DEF lines, N
<1>12. CASE ~end.stopped /\ end.current # << >>
  <2>1. /\ end.full \in Seq(Seq(T)) /\ end.current \in Seq(T) /\ Len(end.full) < max
        /\ Fitting(Append(end.full, end.current), width)
        /\ FlattenSeq(Append(end.full, end.current)) = SubSeq(words, 1, N)
    BY <1>9, <1>12 DEF Placed
  <2>2. lines = Append(end.full, end.current)
    BY <1>1, <1>12, <2>1
  <2>3. lines \in Seq(Seq(T)) /\ Len(lines) = Len(end.full) + 1 /\ Len(end.full) \in Nat
    BY <2>1, <2>2, AppendProperties
  <2>4. N \in 0..N /\ ~(N < N) /\ Len(lines) <= max
    BY <1>0, <2>1, <2>3
  <2> HIDE DEF lines
  <2> QED
    BY <2>1, <2>2, <2>3, <2>4 DEF lines, N
<1> QED
  BY <1>10, <1>11, <1>12

-----------------------------------------------------------------------------
LEMMA LineTypes ==
  ASSUME NEW T, NEW words \in Seq(T), NEW width, NEW max \in Nat \ {0}
  PROVE  LET lines == WrappedLines(words, width, max)
         IN  lines \in Seq(Seq(T)) /\ Len(lines) \in Nat /\ Len(lines) <= max
<1> DEFINE lines == WrappedLines(words, width, max)
<1>1. lines \in Seq(Seq(T)) /\ Len(lines) <= max
  BY WrappedLinesHold
<1> HIDE DEF lines
<1>2. Len(lines) \in Nat
  BY <1>1, LenProperties
<1> QED
  BY <1>1, <1>2 DEF lines

(* What the cards promise of a wrapped text.                               *)
WrapHolds(words, width, maxLines) ==
  LET w == Wrap(words, width, maxLines)
      complete == FlattenSeq(w.lines) = words
  IN  /\ IsPrefix(FlattenSeq(w.lines), words)
      /\ Len(w.lines) <= maxLines
      /\ w.ellipsis <=> ~complete
      /\ complete \/ Len(w.lines) = maxLines
      /\ \A i \in 1..(Len(w.lines) - 1) :
           /\ LineWidth(w.lines[i]) <= width \/ Len(w.lines[i]) = 1
           /\ ~(LineWidth(Append(w.lines[i], Head(w.lines[i + 1]))) <= width)
      /\ w.lastWidth <= width \/ (complete /\ Len(Last(w.lines)) = 1)

LEMMA WrapsRight ==
  ASSUME NEW T, NEW words \in Seq(T), NEW width \in Nat, width > EllipsisWidth,
         NEW max \in Nat \ {0}
  PROVE  WrapHolds(words, width, max)
<1> DEFINE lines == WrappedLines(words, width, max)
           flat == FlattenSeq(lines)
           w == Wrap(words, width, max)
           N == Len(words)
<1>1. PICK m \in 0..N : flat = SubSeq(words, 1, m) /\ (m < N => Len(lines) = max)
  BY WrappedLinesHold
<1>2. lines \in Seq(Seq(T)) /\ Fitting(lines, width) /\ Len(lines) <= max
  BY WrappedLinesHold
<1>3. w.lines = lines /\ w.ellipsis = (WordsLost(words, lines) /\ lines # << >>)
      /\ w.lastWidth = IF lines = << >> THEN 0
           ELSE IF w.ellipsis THEN Trimmed(LineWidth(Last(lines)), width) + EllipsisWidth
           ELSE LineWidth(Last(lines))
  BY DEF Wrap
<1>4. N \in Nat /\ m \in Nat /\ m <= N
  BY <1>1, LenProperties
<1>5. Len(flat) = m /\ flat \in Seq(T) /\ words = SubSeq(words, 1, N)
  <2>1. 1 \in Int /\ m \in Int /\ \A k \in 1..m : k \in 1..N
    BY <1>4
  <2>2. SubSeq(words, 1, m) \in Seq(T) /\ Len(SubSeq(words, 1, m)) = m
    BY <1>4
  <2>3. words = SubSeq(words, 1, N)
    OBVIOUS
  <2> QED
    BY <1>1, <2>2, <2>3
<1>6. (flat = words) <=> m = N
  BY <1>1, <1>5
<1>7. WordsLost(words, lines) <=> m # N
  <2>1. WordsLost(words, lines) <=> Len(flat) < N
    BY DEF WordsLost
  <2>2. Len(flat) = m
    BY <1>5
  <2> HIDE DEF flat, lines, N
  <2> QED
    BY <1>4, <2>1, <2>2
<1> HIDE DEF w, flat, lines, N
<1>8. IsPrefix(flat, words)
  <2>1. SubSeq(flat, 1, Len(flat)) = SubSeq(words, 1, Len(flat))
    <3>1. SubSeq(flat, 1, Len(flat)) = flat
      BY <1>5
    <3> QED
      BY <1>1, <1>5, <3>1
  <2>2. Len(flat) <= Len(words)
    BY <1>4, <1>5 DEF N
  <2> QED
    BY <2>1, <2>2 DEF IsPrefix
<1>9. flat # words => Len(lines) = max /\ lines # << >>
  <2>1. CASE m = N
    BY <1>6, <2>1
  <2>2. CASE m # N
    <3>1. m < N
      BY <1>4, <2>2
    <3>2. Len(lines) # 0
      BY <1>1, <3>1
    <3>3. Len(<< >>) = 0
      OBVIOUS
    <3> QED
      BY <1>1, <3>1, <3>2, <3>3
  <2> QED
    BY <2>1, <2>2
<1>10. w.ellipsis <=> flat # words
  BY <1>3, <1>6, <1>7, <1>9, Zenon
<1>11. w.lastWidth <= width \/ (flat = words /\ Len(Last(lines)) = 1)
  <2>1. CASE lines = << >>
    BY <1>3, <2>1
  <2>2. CASE lines # << >> /\ flat # words
    <3>1. w.lastWidth = Trimmed(LineWidth(Last(lines)), width) + EllipsisWidth
      BY <1>3, <1>10, <2>2, Zenon
    <3> DEFINE last == LineWidth(Last(lines))
    <3> HIDE DEF last
    <3>2. CASE last + EllipsisWidth <= width
      BY <3>1, <3>2 DEF Trimmed, last
    <3>3. CASE ~(last + EllipsisWidth <= width)
      <4>1. Trimmed(last, width) = width - EllipsisWidth
        BY <3>3 DEF Trimmed
      <4> QED
        BY <3>1, <4>1 DEF EllipsisWidth, last
    <3> QED
      BY <3>2, <3>3
  <2>3. CASE lines # << >> /\ flat = words
    <3>1. w.lastWidth = LineWidth(Last(lines))
      BY <1>3, <1>10, <2>3, Zenon
    <3>2. Len(lines) \in DOMAIN lines /\ Last(lines) = lines[Len(lines)]
      BY <1>2, <2>3, EmptySeq, LenProperties DEF Last
    <3> QED
      BY <1>2, <2>3, <3>1, <3>2 DEF Fitting
  <2> QED
    BY <2>1, <2>2, <2>3
<1>12. ASSUME NEW i \in 1..(Len(lines) - 1)
       PROVE  /\ LineWidth(lines[i]) <= width \/ Len(lines[i]) = 1
              /\ ~(LineWidth(Append(lines[i], Head(lines[i + 1]))) <= width)
  <2>1. i \in DOMAIN lines
    BY <1>2, LenProperties
  <2> QED
    BY <1>2, <2>1 DEF Fitting
<1> DEFINE kept == w.lines
<1>13. kept = lines
  BY <1>3
<1> HIDE DEF kept
<1>14. /\ IsPrefix(FlattenSeq(kept), words)
       /\ Len(kept) <= max
       /\ w.ellipsis <=> ~(FlattenSeq(kept) = words)
       /\ FlattenSeq(kept) = words \/ Len(kept) = max
       /\ \A i \in 1..(Len(kept) - 1) :
            /\ LineWidth(kept[i]) <= width \/ Len(kept[i]) = 1
            /\ ~(LineWidth(Append(kept[i], Head(kept[i + 1]))) <= width)
       /\ w.lastWidth <= width \/ (FlattenSeq(kept) = words /\ Len(Last(kept)) = 1)
  BY <1>2, <1>8, <1>9, <1>10, <1>11, <1>12, <1>13 DEF flat
<1> QED
  BY <1>14, Zenon DEF WrapHolds, kept, w

-----------------------------------------------------------------------------
(* A card has words, of any number, and no more requirements than a post.  *)
IsCard == card \in [words : Seq(MCWord), requirements : 0..MaxRequirements]

LEMMA CardInvariant == Spec => []IsCard
<1>1. Init => IsCard
  BY DEF Init, First, NoWords, IsCard, MaxRequirements
<1>2. IsCard /\ [Next]_vars => IsCard'
  <2> SUFFICES ASSUME IsCard, [Next]_vars PROVE IsCard'
    OBVIOUS
  <2>1. CASE NewCard
    <3>1. PICK w \in MCWord, n \in 0..MaxRequirements :
            card' = [words |-> <<w>>, requirements |-> n]
      BY <2>1 DEF NewCard
    <3>2. <<w>> \in Seq(MCWord)
      OBVIOUS
    <3> QED
      BY <3>1, <3>2 DEF IsCard
  <2>2. CASE AddWord
    <3>1. PICK w \in MCWord : card' = [card EXCEPT !.words = Append(@, w)]
      BY <2>2 DEF AddWord
    <3>2. Append(card.words, w) \in Seq(MCWord)
      BY AppendProperties DEF IsCard
    <3> QED
      BY <3>1, <3>2 DEF IsCard
  <2>3. CASE StartOver
    BY <2>3 DEF StartOver, NoWords, IsCard, MaxRequirements
  <2>4. CASE UNCHANGED card
    BY <2>4 DEF IsCard
  <2>5. [Next]_vars => NewCard \/ AddWord \/ StartOver \/ UNCHANGED card
    BY DEF Next, vars, NewPost, NewCaption, Type, Describe, AddLine
  <2> QED
    BY <2>1, <2>2, <2>3, <2>4, <2>5
<1> QED
  BY <1>1, <1>2, PTL DEF Spec

(* Whatever the text, the lines of a card are the words as far as they go, *)
(* and words are missing only behind an ellipsis on the last of all lines. *)
THEOREM WordsAreKept == Spec => []WrapKeepsTheWords
<1>1. IsCard => WrapKeepsTheWords
  <2> SUFFICES ASSUME IsCard, NEW maxLines \in {TitleLines, SummaryLines(0)}
               PROVE  WrapHolds(card.words, MCWidth, maxLines)
    BY DEF WrapKeepsTheWords, WrapHolds
  <2>1. maxLines \in Nat \ {0} /\ MCWidth \in Nat /\ MCWidth > EllipsisWidth
    BY DEF TitleLines, SummaryLines, MCWidth, EllipsisWidth
  <2>2. card.words \in Seq(MCWord)
    BY DEF IsCard
  <2> QED
    BY <2>1, <2>2, WrapsRight
<1> QED
  BY <1>1, CardInvariant, PTL

LEMMA LayoutsHold ==
  ASSUME NEW variant \in Variants, NEW title \in 0..TitleLines,
         NEW requirements \in 0..MaxRequirements, NEW summary \in 0..SummaryLines(requirements)
  PROVE  TextsApart(variant, title, summary, requirements)
<1>1. title \in {0, 1, 2} /\ requirements \in 0..4
  BY DEF TitleLines, MaxRequirements
<1>2. CASE variant = DarkCommand
  BY <1>1, <1>2 DEF TextsApart, Bottom, DarkCommand, At, Lines, SummaryLines, Listed, MaxListed,
     SummaryStep, RequirementStep, CardHeight
<1>3. CASE variant = NavyPrecision
  BY <1>1, <1>3 DEF TextsApart, Bottom, NavyPrecision, At, Lines, SummaryLines, Listed, MaxListed,
     SummaryStep, RequirementStep, CardHeight
<1>4. CASE variant = SplitPanel
  BY <1>1, <1>4 DEF TextsApart, Bottom, SplitPanel, At, Lines, SummaryLines, Listed, MaxListed,
     SummaryStep, RequirementStep, CardHeight
<1>5. CASE variant = EmeraldEdge
  BY <1>1, <1>5 DEF TextsApart, Bottom, EmeraldEdge, At, Lines, SummaryLines, Listed, MaxListed,
     SummaryStep, RequirementStep, CardHeight
<1> QED
  BY <1>2, <1>3, <1>4, <1>5 DEF Variants

(* No title and no summary, of any number of words, reaches the text below.*)
THEOREM TextsStayApart == Spec => []NothingOverlaps
<1>1. IsCard => NothingOverlaps
  <2> SUFFICES ASSUME IsCard, NEW variant \in Variants
      PROVE TextsApart(variant,
               Len(Wrap(card.words, MCWidth, TitleLines).lines),
               Len(Wrap(card.words, MCWidth, SummaryLines(card.requirements)).lines),
               card.requirements)
    BY DEF NothingOverlaps
  <2> DEFINE words == card.words
             reqs == card.requirements
             most == SummaryLines(reqs)
             title == Len(WrappedLines(words, MCWidth, TitleLines))
             summary == Len(WrappedLines(words, MCWidth, most))
  <2>1. words \in Seq(MCWord) /\ reqs \in 0..MaxRequirements
    BY DEF IsCard
  <2>2. TitleLines \in Nat \ {0} /\ most \in Nat \ {0}
    BY <2>1 DEF TitleLines, SummaryLines
  <2> HIDE DEF words, reqs, most
  <2>3. title \in 0..TitleLines
    <3>1. title \in Nat /\ title <= TitleLines
      BY <2>1, <2>2, LineTypes
    <3> QED
      BY <2>2, <3>1
  <2>4. summary \in 0..most
    <3>1. summary \in Nat /\ summary <= most
      BY <2>1, <2>2, LineTypes
    <3> QED
      BY <2>2, <3>1
  <2>5. /\ Len(Wrap(words, MCWidth, TitleLines).lines) = title
        /\ Len(Wrap(words, MCWidth, most).lines) = summary
    BY DEF Wrap
  <2> HIDE DEF title, summary
  <2>6. TextsApart(variant, title, summary, reqs)
    BY <2>1, <2>3, <2>4, LayoutsHold DEF most
  <2> QED
    BY <2>5, <2>6 DEF words, reqs, most
<1> QED
  BY <1>1, CardInvariant, PTL
===============================================================================
