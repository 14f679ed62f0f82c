---------------------------- MODULE Ingest_proofs ----------------------------
(***************************************************************************)
(* Theorems about Ingest, for any number of feeds and channels: the        *)
(* session is closed, the batch is in the order of the configuration, and  *)
(* it has the listings of the sources that did not fail.  FetchInv is the  *)
(* inductive invariant of the last two: what each task has collected so    *)
(* far, in order, is what its sources hold up to where it stands.          *)
(***************************************************************************)
EXTENDS Ingest, SequenceFacts, TLAPS

(* The session is open only on the way to its disconnect.                  *)
SessionInv == connected => tg \in {"authorize", "read", "disconnect"} \/ leaked

LEMMA SessionInit == Init => SessionInv
BY DEF Init, SessionInv

LEMMA SessionStep ==
  ASSUME SessionInv, [Next]_vars
  PROVE  SessionInv'
<1> USE DEF SessionInv, LeaveTry
<1>1. CASE UNCHANGED vars
  BY <1>1 DEF vars, tgVars
<1>2. ASSUME NEW f \in Feed, FeedParsed(f) \/ FeedFails(f) PROVE SessionInv'
  BY <1>2 DEF FeedParsed, FeedFails, tgVars
<1>3. CASE RssReturns \/ Fetched
  BY <1>3 DEF RssReturns, Fetched, tgVars
<1>4. CASE Connect \/ ConnectFails \/ Authorized \/ Unauthorized
  BY <1>4 DEF Connect, ConnectFails, Authorized, Unauthorized
<1>5. CASE ReadMessage
  BY <1>5 DEF ReadMessage
<1>6. CASE ChannelEnds \/ ChannelFails
  BY <1>6 DEF ChannelEnds, ChannelFails, NextChannel
<1>7. CASE Disconnect \/ DisconnectFails
  BY <1>7 DEF Disconnect, DisconnectFails
<1>8. CASE Cancel
  BY <1>8 DEF Cancel
<1> QED
  BY <1>1, <1>2, <1>3, <1>4, <1>5, <1>6, <1>7, <1>8 DEF Next, TelegramStep, FetchOver

(* Wherever a failure or a cancel meets the Telegram fetch, its session is *)
(* closed in the end (the finally of TelegramIngestor.fetch).              *)
THEOREM SessionAlwaysClosed == Spec => []SessionIsClosed
<1>1. SessionInv => SessionIsClosed
  BY DEF SessionInv, SessionIsClosed
<1> QED
  BY <1>1, SessionInit, SessionStep, PTL DEF Spec

-----------------------------------------------------------------------------
(* A listing's place, and the order of the configuration on places.        *)
Place == Nat \X Nat
Earlier == {x \in Place \X Place : \/ x[1][1] < x[2][1]
                                   \/ x[1][1] = x[2][1] /\ x[1][2] < x[2][2]}

(* The listings a source holds, and sequences of just the places of P, in  *)
(* the order of the configuration.                                         *)
ListedIn(s) == {<<s, i>> : i \in {n \in DOMAIN content[s] : content[s][n] = "listing"}}
ListedUpTo(s, n) == {x \in ListedIn(s) : x[2] < n}
Holds(t, P) == t \in Seq(Place) /\ ToSet(t) = P /\ Ordered(t, Earlier)

(* A feed's task has all of its listings or, before its end or after an    *)
(* error, none.                                                            *)
FeedsInv ==
  /\ feed \in [Feed -> {"parsing", "done"}] /\ got \in [Feed -> Seq(Place)]
  /\ \A f \in Feed :
       /\ Holds(got[f], IF feed[f] = "done" /\ f \notin failed THEN ListedIn(f) ELSE {})
       /\ feed[f] = "parsing" => f \notin failed
  /\ rss = "returned" /\ run # "cancelled" => AllFeedsDone

(* The channels that the Telegram fetch is done with, for good or bad.     *)
Done == IF tg \in {"connect", "authorize"} THEN {}
        ELSE IF tg = "read" THEN {c \in Channel : c < chan} ELSE Channel

TelegramInv ==
  /\ tg \in {"connect", "authorize", "read", "disconnect", "returned"}
  /\ tg \in {"connect", "authorize", "read"} => run = "gathering" /\ failed \cap Channel \subseteq Done
  /\ tg \in {"connect", "authorize"} => chan = NumFeeds + 1 /\ chan \in Channel /\ pos = 1 /\ reading = << >>
  /\ tg = "read" => chan \in Channel /\ pos \in Nat \ {0} /\ Holds(reading, ListedUpTo(chan, pos))
  /\ run # "cancelled" => Holds(tgJobs, UNION {ListedIn(c) : c \in Done \ failed})

BatchInv ==
  /\ failed \subseteq Source /\ content \in Contents
  /\ run \in {"gathering", "fetched", "cancelled"}
  /\ run = "fetched" =>
       /\ tg = "returned" /\ AllFeedsDone
       /\ Holds(batch, UNION {ListedIn(s) : s \in Source \ failed})
  /\ run # "fetched" => batch = << >>

FetchInv == FeedsInv /\ TelegramInv /\ BatchInv

-----------------------------------------------------------------------------
LEMMA NothingHeld == Holds(<< >>, {})
BY DEF Holds, ToSet, Ordered

LEMMA OneHeld ==
  ASSUME NEW x \in Place
  PROVE  Holds(<<x>>, {x})
<1>1. <<x>> \in Seq(Place) /\ DOMAIN <<x>> = {1} /\ <<x>>[1] = x
  OBVIOUS
<1> QED
  BY <1>1 DEF Holds, ToSet, Ordered

LEMMA JoinedHolds ==
  ASSUME NEW t, NEW u, NEW P, NEW Q, Holds(t, P), Holds(u, Q),
         \A x \in P, y \in Q : <<x, y>> \in Earlier
  PROVE  Holds(t \o u, P \cup Q)
BY JoinedMembers, JoinedOrder DEF Holds

(* What one source holds, each in its place: fetch collects them in order. *)
LEMMA FlattenHolds ==
  ASSUME NEW s \in Seq(Seq(Place)), NEW P, \A k \in DOMAIN s : Holds(s[k], P[k]),
         \A k, m \in DOMAIN s : k < m => \A x \in P[k], y \in P[m] : <<x, y>> \in Earlier
  PROVE  Holds(FlattenSeq(s), UNION {P[k] : k \in DOMAIN s})
<1>1. \A k \in DOMAIN s : ToSet(s[k]) = P[k] /\ Ordered(s[k], Earlier)
  BY DEF Holds
<1>2. FlattenSeq(s) \in Seq(Place)
  BY FlattenType
<1>3. ToSet(FlattenSeq(s)) = UNION {P[k] : k \in DOMAIN s}
  <2>1. ToSet(FlattenSeq(s)) = UNION {ToSet(s[k]) : k \in DOMAIN s}
    BY FlattenMembers
  <2> QED
    BY <1>1, <2>1
<1>4. Ordered(FlattenSeq(s), Earlier)
  <2>1. \A k, m \in DOMAIN s : k < m =>
          \A x \in ToSet(s[k]), y \in ToSet(s[m]) : <<x, y>> \in Earlier
    BY <1>1
  <2> QED
    BY <1>1, <2>1, FlattenOrder
<1> QED
  BY <1>2, <1>3, <1>4 DEF Holds

LEMMA ContentType ==
  ASSUME content \in Contents, NEW s \in Source
  PROVE  /\ s \in Nat /\ content[s] \in Seq(EntryKind)
         /\ DOMAIN content[s] = 1..Len(content[s]) /\ Len(content[s]) \in Nat
<1>1. content[s] \in Seq(EntryKind)
  BY IngestAssumption DEF Contents
<1>2. s \in Nat
  BY IngestAssumption DEF Source, Feed, Channel
<1> QED
  BY <1>1, <1>2, LenProperties

LEMMA ListingsHold ==
  ASSUME content \in Contents, NEW s \in Source
  PROVE  Holds(Listings(s), ListedIn(s))
<1> DEFINE each == [i \in DOMAIN content[s] |->
                      IF content[s][i] = "listing" THEN << <<s, i>> >> ELSE << >>]
           P == [i \in DOMAIN content[s] |->
                   IF content[s][i] = "listing" THEN {<<s, i>>} ELSE {}]
<1>1. /\ s \in Nat /\ DOMAIN content[s] = 1..Len(content[s]) /\ Len(content[s]) \in Nat
  BY ContentType
<1>2. \A i \in DOMAIN content[s] : <<s, i>> \in Place
  BY <1>1 DEF Place
<1>3. \A i \in DOMAIN content[s] : Holds(each[i], P[i])
  BY <1>2, NothingHeld, OneHeld
<1>4. each \in Seq(Seq(Place))
  <2>1. \A i \in DOMAIN content[s] : each[i] \in Seq(Place)
    BY <1>3 DEF Holds
  <2>2. each \in [1..Len(content[s]) -> Seq(Place)]
    BY <1>1, <2>1
  <2> HIDE DEF each
  <2> QED
    BY <1>1, <2>2, SeqDef
<1>5. DOMAIN each = DOMAIN content[s]
  OBVIOUS
<1>6. \A k, m \in DOMAIN each : k < m => \A x \in P[k], y \in P[m] : <<x, y>> \in Earlier
  BY <1>2, <1>5 DEF Earlier
<1>7. UNION {P[k] : k \in DOMAIN each} = ListedIn(s)
  BY <1>5 DEF ListedIn
<1>8. FlattenSeq(each) = Listings(s)
  BY DEF Listings
<1> HIDE DEF each, P
<1>9. Holds(FlattenSeq(each), UNION {P[k] : k \in DOMAIN each})
  <2>1. \A k \in DOMAIN each : Holds(each[k], P[k])
    BY <1>3, <1>5, Zenon
  <2> QED
    BY <1>4, <1>6, <2>1, FlattenHolds
<1> QED
  BY <1>7, <1>8, <1>9, Zenon

-----------------------------------------------------------------------------
(* What the sources hold does not change, nor what is listed there.        *)
LEMMA ContentStays ==
  ASSUME [Next]_vars
  PROVE  content' = content /\ (\A s : ListedIn(s)' = ListedIn(s))
         /\ (\A s, n : ListedUpTo(s, n)' = ListedUpTo(s, n))
<1>1. content' = content
  BY DEF Next, vars, FeedParsed, FeedFails, RssReturns, TelegramStep, Connect, ConnectFails,
     Authorized, Unauthorized, ReadMessage, ChannelEnds, ChannelFails, Disconnect,
     DisconnectFails, Fetched, Cancel, FetchOver
<1> QED
  BY <1>1 DEF ListedIn, ListedUpTo

(* Feeds and channels are not the same sources.                            *)
LEMMA FeedsAreNoChannels == Feed \cap Channel = {} /\ Feed \subseteq Source /\ Channel \subseteq Source
BY IngestAssumption DEF Feed, Channel, Source

LEMMA FeedsStep ==
  ASSUME FetchInv, [Next]_vars
  PROVE  FeedsInv'
<1> USE DEF FetchInv
<1>0. /\ feed \in [Feed -> {"parsing", "done"}] /\ got \in [Feed -> Seq(Place)]
      /\ \A f \in Feed :
           /\ Holds(got[f], IF feed[f] = "done" /\ f \notin failed THEN ListedIn(f) ELSE {})
           /\ feed[f] = "parsing" => f \notin failed
      /\ rss = "returned" /\ run # "cancelled" => AllFeedsDone
      /\ content \in Contents
  BY DEF FeedsInv, BatchInv
<1>1. content' = content /\ \A s : ListedIn(s)' = ListedIn(s)
  BY ContentStays
<1>2. ASSUME UNCHANGED <<feed, got>>, failed' \cap Feed = failed \cap Feed,
             rss' = "returned" /\ run' # "cancelled" => AllFeedsDone
      PROVE  FeedsInv'
  <2>1. \A f \in Feed : f \in failed' <=> f \in failed
    BY <1>2
  <2>2. AllFeedsDone' <=> AllFeedsDone
    BY <1>2 DEF AllFeedsDone
  <2> QED
    BY <1>0, <1>1, <1>2, <2>1, <2>2 DEF FeedsInv
<1>3. ASSUME NEW f \in Feed, FeedParsed(f) PROVE FeedsInv'
  <2>1. /\ feed[f] = "parsing" /\ feed' = [feed EXCEPT ![f] = "done"]
        /\ got' = [got EXCEPT ![f] = Listings(f)] /\ failed' = failed /\ rss' = rss /\ run' = run
    BY <1>3 DEF FeedParsed, FeedEnds
  <2>2. Holds(Listings(f), ListedIn(f))
    BY <1>0, FeedsAreNoChannels, ListingsHold
  <2>3. Listings(f) \in Seq(Place)
    BY <2>2 DEF Holds
  <2>4. /\ feed' \in [Feed -> {"parsing", "done"}] /\ got' \in [Feed -> Seq(Place)]
    BY <1>0, <2>1, <2>3
  <2>5. ASSUME NEW g \in Feed
        PROVE  /\ Holds(got'[g], IF feed'[g] = "done" /\ g \notin failed THEN ListedIn(g) ELSE {})
               /\ feed'[g] = "parsing" => g \notin failed
    <3>1. CASE g = f
      BY <1>0, <2>1, <2>2, <3>1
    <3>2. CASE g # f
      <4>1. got'[g] = got[g] /\ feed'[g] = feed[g]
        BY <1>0, <2>1, <3>2
      <4> QED
        BY <1>0, <4>1
    <3> QED
      BY <3>1, <3>2
  <2>6. AllFeedsDone => AllFeedsDone'
    BY <1>0, <2>1 DEF AllFeedsDone
  <2> QED
    BY <1>0, <1>1, <2>1, <2>4, <2>5, <2>6 DEF FeedsInv
<1>4. ASSUME NEW f \in Feed, FeedFails(f) PROVE FeedsInv'
  <2>1. /\ feed[f] = "parsing" /\ feed' = [feed EXCEPT ![f] = "done"]
        /\ got' = got /\ failed' = failed \cup {f} /\ rss' = rss /\ run' = run
    BY <1>4 DEF FeedFails, FeedEnds
  <2>2. feed' \in [Feed -> {"parsing", "done"}]
    BY <1>0, <2>1
  <2>3. ASSUME NEW g \in Feed
        PROVE  /\ Holds(got'[g], IF feed'[g] = "done" /\ g \notin failed' THEN ListedIn(g) ELSE {})
               /\ feed'[g] = "parsing" => g \notin failed'
    <3>1. CASE g = f
      BY <1>0, <2>1, <3>1
    <3>2. CASE g # f
      BY <1>0, <2>1, <3>2
    <3> QED
      BY <3>1, <3>2
  <2>4. AllFeedsDone => AllFeedsDone'
    BY <1>0, <2>1 DEF AllFeedsDone
  <2> QED
    BY <1>0, <1>1, <2>1, <2>2, <2>3, <2>4 DEF FeedsInv
<1>5. CASE RssReturns \/ Fetched \/ Cancel
  BY <1>0, <1>2, <1>5 DEF RssReturns, Fetched, Cancel, rssVars
<1>6. CASE TelegramStep
  <2>1. UNCHANGED rssVars /\ run' = run
    BY <1>6 DEF TelegramStep, Connect, ConnectFails, Authorized, Unauthorized, ReadMessage,
       ChannelEnds, ChannelFails, Disconnect, DisconnectFails
  <2>2. failed' \in {failed, failed \cup Channel, failed \cup {chan}}
        /\ (failed' = failed \cup {chan} => chan \in Channel \/ failed' = failed)
    BY <1>6 DEF TelegramStep, Connect, ConnectFails, Authorized, Unauthorized, ReadMessage,
       ChannelEnds, ChannelFails, Disconnect, DisconnectFails, NoChannelRead, TelegramInv
  <2>3. failed' \cap Feed = failed \cap Feed
    BY <2>2, FeedsAreNoChannels
  <2> QED
    BY <1>0, <1>2, <2>1, <2>3 DEF rssVars
<1>7. CASE UNCHANGED vars \/ FetchOver
  BY <1>0, <1>2, <1>7 DEF FetchOver, vars, rssVars
<1> QED
  BY <1>3, <1>4, <1>5, <1>6, <1>7 DEF Next

(* The channels are read one after the other, each up to its end or to an  *)
(* error.                                                                  *)
LEMMA ListedApart ==
  ASSUME content \in Contents, NEW c \in Source
  PROVE  /\ ListedIn(c) \subseteq Place
         /\ \A x \in ListedIn(c) : x[1] = c
         /\ \A n : ListedUpTo(c, n) \subseteq ListedIn(c)
         /\ ListedUpTo(c, 1) = {}
         /\ \A n \in Nat : n > Len(content[c]) => ListedUpTo(c, n) = ListedIn(c)
         /\ \A d \in Source : c < d =>
              \A x \in ListedIn(c), y \in ListedIn(d) : <<x, y>> \in Earlier
<1>1. \A d \in Source : /\ d \in Nat /\ DOMAIN content[d] = 1..Len(content[d])
                        /\ Len(content[d]) \in Nat
  BY ContentType
<1>2. \A d \in Source : ListedIn(d) \subseteq Place /\ \A x \in ListedIn(d) : x[1] = d
  BY <1>1 DEF ListedIn, Place
<1>3. ListedUpTo(c, 1) = {}
  BY <1>1 DEF ListedIn, ListedUpTo
<1>4. ASSUME NEW n \in Nat, n > Len(content[c]) PROVE ListedUpTo(c, n) = ListedIn(c)
  <2> SUFFICES ASSUME NEW i \in DOMAIN content[c] PROVE i < n
    BY DEF ListedIn, ListedUpTo
  <2> QED
    BY <1>1, <1>4
<1>5. ASSUME NEW d \in Source, c < d, NEW x \in ListedIn(c), NEW y \in ListedIn(d)
      PROVE  <<x, y>> \in Earlier
  BY <1>2, <1>5 DEF Earlier
<1> QED
  BY <1>2, <1>3, <1>4, <1>5 DEF ListedUpTo

LEMMA ReadMessageStep ==
  ASSUME FetchInv, ReadMessage, content' = content
  PROVE  TelegramInv'
<1>0. /\ tg = "read" /\ tg' = "read" /\ chan' = chan /\ pos' = pos + 1 /\ run' = run
      /\ failed' = failed /\ tgJobs' = tgJobs /\ pos <= Len(content[chan])
      /\ run = "gathering" /\ failed \cap Channel \subseteq Done
      /\ chan \in Channel /\ pos \in Nat \ {0} /\ Holds(reading, ListedUpTo(chan, pos))
      /\ Holds(tgJobs, UNION {ListedIn(c) : c \in Done \ failed})
  BY DEF FetchInv, TelegramInv, ReadMessage
<1>1. content \in Contents /\ chan \in Source
  BY <1>0, FeedsAreNoChannels DEF FetchInv, BatchInv
<1>2. /\ pos \in DOMAIN content[chan] /\ chan \in Nat
  BY <1>0, <1>1, ContentType
<1>3. ListedUpTo(chan, pos + 1) =
        ListedUpTo(chan, pos) \cup
          (IF content[chan][pos] = "listing" THEN {<<chan, pos>>} ELSE {})
  <2>1. \A i \in DOMAIN content[chan] : i < pos + 1 <=> i < pos \/ i = pos
    BY <1>0, <1>1, ContentType
  <2> QED
    BY <1>2, <2>1 DEF ListedUpTo, ListedIn
<1>4. Holds(reading', ListedUpTo(chan, pos + 1))
  <2>1. CASE content[chan][pos] = "listing"
    <3>1. <<chan, pos>> \in Place /\ Holds(<< <<chan, pos>> >>, {<<chan, pos>>})
      BY <1>0, <1>2, OneHeld DEF Place
    <3>2. \A x \in ListedUpTo(chan, pos) : <<x, <<chan, pos>>>> \in Earlier
      BY <1>1, <3>1, ListedApart DEF ListedUpTo, Earlier
    <3>3. Holds(reading \o << <<chan, pos>> >>, ListedUpTo(chan, pos) \cup {<<chan, pos>>})
      BY <1>0, <3>1, <3>2, JoinedHolds
    <3>4. reading' = reading \o << <<chan, pos>> >>
      <4>1. reading' = Append(reading, <<chan, pos>>) /\ reading \in Seq(Place)
        BY <1>0, <2>1 DEF ReadMessage, Holds
      <4> QED
        BY <3>1, <4>1, AppendIsConcat
    <3> QED
      BY <1>3, <2>1, <3>3, <3>4
  <2>2. CASE content[chan][pos] # "listing"
    BY <1>0, <1>3, <2>2 DEF ReadMessage
  <2> QED
    BY <2>1, <2>2
<1>5. Done' = Done /\ \A c : ListedIn(c)' = ListedIn(c)
  BY <1>0 DEF Done, ListedIn
<1>6. ListedUpTo(chan, pos)' = ListedUpTo(chan, pos + 1)
  BY <1>0 DEF ListedUpTo, ListedIn
<1>7. (UNION {ListedIn(c) : c \in Done \ failed})' = UNION {ListedIn(c) : c \in Done \ failed}
  BY <1>0, <1>5
<1>8. pos' \in Nat \ {0} /\ Channel' = Channel
  BY <1>0 DEF Channel
<1> QED
  BY <1>0, <1>4, <1>5, <1>6, <1>7, <1>8 DEF TelegramInv

LEMMA ChannelOverStep ==
  ASSUME FetchInv, ChannelEnds \/ ChannelFails, content' = content
  PROVE  TelegramInv'
<1>0. /\ tg = "read" /\ NextChannel /\ run' = run
      /\ run = "gathering" /\ failed \cap Channel \subseteq Done
      /\ chan \in Channel /\ Holds(reading, ListedUpTo(chan, pos)) /\ pos \in Nat
      /\ Holds(tgJobs, UNION {ListedIn(c) : c \in Done \ failed})
  BY DEF FetchInv, TelegramInv, ChannelEnds, ChannelFails
<1>1. content \in Contents /\ chan \in Source
  BY <1>0, FeedsAreNoChannels DEF FetchInv, BatchInv
<1>2. /\ Done = {c \in Channel : c < chan} /\ chan \notin Done /\ Done \subseteq Channel
      /\ Channel \subseteq Nat
  BY <1>0, IngestAssumption DEF Done, Channel
<1>3. /\ Done' = Done \cup {chan} /\ Channel' = Channel
      /\ tg' \in {"read", "disconnect"}
      /\ tg' = "read" => chan' \in Channel /\ pos' = 1 /\ reading' = << >>
  <2>1. CASE chan + 1 \in Channel
    <3>1. tg' = "read" /\ chan' = chan + 1 /\ pos' = 1 /\ reading' = << >>
      BY <1>0, <2>1 DEF NextChannel
    <3>2. \A c \in Channel : c < chan + 1 <=> c < chan \/ c = chan
      BY <1>0, <1>2
    <3>3. Done' = {c \in Channel : c < chan + 1}
      BY <3>1 DEF Done, Channel
    <3> QED
      BY <1>0, <1>2, <2>1, <3>1, <3>2, <3>3 DEF Channel
  <2>2. CASE chan + 1 \notin Channel
    <3>1. tg' = "disconnect"
      BY <1>0, <2>2 DEF NextChannel, LeaveTry
    <3>2. \A c \in Channel : c < chan \/ c = chan
      BY <1>0, <2>2, IngestAssumption DEF Channel
    <3>3. Done' = Channel
      BY <3>1 DEF Done, Channel
    <3> QED
      BY <1>0, <1>2, <3>1, <3>2, <3>3 DEF Channel
  <2> QED
    BY <2>1, <2>2
<1>4. \A c : ListedIn(c)' = ListedIn(c)
  BY DEF ListedIn
<1>5. /\ failed' \cap Channel \subseteq Done'
      /\ Holds(tgJobs', UNION {ListedIn(c) : c \in Done' \ failed'})
  <2>1. CASE ChannelEnds
    <3>1. failed' = failed /\ tgJobs' = tgJobs \o reading /\ pos > Len(content[chan])
      BY <2>1 DEF ChannelEnds
    <3>2. Holds(reading, ListedIn(chan))
      BY <1>0, <1>1, <3>1, ListedApart
    <3>3. \A x \in UNION {ListedIn(c) : c \in Done \ failed}, y \in ListedIn(chan) :
            <<x, y>> \in Earlier
      <4> SUFFICES ASSUME NEW c \in Done, NEW x \in ListedIn(c), NEW y \in ListedIn(chan)
                   PROVE  <<x, y>> \in Earlier
        OBVIOUS
      <4>1. c \in Source /\ c < chan
        BY <1>2, FeedsAreNoChannels
      <4> QED
        BY <1>1, <4>1, ListedApart
    <3>4. Holds(tgJobs \o reading, (UNION {ListedIn(c) : c \in Done \ failed}) \cup ListedIn(chan))
      BY <1>0, <3>2, <3>3, JoinedHolds
    <3>5. chan \notin failed
      BY <1>0, <1>2
    <3>6. UNION {ListedIn(c) : c \in (Done \cup {chan}) \ failed} =
            (UNION {ListedIn(c) : c \in Done \ failed}) \cup ListedIn(chan)
      BY <3>5
    <3> QED
      BY <1>0, <1>3, <3>1, <3>4, <3>6
  <2>2. CASE ChannelFails
    <3>1. failed' = failed \cup {chan} /\ tgJobs' = tgJobs
      BY <2>2 DEF ChannelFails
    <3>2. Done' \ failed' = Done \ failed
      BY <1>2, <1>3, <3>1
    <3> QED
      BY <1>0, <1>3, <3>1, <3>2
  <2> QED
    BY <2>1, <2>2
<1>6. tg' = "read" => Holds(reading', ListedUpTo(chan, pos)')
  <2> SUFFICES ASSUME tg' = "read" PROVE Holds(reading', ListedUpTo(chan, pos)')
    OBVIOUS
  <2>1. PICK d \in Channel : d = chan'
    BY <1>3
  <2>2. ListedUpTo(chan, pos)' = ListedUpTo(d, 1)
    BY <1>3, <2>1 DEF ListedUpTo, ListedIn
  <2>3. ListedUpTo(d, 1) = {}
    BY <1>1, FeedsAreNoChannels, ListedApart
  <2> QED
    BY <1>3, <2>2, <2>3, NothingHeld
<1>7. (UNION {ListedIn(c) : c \in Done \ failed})' = UNION {ListedIn(c) : c \in Done' \ failed'}
  BY <1>4
<1>8. tg' = "read" => chan' \in Channel' /\ pos' \in Nat \ {0}
  BY <1>3
<1>9. tg' # "connect" /\ tg' # "authorize"
  BY <1>3
<1> HIDE DEF Done, Holds, Channel
<1> QED
  BY <1>0, <1>3, <1>5, <1>6, <1>7, <1>8, <1>9 DEF TelegramInv

LEMMA TelegramInvStep ==
  ASSUME FetchInv, [Next]_vars
  PROVE  TelegramInv'
<1>1. /\ content' = content /\ (\A s : ListedIn(s)' = ListedIn(s))
      /\ content \in Contents
  BY ContentStays DEF FetchInv, BatchInv
<1>2. TelegramInv /\ Channel' = Channel
  BY DEF FetchInv, Channel
<1>3. ASSUME UNCHANGED <<tg, chan, pos, reading, tgJobs>>, failed' \cap Channel = failed \cap Channel,
             run' = run \/ (tg = "returned" /\ run # "cancelled")
      PROVE  TelegramInv'
  <2>1. Done' = Done /\ Done \subseteq Channel
    BY <1>3 DEF Done, Channel
  <2>2. Done \ failed = Done' \ failed'
    BY <1>3, <2>1
  <2>3. (UNION {ListedIn(c) : c \in Done \ failed})' = UNION {ListedIn(c) : c \in Done \ failed}
    BY <1>1, <2>2
  <2>4. ListedUpTo(chan, pos)' = ListedUpTo(chan, pos)
    BY <1>1, <1>3 DEF ListedUpTo, ListedIn
  <2> QED
    BY <1>2, <1>3, <2>1, <2>3, <2>4 DEF TelegramInv
<1>4. CASE \E f \in Feed : FeedParsed(f) \/ FeedFails(f)
  <2>1. UNCHANGED tgVars /\ run' = run /\ failed' \cap Channel = failed \cap Channel
    BY <1>4, FeedsAreNoChannels DEF FeedParsed, FeedFails
  <2>2. UNCHANGED <<tg, chan, pos, reading, tgJobs>>
    BY <2>1 DEF tgVars
  <2>3. run' = run \/ (tg = "returned" /\ run # "cancelled")
    BY <2>1
  <2> QED
    BY <1>3, <2>1, <2>2, <2>3
<1>5. CASE RssReturns \/ Fetched \/ FetchOver \/ UNCHANGED vars
  BY <1>3, <1>5 DEF RssReturns, Fetched, FetchOver, vars, tgVars
<1>6. CASE Cancel
  BY <1>6 DEF Cancel, LeaveTry, TelegramInv
<1>7. CASE Connect
  <2>1. Done = {} /\ Done' = {}
    BY <1>7 DEF Connect, Done
  <2> QED
    BY <1>2, <1>7, <2>1 DEF Connect, TelegramInv
<1>8. CASE ConnectFails \/ Unauthorized
  <2>1. /\ tg \in {"connect", "authorize"} /\ tg' = "disconnect" /\ failed' = failed \cup Channel
        /\ run' = run /\ tgJobs' = tgJobs
    BY <1>8 DEF ConnectFails, Unauthorized, LeaveTry, NoChannelRead
  <2>2. Done = {} /\ Done' = Channel
    BY <1>2, <2>1 DEF Done
  <2>3. Done \ failed = {} /\ Done' \ failed' = {}
    BY <2>1, <2>2
  <2>4. (UNION {ListedIn(c) : c \in Done \ failed})' = UNION {ListedIn(c) : c \in Done \ failed}
    BY <1>1, <2>3
  <2> QED
    BY <1>2, <2>1, <2>4 DEF TelegramInv
<1>9. CASE Authorized
  <2>1. /\ tg = "authorize" /\ tg' = "read" /\ chan' = chan /\ pos' = pos /\ reading' = reading
        /\ run' = run /\ tgJobs' = tgJobs /\ failed' = failed
        /\ chan = NumFeeds + 1 /\ chan \in Channel /\ pos = 1 /\ reading = << >>
        /\ run = "gathering" /\ failed \cap Channel \subseteq {}
    BY <1>2, <1>9 DEF Authorized, TelegramInv, Done
  <2>2. Done = {} /\ Done' = {}
    BY <1>2, <2>1, IngestAssumption DEF Done, Channel
  <2>3. (UNION {ListedIn(c) : c \in Done \ failed})' = UNION {ListedIn(c) : c \in Done \ failed}
    BY <2>2
  <2>4. ListedUpTo(chan, pos)' = ListedUpTo(chan, 1)
    BY <1>1, <2>1 DEF ListedUpTo, ListedIn
  <2>5. Holds(reading', ListedUpTo(chan, pos)')
    BY <1>1, <2>1, <2>4, FeedsAreNoChannels, ListedApart, NothingHeld
  <2>6. chan' \in Channel' /\ pos' \in Nat \ {0}
    BY <1>2, <2>1
  <2>7. Holds(tgJobs', (UNION {ListedIn(c) : c \in Done \ failed})')
    BY <1>2, <2>1, <2>2, <2>3 DEF TelegramInv
  <2>8. failed' \cap Channel' \subseteq Done'
    BY <1>2, <2>1, <2>2
  <2> QED
    BY <2>1, <2>5, <2>6, <2>7, <2>8 DEF TelegramInv
<1>10. CASE ReadMessage
  BY <1>1, <1>10, ReadMessageStep
<1>11. CASE ChannelEnds \/ ChannelFails
  BY <1>1, <1>11, ChannelOverStep
<1>12. CASE Disconnect \/ DisconnectFails
  <2>1. /\ tg = "disconnect" /\ tg' = "returned" /\ failed' = failed /\ run' = run
        /\ tgJobs' = tgJobs
    BY <1>12 DEF Disconnect, DisconnectFails
  <2>2. Done' = Done
    BY <1>2, <2>1 DEF Done
  <2>3. (UNION {ListedIn(c) : c \in Done \ failed})' = UNION {ListedIn(c) : c \in Done \ failed}
    BY <1>1, <2>1, <2>2
  <2> QED
    BY <1>2, <2>1, <2>3 DEF TelegramInv
<1> QED
  BY <1>4, <1>5, <1>6, <1>7, <1>8, <1>9, <1>10, <1>11, <1>12 DEF Next, TelegramStep

(* The batch is what the two fetches hand over, the feeds' listings first. *)
LEMMA GatheredHolds ==
  ASSUME FetchInv, Fetched
  PROVE  Holds(Gathered, UNION {ListedIn(s) : s \in Source \ failed})
<1> DEFINE P == [f \in Feed |-> IF f \notin failed THEN ListedIn(f) ELSE {}]
<1>0. /\ content \in Contents /\ got \in [Feed -> Seq(Place)] /\ Done = Channel
      /\ Holds(tgJobs, UNION {ListedIn(c) : c \in Channel \ failed})
      /\ AllFeedsDone
      /\ \A f \in Feed : Holds(got[f], IF feed[f] = "done" /\ f \notin failed
                                         THEN ListedIn(f) ELSE {})
  BY DEF FetchInv, FeedsInv, TelegramInv, BatchInv, Fetched, Done
<1>1. \A f \in Feed : Holds(got[f], P[f])
  BY <1>0 DEF AllFeedsDone
<1>2. got \in Seq(Seq(Place)) /\ DOMAIN got = Feed
  BY <1>0, IngestAssumption, SeqDef DEF Feed
<1>3. \A f \in Feed : P[f] \subseteq ListedIn(f)
  OBVIOUS
<1>4. \A s \in Feed, d \in Source : s < d => \A x \in ListedIn(s), y \in ListedIn(d) :
        <<x, y>> \in Earlier
  BY <1>0, FeedsAreNoChannels, ListedApart
<1>5. UNION {P[f] : f \in Feed} = UNION {ListedIn(f) : f \in Feed \ failed}
  OBVIOUS
<1> HIDE DEF P
<1>6. Holds(FlattenSeq(got), UNION {P[f] : f \in DOMAIN got})
  <2>1. \A f \in DOMAIN got : Holds(got[f], P[f])
    BY <1>1, <1>2
  <2>2. \A f, g \in DOMAIN got : f < g => \A x \in P[f], y \in P[g] : <<x, y>> \in Earlier
    BY <1>2, <1>3, <1>4, FeedsAreNoChannels
  <2> QED
    BY <1>2, <2>1, <2>2, FlattenHolds
<1>7. \A f \in Feed, c \in Channel : f < c
  BY IngestAssumption DEF Feed, Channel
<1>8. \A x \in UNION {ListedIn(f) : f \in Feed \ failed},
         y \in UNION {ListedIn(c) : c \in Channel \ failed} : <<x, y>> \in Earlier
  BY <1>4, <1>7, FeedsAreNoChannels
<1>9. Holds(FlattenSeq(got) \o tgJobs,
            (UNION {ListedIn(f) : f \in Feed \ failed}) \cup
              (UNION {ListedIn(c) : c \in Channel \ failed}))
  <2>1. Holds(FlattenSeq(got), UNION {ListedIn(f) : f \in Feed \ failed})
    BY <1>2, <1>5, <1>6
  <2> QED
    BY <1>0, <1>8, <2>1, JoinedHolds
<1>10. UNION {ListedIn(s) : s \in Source \ failed} =
         (UNION {ListedIn(f) : f \in Feed \ failed}) \cup
           (UNION {ListedIn(c) : c \in Channel \ failed})
  BY DEF Source
<1> QED
  BY <1>9, <1>10 DEF Gathered

LEMMA BatchInvStep ==
  ASSUME FetchInv, [Next]_vars
  PROVE  BatchInv'
<1>0. BatchInv /\ TelegramInv
  BY DEF FetchInv
<1>1. content' = content /\ (\A s : ListedIn(s)' = ListedIn(s)) /\ Source' = Source
      /\ Contents' = Contents
  BY ContentStays DEF Source, Feed, Channel, Contents
<1>2. CASE Fetched
  <2>1. /\ failed' = failed /\ run' = "fetched" /\ batch' = Gathered
        /\ tg' = "returned" /\ feed' = feed
    BY <1>2 DEF Fetched, tgVars, rssVars
  <2>2. Holds(batch', UNION {ListedIn(s) : s \in Source \ failed})
    BY <1>2, <2>1, GatheredHolds
  <2>3. Holds(batch', (UNION {ListedIn(s) : s \in Source \ failed})')
    <3>1. (UNION {ListedIn(s) : s \in Source \ failed})' = UNION {ListedIn(s) : s \in Source \ failed}
      BY <1>1, <2>1
    <3> QED
      BY <2>2, <3>1
  <2>4. AllFeedsDone
    BY <1>2 DEF FetchInv, FeedsInv, Fetched
  <2>5. AllFeedsDone'
    BY <2>1, <2>4 DEF AllFeedsDone, Feed
  <2> QED
    BY <1>0, <1>1, <2>1, <2>3, <2>5 DEF BatchInv
<1>3. CASE UNCHANGED vars \/ FetchOver
  <2>1. UNCHANGED <<failed, run, batch, tg, feed>>
    BY <1>3 DEF FetchOver, vars, tgVars, rssVars
  <2>2. (UNION {ListedIn(s) : s \in Source \ failed})' = UNION {ListedIn(s) : s \in Source \ failed}
    BY <1>1, <2>1
  <2>3. AllFeedsDone' = AllFeedsDone
    BY <2>1 DEF AllFeedsDone, Feed
  <2> QED
    BY <1>0, <1>1, <2>1, <2>2, <2>3 DEF BatchInv
<1>4. ASSUME NEW f \in Feed, FeedParsed(f) \/ FeedFails(f) PROVE BatchInv'
  <2>1. feed[f] = "parsing" /\ run' = run /\ batch' = batch
    BY <1>4 DEF FeedParsed, FeedFails, FeedEnds
  <2>2. run # "fetched"
    BY <1>0, <2>1 DEF BatchInv, AllFeedsDone
  <2>3. failed' \subseteq Source
    BY <1>0, <1>4, FeedsAreNoChannels DEF BatchInv, FeedParsed, FeedFails
  <2> QED
    BY <1>0, <1>1, <2>1, <2>2, <2>3 DEF BatchInv
<1>5. CASE RssReturns
  <2>1. UNCHANGED <<failed, run, batch, tg, feed>>
    BY <1>5 DEF RssReturns, tgVars
  <2>2. (UNION {ListedIn(s) : s \in Source \ failed})' = UNION {ListedIn(s) : s \in Source \ failed}
    BY <1>1, <2>1
  <2>3. AllFeedsDone' = AllFeedsDone
    BY <2>1 DEF AllFeedsDone, Feed
  <2> QED
    BY <1>0, <1>1, <2>1, <2>2, <2>3 DEF BatchInv
<1>6. CASE TelegramStep
  <2>1. tg # "returned" /\ run' = run /\ batch' = batch
    BY <1>6 DEF TelegramStep, Connect, ConnectFails, Authorized, Unauthorized, ReadMessage,
       ChannelEnds, ChannelFails, Disconnect, DisconnectFails
  <2>2. failed' \subseteq Source
    BY <1>0, <1>6, FeedsAreNoChannels
       DEF TelegramStep, Connect, ConnectFails, Authorized, Unauthorized, ReadMessage,
       ChannelEnds, ChannelFails, Disconnect, DisconnectFails, NoChannelRead, TelegramInv, BatchInv
  <2> QED
    BY <1>0, <1>1, <2>1, <2>2 DEF BatchInv
<1>7. CASE Cancel
  BY <1>0, <1>1, <1>7 DEF Cancel, BatchInv
<1> QED
  BY <1>2, <1>3, <1>4, <1>5, <1>6, <1>7 DEF Next

LEMMA FetchInit == Init => FetchInv
<1> SUFFICES ASSUME Init PROVE FetchInv
  OBVIOUS
<1>1. FeedsInv
  <2>1. << >> \in Seq(Place)
    OBVIOUS
  <2> QED
    BY <2>1, NothingHeld DEF Init, FeedsInv
<1>2. UNION {ListedIn(c) : c \in Done \ failed} = {}
  BY DEF Init, Done, Channel
<1>3. Channel # {} => NumFeeds + 1 \in Channel
  BY IngestAssumption DEF Channel
<1>4. TelegramInv
  BY <1>2, <1>3, NothingHeld DEF Init, TelegramInv
<1>5. BatchInv
  BY DEF Init, BatchInv
<1> QED
  BY <1>1, <1>4, <1>5 DEF FetchInv

LEMMA FetchInvariant == Spec => []FetchInv
<1>1. FetchInv /\ [Next]_vars => FetchInv'
  BY FeedsStep, TelegramInvStep, BatchInvStep DEF FetchInv
<1> QED
  BY <1>1, FetchInit, PTL DEF Spec

(* In whatever order the feeds' threads and the channels answer, fail or   *)
(* are cut off, the batch keeps the configuration's order (the gathers of  *)
(* RSSIngestor.fetch and pipeline_run).                                    *)
THEOREM BatchKeepsConfigOrder == Spec => []BatchInConfigOrder
<1>1. FetchInv => BatchInConfigOrder
  <2> SUFFICES ASSUME FetchInv PROVE BatchInConfigOrder
    OBVIOUS
  <2>1. \E P : Holds(batch, P)
    BY NothingHeld DEF FetchInv, BatchInv
  <2>2. Ordered(batch, Earlier)
    BY <2>1 DEF Holds
  <2> QED
    BY <2>2 DEF Ordered, Earlier, BatchInConfigOrder
<1> QED
  BY <1>1, FetchInvariant, PTL

(* A run that gets past its fetch has every listing of every source that   *)
(* answered, and none of one that failed (return_exceptions, the except    *)
(* around each channel).                                                   *)
THEOREM OnlyFailedSourcesLose == Spec => []FailureIsIsolated
<1>1. FetchInv => FailureIsIsolated
  <2> SUFFICES ASSUME FetchInv, run = "fetched"
               PROVE  ToSet(batch) = UNION {ListedIn(s) : s \in Source \ failed}
    BY DEF FailureIsIsolated, ListedIn
  <2> QED
    BY DEF FetchInv, BatchInv, Holds
<1> QED
  BY <1>1, FetchInvariant, PTL
=============================================================================
