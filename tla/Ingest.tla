------------------------------- MODULE Ingest -------------------------------
(***************************************************************************)
(* The fetch step of a run: app/ingest and the gather of pipeline_run.     *)
(*                                                                         *)
(* Two ingestors run as concurrent tasks.  RSS reads its feeds each in a   *)
(* thread of its own and waits for all of them; Telegram reads its         *)
(* channels one after the other over one client session.  Sources are      *)
(* numbered in the order of the configuration, feeds first, and a listing  *)
(* is the pair of its source and its place there.                          *)
(*                                                                         *)
(* AllFeedsGood, SkipDisconnect, ReconnectForever, ChannelFailsKeeping and *)
(* TelegramFirst are broken variants of the definition that follows each.  *)
(* The specification does not use them; each shows that some property      *)
(* would notice the mistake it stands for.                                 *)
(***************************************************************************)
EXTENDS Integers, SequencesExt

CONSTANTS NumFeeds,     \* length of Settings.rss_feed_urls
          NumChannels,  \* length of Settings.telegram_channels
          Pages,        \* what a feed may hold: sequences of EntryKind
          Histories     \* the last messages of a channel, likewise

(* What becomes of an entry or a message: a listing; nothing, as it has no *)
(* title or does not look like a job; an exception, caught entry by entry. *)
EntryKind == {"listing", "ignored", "malformed"}

ASSUME IngestAssumption ==
  /\ NumFeeds \in Nat /\ NumChannels \in Nat
  /\ Pages \subseteq Seq(EntryKind) /\ Histories \subseteq Seq(EntryKind)

Feed == 1..NumFeeds
Channel == (NumFeeds + 1)..(NumFeeds + NumChannels)
Source == Feed \cup Channel

VARIABLES content,    \* what each source holds during this fetch
          failed,     \* the sources that gave nothing because of an error
          feed,       \* per feed, its task: "parsing" or "done"
          got,        \* per feed, the listings of its task
          rss,        \* the RSS fetch: "gathering" or "returned"
          tg,         \* the Telegram fetch: the call it is about to make
          chan, pos,  \* the channel and the message it is at
          reading,    \* the listings of this channel so far
          tgJobs,     \* those of the channels before it
          connected,  \* the client session is open
          leaked,     \* the disconnect itself failed
          run,        \* pipeline_run: "gathering", "fetched" or "cancelled"
          batch       \* raw_jobs

rssVars == <<feed, got, rss>>
tgVars == <<tg, chan, pos, reading, tgJobs, connected, leaked>>
vars == <<content, failed, rssVars, tgVars, run, batch>>

Contents == {c \in [Source -> Pages \cup Histories] :
               /\ \A f \in Feed : c[f] \in Pages
               /\ \A k \in Channel : c[k] \in Histories}

(* get_all_ingestors leaves out an ingestor with nothing to read.          *)
Init ==
  /\ content \in Contents
  /\ failed = {}
  /\ feed = [f \in Feed |-> "parsing"]
  /\ got = [f \in Feed |-> << >>]
  /\ rss = "gathering"
  /\ tg = IF Channel = {} THEN "returned" ELSE "connect"
  /\ chan = NumFeeds + 1 /\ pos = 1
  /\ reading = << >> /\ tgJobs = << >>
  /\ connected = FALSE /\ leaked = FALSE
  /\ run = "gathering" /\ batch = << >>

-----------------------------------------------------------------------------
(* RSSIngestor.fetch: a task per feed, gathered with return_exceptions.    *)

Listings(s) ==
  FlattenSeq([i \in DOMAIN content[s] |->
    IF content[s][i] = "listing" THEN << <<s, i>> >> ELSE << >>])

FeedEnds(f) == feed[f] = "parsing" /\ feed' = [feed EXCEPT ![f] = "done"]

(* A page that is bozo but has entries is used all the same.               *)
FeedParsed(f) ==
  /\ FeedEnds(f)
  /\ got' = [got EXCEPT ![f] = Listings(f)]
  /\ UNCHANGED <<content, failed, rss, tgVars, run, batch>>

(* The parse raises, or returns a bozo page without entries.               *)
FeedFails(f) ==
  /\ FeedEnds(f)
  /\ failed' = failed \cup {f}
  /\ UNCHANGED <<content, got, rss, tgVars, run, batch>>

AllFeedsGood == \A f \in Feed : feed[f] = "done" /\ f \notin failed
AllFeedsDone == \A f \in Feed : feed[f] = "done"

RssReturns ==
  /\ rss = "gathering" /\ AllFeedsDone
  /\ rss' = "returned"
  /\ UNCHANGED <<content, failed, feed, got, tgVars, run, batch>>

-----------------------------------------------------------------------------
(* TelegramIngestor.fetch.  Every way out of it leads to the disconnect of *)
(* its finally.                                                            *)

NoChannelRead == failed' = failed \cup Channel
SkipDisconnect == tg' = "returned"
LeaveTry == tg' = "disconnect"

Connect ==
  /\ tg = "connect"
  /\ connected' = TRUE /\ tg' = "authorize"
  /\ UNCHANGED <<content, failed, rssVars, chan, pos, reading, tgJobs, leaked, run, batch>>

ReconnectForever ==
  /\ tg = "connect"
  /\ connected' = ~connected
  /\ UNCHANGED <<content, failed, rssVars, tg, chan, pos, reading, tgJobs, leaked, run, batch>>
ConnectFails ==
  /\ tg = "connect"
  /\ connected' \in BOOLEAN
  /\ LeaveTry /\ NoChannelRead
  /\ UNCHANGED <<content, rssVars, chan, pos, reading, tgJobs, leaked, run, batch>>

Authorized ==
  /\ tg = "authorize" /\ tg' = "read"
  /\ UNCHANGED <<content, failed, rssVars, chan, pos, reading, tgJobs,
                 connected, leaked, run, batch>>

(* The session is not authorized, or the question raises.                  *)
Unauthorized ==
  /\ tg = "authorize"
  /\ LeaveTry /\ NoChannelRead
  /\ UNCHANGED <<content, rssVars, chan, pos, reading, tgJobs, connected, leaked, run, batch>>

ReadMessage ==
  /\ tg = "read" /\ pos <= Len(content[chan])
  /\ reading' = IF content[chan][pos] = "listing" THEN Append(reading, <<chan, pos>>)
                                                  ELSE reading
  /\ pos' = pos + 1
  /\ UNCHANGED <<content, failed, rssVars, tg, chan, tgJobs, connected, leaked, run, batch>>

NextChannel ==
  /\ IF chan + 1 \in Channel THEN chan' = chan + 1 /\ tg' = "read"
                             ELSE chan' = chan /\ LeaveTry
  /\ pos' = 1 /\ reading' = << >>

ChannelEnds ==
  /\ tg = "read" /\ pos > Len(content[chan])
  /\ tgJobs' = tgJobs \o reading
  /\ NextChannel
  /\ UNCHANGED <<content, failed, rssVars, connected, leaked, run, batch>>

(* The channel raises half way: what was read of it is gone.               *)
ChannelFailsKeeping ==
  /\ tg = "read"
  /\ failed' = failed \cup {chan}
  /\ tgJobs' = tgJobs \o reading
  /\ NextChannel
  /\ UNCHANGED <<content, rssVars, connected, leaked, run, batch>>
ChannelFails ==
  /\ tg = "read"
  /\ failed' = failed \cup {chan}
  /\ NextChannel
  /\ UNCHANGED <<content, rssVars, tgJobs, connected, leaked, run, batch>>

Disconnect ==
  /\ tg = "disconnect" /\ tg' = "returned"
  /\ connected' = FALSE
  /\ UNCHANGED <<content, failed, rssVars, chan, pos, reading, tgJobs, leaked, run, batch>>

(* Raises and is swallowed, or is itself cancelled.                        *)
DisconnectFails ==
  /\ tg = "disconnect" /\ tg' = "returned"
  /\ leaked' = TRUE
  /\ UNCHANGED <<content, failed, rssVars, chan, pos, reading, tgJobs, connected, run, batch>>

-----------------------------------------------------------------------------
(* pipeline_run's gather: the batches in the order of the registry.        *)

TelegramFirst == tgJobs \o FlattenSeq(got)
Gathered == FlattenSeq(got) \o tgJobs

Fetched ==
  /\ run = "gathering" /\ rss = "returned" /\ tg = "returned"
  /\ run' = "fetched" /\ batch' = Gathered
  /\ UNCHANGED <<content, failed, rssVars, tgVars>>

(* The scheduler's shutdown cancels the run and with it both fetches; the  *)
(* feeds' threads end unheard.                                             *)
Cancel ==
  /\ run = "gathering" /\ run' = "cancelled"
  /\ rss' = "returned"
  /\ IF tg = "returned" THEN UNCHANGED tg ELSE LeaveTry
  /\ UNCHANGED <<content, failed, feed, got, chan, pos, reading, tgJobs,
                 connected, leaked, batch>>

(* Nothing is left of a fetch: the next one starts from Init again.        *)
FetchOver == run # "gathering" /\ tg = "returned" /\ UNCHANGED vars

TelegramStep ==
  \/ Connect \/ ConnectFails \/ Authorized \/ Unauthorized
  \/ ReadMessage \/ ChannelEnds \/ ChannelFails
  \/ Disconnect \/ DisconnectFails

Next ==
  \/ \E f \in Feed : FeedParsed(f) \/ FeedFails(f)
  \/ RssReturns \/ TelegramStep \/ Fetched \/ Cancel \/ FetchOver

Spec == Init /\ [][Next]_vars

(* Telethon's calls return or raise in the end.  Nothing is assumed of a   *)
(* feed: feedparser.parse is called without a time-out.                    *)
FairSpec == Spec /\ WF_vars(TelegramStep) /\ WF_vars(RssReturns) /\ WF_vars(Fetched)

-----------------------------------------------------------------------------
(* Whatever the order in which feeds and channels answer, the batch is in  *)
(* the order of the configuration: it decides which of two equal listings  *)
(* filter_new_jobs keeps.                                                  *)
BatchInConfigOrder ==
  \A i, k \in DOMAIN batch :
    i < k => \/ batch[i][1] < batch[k][1]
             \/ batch[i][1] = batch[k][1] /\ batch[i][2] < batch[k][2]

(* A source that fails, at any point, loses its own listings and no other  *)
(* source's; a malformed entry loses itself only.                          *)
FailureIsIsolated ==
  run = "fetched" =>
    ToSet(batch) =
      UNION {{<<s, i>> : i \in {n \in DOMAIN content[s] : content[s][n] = "listing"}} :
             s \in Source \ failed}

(* Once the Telegram fetch is over, cancelled or not, its session is       *)
(* closed, unless closing it failed.                                       *)
SessionIsClosed == tg = "returned" /\ connected => leaked

(* The Telegram fetch comes to its end whatever the feeds do.              *)
TelegramEnds == run = "gathering" ~> tg = "returned"

(* Only a feed that never answers keeps a run in its fetch step.           *)
OnlyAHungFeedStalls ==
  (\A f \in Feed : []<>(feed[f] = "done")) => (run = "gathering" ~> run # "gathering")
=============================================================================
