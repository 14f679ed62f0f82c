---------------------------- MODULE Scorer_proofs ----------------------------
(***************************************************************************)
(* Theorems about Scorer and PayText: what MCScorer checks with one floor  *)
(* and one threshold, for every listing, every hourly floor and every      *)
(* threshold.                                                              *)
(***************************************************************************)
EXTENDS MCScorer, TLAPS

(* The factors of score_job one by one.                                    *)
LEMMA ScoreBounds ==
  ASSUME NEW l \in RawListing
  PROVE  /\ Bonuses(l) \in 0..10 /\ Penalties(l) \in 0..10
         /\ ScoreJob(l) \in 0..10
         /\ \A n \in 1..10 : ScoreJob(l) >= n => RawScore(l) >= n
<1>1. Bonuses(l) \in 0..10
  BY DEF Bonuses, Points
<1>2. Penalties(l) \in 0..10
  BY DEF Penalties, Points
<1> QED
  BY <1>1, <1>2 DEF ScoreJob, RawScore

(* A listing without a pay figure is never posted, whatever else it says,  *)
(* under any threshold from 0.3 up and any floor.                          *)
THEOREM UnpaidIsNeverPosted ==
  ASSUME NEW l \in RawListing
  PROVE  UnpaidNeverPasses(l)
<1> SUFFICES ASSUME MinScore >= 3, Passes(l), l.payMin = NoPay, l.payMax = NoPay
             PROVE  FALSE
  BY DEF UnpaidNeverPasses
<1>1. RawScore(l) >= 3
  BY ScoreBounds, ScorerAssumption DEF Passes
<1>2. Bonuses(l) <= 4
  BY DEF Bonuses, Points, MeetsFloor
<1>3. Penalties(l) >= 2
  BY DEF Penalties, Points
<1>4. Bonuses(l) \in 0..10 /\ Penalties(l) \in 0..10
  BY ScoreBounds
<1> QED
  BY <1>1, <1>2, <1>3, <1>4 DEF RawScore

(* A job below the hourly floor passes a threshold of 0.5 or more only     *)
(* when it makes up for it (an upper figure, an entry-level title that is  *)
(* not shouted, a remote text or a usable link), and at 0.5 always when it *)
(* does and is no scam, whatever the floor is.                             *)
THEOREM BelowFloorIsMadeUp ==
  ASSUME NEW l \in RawListing
  PROVE  BelowFloorMustMakeUp(l)
<1> SUFFICES ASSUME ~MeetsFloor(l.payMin)
             PROVE  /\ MinScore >= 5 /\ Passes(l) => MakesUpForPay(l)
                    /\ MinScore = 5 /\ ~IsScam(l) /\ MakesUpForPay(l) => Passes(l)
  BY DEF BelowFloorMustMakeUp
<1> DEFINE upper == Points(l.payMax # NoPay, 2)
           entry == Points(l.entryTitle, 2)
           remote == Points(l.remote, 1)
           url == Points(HasValidApplyUrl(l), 1)
           caps == Points(IsAllCaps(l), 3)
<1>1. /\ upper \in {0, 2} /\ entry \in {0, 2} /\ remote \in {0, 1} /\ url \in {0, 1}
      /\ caps \in {0, 3}
  BY DEF Points
<1>2. Bonuses(l) = upper + entry + remote + url
  BY <1>1 DEF Bonuses, Points
<1>3. Penalties(l) >= caps /\ Penalties(l) \in 0..10
  BY ScoreBounds DEF Penalties, Points
<1>4. ASSUME MinScore >= 5, Passes(l) PROVE MakesUpForPay(l)
  <2>1. Bonuses(l) - Penalties(l) >= 5
    BY <1>4, ScoreBounds, ScorerAssumption DEF Passes, RawScore
  <2> HIDE DEF upper, entry, remote, url, caps
  <2>2. upper = 2 /\ entry = 2 /\ caps = 0 /\ (remote = 1 \/ url = 1)
    BY <1>1, <1>2, <1>3, <2>1
  <2> QED
    BY <2>2 DEF upper, entry, remote, url, caps, Points, MakesUpForPay
<1>5. ASSUME MinScore = 5, ~IsScam(l), MakesUpForPay(l) PROVE Passes(l)
  <2>1. upper = 2 /\ entry = 2 /\ (remote = 1 \/ url = 1)
    BY <1>5 DEF MakesUpForPay, Points
  <2>2. Penalties(l) = 0
    BY <1>5 DEF Penalties, Points, MakesUpForPay, IsScam
  <2>3. Bonuses(l) \in 5..10
    <3> HIDE DEF upper, entry, remote, url
    <3> QED
      BY <1>1, <1>2, <2>1
  <2>4. ScoreJob(l) >= 5
    BY <2>2, <2>3 DEF ScoreJob, RawScore
  <2> QED
    BY <1>5, <2>4 DEF Passes
<1> QED
  BY <1>4, <1>5

(* Within one reading of the figure, more pay never costs a listing score. *)
THEOREM BetterPayIsNoWorse ==
  ASSUME NEW l \in RawListing, NEW m \in RawListing
  PROVE  BetterPayNeverScoresLower(l, m)
<1> SUFFICES ASSUME m = [l EXCEPT !.payMin = m.payMin],
                    l.payMin # NoPay, m.payMin >= l.payMin,
                    IsAnnual(l.payMin) <=> IsAnnual(m.payMin)
             PROVE  ScoreJob(m) >= ScoreJob(l)
  BY DEF BetterPayNeverScoresLower
<1>1. /\ m.payMax = l.payMax /\ m.entryTitle = l.entryTitle /\ m.remote = l.remote
      /\ m.scamDescription = l.scamDescription /\ m.letters = l.letters
      /\ m.uppers = l.uppers /\ m.url = l.url
  BY DEF RawListing
<1>2. /\ l.payMin \in Nat /\ m.payMin \in Nat
  BY DEF RawListing, Pay, NoPay
<1>3. MeetsFloor(l.payMin) => MeetsFloor(m.payMin)
  BY <1>2, ScorerAssumption DEF MeetsFloor, NoPay, AnnualHours
<1>4. Penalties(m) = Penalties(l)
  BY <1>1, <1>2 DEF Penalties, IsAllCaps, Points, NoPay
<1>5. Bonuses(m) >= Bonuses(l)
  <2>1. /\ HasValidApplyUrl(m) = HasValidApplyUrl(l)
    BY <1>1 DEF HasValidApplyUrl
  <2>2. Points(MeetsFloor(m.payMin), 4) >= Points(MeetsFloor(l.payMin), 4)
    BY <1>3 DEF Points
  <2> QED
    BY <1>1, <2>1, <2>2 DEF Bonuses, Points
<1> QED
  BY <1>4, <1>5, ScoreBounds DEF ScoreJob, RawScore

-----------------------------------------------------------------------------
(* Rounding is monotone and exact at whole numbers.                        *)
LEMMA RoundedAtLeast ==
  ASSUME NEW n \in Nat, NEW d \in Nat \ {0}, NEW w \in Nat, n >= w * d
  PROVE  Rounded(n, d) >= w /\ Rounded(n, d) \in Nat
<1> DEFINE q == n \div d
           e == n % d
<1>1. q \in Nat /\ e \in 0..(d - 1) /\ n = d * q + e
  OBVIOUS
<1>2. Rounded(n, d) \in {q, q + 1}
  BY DEF Rounded
<1> HIDE DEF q, e
<1>3. q >= w
  <2> SUFFICES ASSUME q + 1 <= w PROVE FALSE
    BY <1>1
  <2>1. w * d >= (q + 1) * d
    BY <1>1
  <2>2. (q + 1) * d = d * q + d
    BY <1>1
  <2>3. w * d \in Nat /\ d * q \in Nat
    BY <1>1
  <2> QED
    BY <1>1, <2>1, <2>2, <2>3
<1> QED
  BY <1>1, <1>2, <1>3

LEMMA RoundedAtMost ==
  ASSUME NEW n \in Nat, NEW d \in Nat \ {0}, NEW w \in Nat, n <= w * d
  PROVE  Rounded(n, d) <= w
<1> DEFINE q == n \div d
           e == n % d
<1>1. q \in Nat /\ e \in 0..(d - 1) /\ n = d * q + e
  OBVIOUS
<1>2. Rounded(n, d) \in {q, q + 1} /\ (e = 0 => Rounded(n, d) = q)
  BY <1>1 DEF Rounded
<1> HIDE DEF q, e
<1>3. q <= w /\ (e # 0 => q + 1 <= w)
  <2>1. w * d \in Nat /\ d * q \in Nat /\ d * q <= w * d
    BY <1>1
  <2>2. ASSUME q >= w + 1 PROVE FALSE
    <3>1. d * q >= d * (w + 1)
      BY <1>1, <2>2
    <3>2. d * (w + 1) = w * d + d
      OBVIOUS
    <3> QED
      BY <2>1, <3>1, <3>2
  <2>3. ASSUME q = w, e # 0 PROVE FALSE
    BY <1>1, <2>1, <2>3
  <2> QED
    BY <1>1, <2>2, <2>3
<1> QED
  BY <1>1, <1>2, <1>3

(* An hourly floor in whole dollars is on the same side of the figure X    *)
(* shows as of the figure itself, be it hourly or yearly.                  *)
LEMMA ShownOnItsSide ==
  ASSUME NEW w \in Nat, MinPayHourly = 100 * w, NEW v \in Nat
  PROVE  IF MeetsFloor(v) THEN 100 * HourlyDollars(v) >= MinPayHourly
                          ELSE 100 * HourlyDollars(v) <= MinPayHourly
<1>1. v # NoPay
  BY DEF NoPay
<1>2. CASE IsAnnual(v)
  <2>1. HourlyDollars(v) = Rounded(v, 208000)
    BY <1>2 DEF HourlyDollars, AnnualHours
  <2>2. CASE MeetsFloor(v)
    <3>1. v >= w * 208000
      BY <1>2, <2>2 DEF MeetsFloor, AnnualHours
    <3>2. Rounded(v, 208000) >= w /\ Rounded(v, 208000) \in Nat
      BY <3>1, RoundedAtLeast
    <3> QED
      BY <2>1, <2>2, <3>2
  <2>3. CASE ~MeetsFloor(v)
    <3>1. v <= w * 208000
      BY <1>1, <1>2, <2>3 DEF MeetsFloor, AnnualHours
    <3>2. Rounded(v, 208000) <= w /\ Rounded(v, 208000) \in Nat
      BY <3>1, RoundedAtMost, RoundedAtLeast
    <3> QED
      BY <2>1, <2>3, <3>2
  <2> QED
    BY <2>2, <2>3
<1>3. CASE ~IsAnnual(v)
  <2>1. HourlyDollars(v) = Rounded(v, 100)
    BY <1>3 DEF HourlyDollars, Dollars
  <2>2. CASE MeetsFloor(v)
    <3>1. v >= w * 100
      BY <1>3, <2>2 DEF MeetsFloor
    <3>2. Rounded(v, 100) >= w /\ Rounded(v, 100) \in Nat
      BY <3>1, RoundedAtLeast
    <3> QED
      BY <2>1, <2>2, <3>2
  <2>3. CASE ~MeetsFloor(v)
    <3>1. v <= w * 100
      BY <1>1, <1>3, <2>3 DEF MeetsFloor
    <3>2. Rounded(v, 100) <= w /\ Rounded(v, 100) \in Nat
      BY <3>1, RoundedAtMost, RoundedAtLeast
    <3> QED
      BY <2>1, <2>3, <3>2
  <2> QED
    BY <2>2, <2>3
<1> QED
  BY <1>2, <1>3

-----------------------------------------------------------------------------
(* Every listing that edits of its text reach is one the scorer can get.   *)
IsListing == job \in RawListing

LEMMA AmountsAreKnown ==
  ASSUME NEW a \in MCAmount
  PROVE  ToDecimal(a) \in Pay
BY DEF MCAmount, Plain, InThousands, ToDecimal, Pay

LEMMA InitListing == Init => job \in RawListing
BY DEF Init, RawListing, Pay, UrlKind, NoPay

LEMMA EditStep ==
  ASSUME job \in RawListing, [Next]_job
  PROVE  job' \in RawListing
<1> USE DEF RawListing
<1>1. ASSUME NEW low \in Pay, NEW high \in Pay, WithPay(Extracted(low, high))
      PROVE  job' \in RawListing
  BY <1>1 DEF WithPay, Extracted
<1>2. CASE NameRange
  <2>1. PICK a \in MCAmount, b \in MCAmount : WithPay(RangeOf(a, b))
    BY <1>2 DEF NameRange
  <2>2. RangeOf(a, b) \in {Extracted(ToDecimal(a), ToDecimal(b)),
                           Extracted(ToDecimal(b), ToDecimal(a))}
    BY DEF RangeOf
  <2> QED
    BY <1>1, <2>1, <2>2, AmountsAreKnown
<1>3. CASE NameAmount \/ NameNoPay
  <2>1. NoPay \in Pay
    BY DEF Pay
  <2> QED
    BY <1>1, <1>3, <2>1, AmountsAreKnown DEF NameAmount, NameNoPay, SingleOf, NothingFound
<1>4. CASE EditTitle
  <2>1. PICK e \in BOOLEAN, s \in BOOLEAN, n \in {3, 4}, u \in {3, 4} :
          job' = [job EXCEPT !.entryTitle = e, !.scamTitle = s, !.letters = n, !.uppers = u]
    BY <1>4 DEF EditTitle
  <2>2. n \in Nat /\ u \in Nat
    OBVIOUS
  <2> QED
    BY <2>1, <2>2
<1>5. CASE EditDescription
  BY <1>5 DEF EditDescription
<1>6. CASE EditUrl
  BY <1>6 DEF EditUrl
<1>7. CASE UNCHANGED job
  BY <1>7
<1> QED
  BY <1>2, <1>3, <1>4, <1>5, <1>6, <1>7 DEF Next

LEMMA ListingInvariant == Spec => []IsListing
<1>1. Init => IsListing
  BY InitListing DEF IsListing
<1>2. IsListing /\ [Next]_job => IsListing'
  BY EditStep DEF IsListing
<1> QED
  BY <1>1, <1>2, PTL DEF Spec

(* Whatever edits a listing goes through, without a pay figure it is never *)
(* posted (score_job, is_scam).                                            *)
THEOREM EditsKeepUnpaidOut == Spec => []NoUnpaidJob
<1>1. IsListing => NoUnpaidJob
  BY UnpaidIsNeverPosted DEF NoUnpaidJob, IsListing
<1> QED
  BY <1>1, ListingInvariant, PTL

(* Whatever edits a listing goes through, below the hourly floor it is     *)
(* posted only when the factors named above make up for its pay.           *)
THEOREM EditedBelowFloorIsMadeUp == Spec => []BelowFloorMakesUp
<1>1. IsListing => BelowFloorMakesUp
  BY BelowFloorIsMadeUp DEF BelowFloorMakesUp, IsListing
<1> QED
  BY <1>1, ListingInvariant, PTL

(* No edit that raises pay_min within its unit ever costs a listing score  *)
(* (score_job, _normalise_hourly).                                         *)
THEOREM RaisesNeverCostScore == Spec => MorePayScoresNoLower
<1>1. IsListing /\ [Next]_job => BetterPayNeverScoresLower(job, job')
  BY EditStep, BetterPayIsNoWorse DEF IsListing
<1> QED
  BY <1>1, ListingInvariant, PTL DEF Spec, MorePayScoresNoLower

(* With a floor of whole dollars, the lower figure X shows is never on the *)
(* other side of the floor than the figure the scorer compared with it     *)
(* (_normalise_hourly, _to_hourly, format_pay_range).                      *)
THEOREM XShowsWhatWasScored ==
  ASSUME NEW w \in Nat, MinPayHourly = 100 * w
  PROVE  Spec => []XShowsPayAsScored
<1>1. ASSUME IsListing PROVE XShowsPayAsScored
  <2> SUFFICES ASSUME job.payMin # NoPay
               PROVE  LET low == 100 * FormatPayRange(job).low
                      IN  IF MeetsFloor(job.payMin) THEN low >= MinPayHourly
                                                    ELSE low <= MinPayHourly
    BY DEF XShowsPayAsScored
  <2>1. job.payMin \in Nat
    BY <1>1 DEF IsListing, RawListing, Pay
  <2>2. FormatPayRange(job).low = HourlyDollars(job.payMin)
    BY DEF FormatPayRange, IfKnown, Shown
  <2> QED
    BY <2>1, <2>2, ShownOnItsSide
<1> QED
  BY <1>1, ListingInvariant, PTL
=============================================================================
