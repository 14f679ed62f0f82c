------------------------------- MODULE Scorer -------------------------------
(***************************************************************************)
(* The numeric score of a listing (app/pipeline/scorer.py) and the scam    *)
(* filter that runs before it (app/pipeline/filter.py).                    *)
(*                                                                         *)
(* A listing is reduced to what the two tell apart: its two pay figures,   *)
(* which keyword groups its title and description hit, how many letters    *)
(* of the title are upper case, and what kind of apply link it carries.    *)
(* Pay is in cents, so the source's Decimal arithmetic is exact here; the  *)
(* score is in tenths, the granularity of every factor, which is what      *)
(* round(_, 4) gives back to the source's floats.                          *)
(*                                                                         *)
(* UnknownMeetsFloor, FloorAsCeiling and CapsForgiven are broken variants  *)
(* of the definition that follows each. The specification does not use     *)
(* them; each shows that some property would notice the mistake it stands  *)
(* for.                                                                    *)
(***************************************************************************)
EXTENDS Integers

CONSTANTS MinPayHourly,  \* Settings.MIN_PAY_HOURLY, in cents
          MinScore       \* Settings.MIN_SCORE_THRESHOLD, in tenths

ASSUME ScorerAssumption == MinPayHourly \in Nat /\ MinScore \in 0..10

NoPay == -1              \* pay_min or pay_max is None
Pay == Nat \cup {NoPay}

\* What urlparse makes of apply_url: empty, no host, a redirect farm, a site.
UrlKind == {"empty", "nohost", "farm", "site"}

RawListing == [payMin: Pay, payMax: Pay,
               entryTitle: BOOLEAN, scamTitle: BOOLEAN,
               remote: BOOLEAN, scamDescription: BOOLEAN,
               letters: Nat, uppers: Nat, url: UrlKind]

-----------------------------------------------------------------------------
(* Whole dollars above this are taken for a yearly figure of 2080 hours.   *)
AnnualThreshold == 100000
AnnualHours == 2080

IsAnnual(value) == value > AnnualThreshold

(* pay_min is known and, brought to an hourly rate, meets the floor: the   *)
(* division by AnnualHours is moved to the other side.                     *)
UnknownMeetsFloor(value) ==
  value # NoPay =>
    IF IsAnnual(value) THEN value >= MinPayHourly * AnnualHours
                       ELSE value >= MinPayHourly
FloorAsCeiling(value) ==
  /\ value # NoPay
  /\ IF IsAnnual(value) THEN value <= MinPayHourly * AnnualHours
                        ELSE value <= MinPayHourly
MeetsFloor(value) ==
  /\ value # NoPay
  /\ IF IsAnnual(value) THEN value >= MinPayHourly * AnnualHours
                        ELSE value >= MinPayHourly

IsAllCaps(l) == l.letters >= 4 /\ l.uppers = l.letters

HasValidApplyUrl(l) == l.url = "site"

IsScam(l) == l.scamTitle \/ l.scamDescription

Points(holds, tenths) == IF holds THEN tenths ELSE 0

Bonuses(l) == Points(MeetsFloor(l.payMin), 4)
            + Points(l.payMax # NoPay, 2)
            + Points(l.entryTitle, 2)
            + Points(l.remote, 1)
            + Points(HasValidApplyUrl(l), 1)

CapsForgiven(l) == Points(l.scamDescription, 5)
                 + Points(l.payMin = NoPay /\ l.payMax = NoPay, 2)
Penalties(l) == Points(l.scamDescription, 5)
              + Points(IsAllCaps(l), 3)
              + Points(l.payMin = NoPay /\ l.payMax = NoPay, 2)

RawScore(l) == Bonuses(l) - Penalties(l)

ScoreJob(l) == IF RawScore(l) < 0 THEN 0
               ELSE IF RawScore(l) > 10 THEN 10 ELSE RawScore(l)

Passes(l) == ~IsScam(l) /\ ScoreJob(l) >= MinScore

-----------------------------------------------------------------------------
(* With a threshold of 0.3 or more (the default is 0.5), a listing whose   *)
(* text gave no pay figure is never posted, however many other factors of  *)
(* score_job it collects.                                                  *)
UnpaidNeverPasses(l) ==
  MinScore >= 3 /\ Passes(l) => l.payMin # NoPay \/ l.payMax # NoPay

(* With a threshold of 0.5 (the default) or more, a listing that does not  *)
(* meet the hourly floor is posted only when its upper figure is known,    *)
(* its title is entry level and not shouted, and the text says remote or   *)
(* the link is usable.  At 0.5 these are enough: a usable link is not      *)
(* needed if the text says remote.                                         *)
MakesUpForPay(l) ==
  l.payMax # NoPay /\ l.entryTitle /\ ~IsAllCaps(l) /\ (l.remote \/ HasValidApplyUrl(l))
BelowFloorMustMakeUp(l) ==
  ~MeetsFloor(l.payMin) =>
    /\ MinScore >= 5 /\ Passes(l) => MakesUpForPay(l)
    /\ MinScore = 5 /\ ~IsScam(l) /\ MakesUpForPay(l) => Passes(l)

(* Two listings that differ only in pay_min, both read as hourly or both   *)
(* as yearly: the better paid one never scores lower.  (Across the $1000   *)
(* line the heuristic is not monotone: 1000 an hour outranks 1001 a year.) *)
BetterPayNeverScoresLower(l, m) ==
  /\ m = [l EXCEPT !.payMin = m.payMin]
  /\ l.payMin # NoPay /\ m.payMin >= l.payMin
  /\ IsAnnual(l.payMin) <=> IsAnnual(m.payMin)
  => ScoreJob(m) >= ScoreJob(l)
=============================================================================
