------------------------------- MODULE PayText -------------------------------
(***************************************************************************)
(* The way of a pay figure from a listing's text to its pay_min and        *)
(* pay_max (extract_pay_range of app/ingest/rss.py, used by both           *)
(* ingestors) and from there to the posts (app/formatter/base.py), where   *)
(* it should read the way Scorer has read it.                              *)
(*                                                                         *)
(* HourlyUnconverted is a broken variant of the definition that follows    *)
(* it. The specification does not use it; it shows that some property      *)
(* would notice the mistake it stands for.                                 *)
(***************************************************************************)
EXTENDS Scorer

(* An amount as written: a number of cents, with or without the suffix k.  *)
Amount == [cents: Nat, k: BOOLEAN]

ToDecimal(a) == IF a.k THEN a.cents * 1000 ELSE a.cents

(* What the patterns find in a text: a range, else one amount, else        *)
(* nothing.  Each amount of a range carries its own suffix.                *)
Extracted(low, high) == [payMin |-> low, payMax |-> high]

RangeOf(a, b) ==
  LET low == ToDecimal(a)
      high == ToDecimal(b)
  IN  IF low > high THEN Extracted(high, low) ELSE Extracted(low, high)
SingleOf(a) == Extracted(ToDecimal(a), NoPay)
NothingFound == Extracted(NoPay, NoPay)

-----------------------------------------------------------------------------
(* n/d to the nearest integer, ties to even: Decimal under the format .0f. *)
Rounded(n, d) ==
  LET q == n \div d
      twice == 2 * (n % d)
  IN  IF twice > d \/ (twice = d /\ q % 2 = 1) THEN q + 1 ELSE q

Dollars(cents) == Rounded(cents, 100)

(* _to_hourly, in whole dollars.                                           *)
HourlyUnconverted(v) == Dollars(v)
HourlyDollars(v) == IF IsAnnual(v) THEN Rounded(v, 100 * AnnualHours) ELSE Dollars(v)

IfKnown(v, shown) == IF v = NoPay THEN NoPay ELSE shown
Shown(low, high, unit) == [low |-> low, high |-> high, unit |-> unit]

(* format_pay_range, for X.  No pay at all shows nothing.                  *)
FormatPayRange(l) ==
  Shown(IfKnown(l.payMin, HourlyDollars(l.payMin)),
        IfKnown(l.payMax, HourlyDollars(l.payMax)), "hr")

(* format_pay_amounts, for Telegram, LinkedIn and the card: the unit is    *)
(* that of one figure, and yearly figures are cut to whole thousands.      *)
YearlyThreshold == 50000
Reference(l) == IF l.payMin # NoPay THEN l.payMin ELSE l.payMax
ShownAsYearly(l) == Reference(l) > YearlyThreshold

FormatPayAmounts(l) ==
  IF ShownAsYearly(l)
  THEN Shown(IfKnown(l.payMin, l.payMin \div 100000),
             IfKnown(l.payMax, l.payMax \div 100000), "year")
  ELSE Shown(IfKnown(l.payMin, Dollars(l.payMin)),
             IfKnown(l.payMax, Dollars(l.payMax)), "hr")
=============================================================================
