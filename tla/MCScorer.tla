------------------------------ MODULE MCScorer ------------------------------
(***************************************************************************)
(* Walks the listings of Scorer one edit at a time, their pay through the  *)
(* texts of PayText, so that the claims of both are checked on every       *)
(* listing and on every pair of neighbours.                                *)
(***************************************************************************)
EXTENDS PayText

(* The edges of the pay heuristic: just under and at the $15 floor, the    *)
(* $500 and $1000 lines, just under and at 15 * 2080 dollars a year.       *)
Plain == {1499, 1500, 50000, 60000, 100000, 100001, 3119999, 3120000}
InThousands == {1500, 3120, 8000}
MCAmount == {[cents |-> c, k |-> FALSE] : c \in Plain}
       \cup {[cents |-> c, k |-> TRUE] : c \in InThousands}

VARIABLE job

Init == job = [payMin |-> NoPay, payMax |-> NoPay,
               entryTitle |-> FALSE, scamTitle |-> FALSE,
               remote |-> FALSE, scamDescription |-> FALSE,
               letters |-> 3, uppers |-> 3, url |-> "empty"]

WithPay(pay) == job' = [job EXCEPT !.payMin = pay.payMin, !.payMax = pay.payMax]
NameRange == \E a, b \in MCAmount : WithPay(RangeOf(a, b))
NameAmount == \E a \in MCAmount : WithPay(SingleOf(a))
NameNoPay == WithPay(NothingFound)
EditTitle ==
  \E e \in BOOLEAN, s \in BOOLEAN, n \in {3, 4}, u \in {3, 4} :
    /\ u <= n
    /\ job' = [job EXCEPT !.entryTitle = e, !.scamTitle = s, !.letters = n, !.uppers = u]
EditDescription ==
  \E r \in BOOLEAN, s \in BOOLEAN :
    job' = [job EXCEPT !.remote = r, !.scamDescription = s]
EditUrl == \E u \in UrlKind : job' = [job EXCEPT !.url = u]

Next == \/ NameRange \/ NameAmount \/ NameNoPay
        \/ EditTitle \/ EditDescription \/ EditUrl
Spec == Init /\ [][Next]_job

-----------------------------------------------------------------------------
(* No listing without a pay figure passes the filter and the threshold.    *)
NoUnpaidJob == UnpaidNeverPasses(job)

(* A job under the pay floor passes if its upper figure, an entry-level    *)
(* title that is not shouted, and a remote text or a usable link make up   *)
(* for it, and only then.                                                  *)
BelowFloorMakesUp == BelowFloorMustMakeUp(job)

(* Raising pay_min within its unit never lowers the score.                 *)
MorePayScoresNoLower == [][BetterPayNeverScoresLower(job, job')]_job

(* The lower figure that X is shown is on the side of the pay floor where  *)
(* the scorer found it, up to the rounding to whole dollars.               *)
XShowsPayAsScored ==
  LET low == 100 * FormatPayRange(job).low
  IN  job.payMin # NoPay =>
        IF MeetsFloor(job.payMin) THEN low >= MinPayHourly ELSE low <= MinPayHourly

(* "A raw stored figure over $500 is an annual salary ... otherwise it is  *)
(* an hourly rate": each figure shown has the unit of its own size.  The   *)
(* text $80-100k is stored as 80 and 100000, and shown as $80-$100000/hr.  *)
EveryFigureInItsUnit ==
  \A v \in {job.payMin, job.payMax} \ {NoPay} :
    FormatPayAmounts(job).unit = "year" <=> v > YearlyThreshold
=============================================================================
